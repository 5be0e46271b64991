------------------------------- MODULE Audit -------------------------------
(***************************************************************************)
(* data-quality-audit of one ticker: gaps, invariants, a frozen feed, the  *)
(* bricks and the bars of a window, and the verdict.  What only warns      *)
(* (outliers, the volatility file, depth, rejected quotes) is left out;    *)
(* so are the symbol tables behind a ticker's class and target.            *)
(*                                                                         *)
(* a: [idx, s10, renko: day -> rows; k: the calibrated k or None; stamp:   *)
(* the k of the manifest or None; pegged, resolved: whether the pair is    *)
(* known to be stable, whether its target is known; from, to: the window]. *)
(***************************************************************************)
EXTENDS Integrity

CONSTANTS
  MaxGap, QuietTol,
  ZeroRun,       \* flat bars in a row: K4
  Rollups,       \* the lengths higher bars are checked at
  CalmBelow,     \* the volatility below which a pair passes for stable
  Target,        \* bricks a day
  KLo, KHi       \* the sane ks

ASSUME AuditAssumption == ZeroRun \in Nat \ {0}

InWindow(a, shards) == [d \in {e \in DOMAIN shards : a.from <= e /\ e <= a.to} |-> shards[d]]
WindowRecords(a) == SortSeq(RowsOf(InWindow(a, a.idx)), LAMBDA x, y : x.t < y.t)
Bars(a)   == RowsOf(InWindow(a, a.s10))
Bricks(a) == RowsOf(InWindow(a, a.renko))

-----------------------------------------------------------------------------
\* Check 1: gaps and missing days.

\* The session of a day is its first to its last record.
Times(recs, d)   == {r.t : r \in {x \in ToSet(recs) : Day(x.t) = d}}
Active(recs, from, to) ==
  MapThenSumSet(
    LAMBDA d : Max({0, Min({to, Max(Times(recs, d))}) - Max({from, Min(Times(recs, d))})}),
    {Day(r.t) : r \in ToSet(recs)})

Suspect(recs) == {i \in 1..(Len(recs) - 1) : recs[i + 1].t - recs[i].t > MaxGap}

GapKind(recs, i) ==
  LET dt      == recs[i + 1].t - recs[i].t
      excused == recs[i].sentinel \/ recs[i + 1].sentinel \/ ~\E r \in ToSet(recs) : r.sentinel
  IN IF Active(recs, recs[i].t, recs[i + 1].t) <= MaxGap THEN "closed"
     ELSE IF excused /\ dt <= QuietTol THEN "quiet"
     ELSE "outage"

Outages(recs) == {i \in Suspect(recs) : GapKind(recs, i) = "outage"}

MissingDays(a) ==
  LET recs == WindowRecords(a)
  IN IF recs = <<>> THEN {}
     ELSE {d \in Max({Day(Head(recs).t), a.from})..Min({Day(Last(recs).t), a.to}) :
             d \notin DOMAIN InWindow(a, a.idx)}

-----------------------------------------------------------------------------
\* Check 2: what a record may never be (eval_invariant).

Reason(r) ==
  IF ~Finite(r.bid) \/ ~Finite(r.ask) THEN "non-finite"
  ELSE IF r.bid <= 0 THEN "bid"
  ELSE IF r.ask <= 0 THEN "ask"
  ELSE IF r.bid < MinPx \/ r.ask < MinPx THEN "floor"
  ELSE IF r.ask < r.bid THEN "crossed"
  ELSE IF r.enc = "raw" /\ r.conf > r.accepted THEN "confidence"
  ELSE "none"

ConfStale(r) ==
  /\ Reason(r) = "none"
  /\ IF r.enc = "active" THEN r.conf < ActiveFloor \/ ~r.fresh ELSE r.enc = "freshness" /\ r.conf < ConfFloor

-----------------------------------------------------------------------------
\* Check 3: stable pairs and frozen feeds.

Mids(recs) ==
  LET real == SelectSeq(recs, LAMBDA r : ~r.sentinel /\ Finite(r.bid) /\ Finite(r.ask) /\ Mid2(r) > 0)
  IN [i \in DOMAIN real |-> [t |-> real[i].t, px |-> Mid2(real[i])]]

Returns(mids) == Len(mids) - 1
Zeros(mids)   == Cardinality({i \in 1..(Len(mids) - 1) : mids[i].px = mids[i + 1].px})

\* The volatility of the daily ranges (nxr_sdk): of the bars, or of the mids if there are none.
Range2(pts) == Max(pts) - Min(pts)
Volatility(a) ==
  LET bars == {b \in ToSet(Bars(a)) : AllFinite(b) /\ b.l > 0 /\ b.h > 0}
      pts  == IF DOMAIN InWindow(a, a.s10) # {}
              THEN [d \in {Day(b.t0) : b \in bars} |-> UNION {{b.h, b.l} : b \in {x \in bars : Day(x.t0) = d}}]
              ELSE LET mids == ToSet(Mids(WindowRecords(a)))
                   IN [d \in {Day(m.t) : m \in mids} |-> {m.px : m \in {x \in mids : Day(x.t) = d}}]
  IN MapThenSumSet(LAMBDA d : Range2(pts[d]), DOMAIN pts)

Stable(a) ==
  LET mids == Mids(WindowRecords(a))
  IN \/ Volatility(a) > 0 /\ Volatility(a) < CalmBelow
     \/ Len(mids) > 1 /\ 100 * Zeros(mids) > 95 * Returns(mids)

Frozen(mids)  == Len(mids) > 1 /\ 100 * Zeros(mids) > 99 * Returns(mids)
StuckFeed(a)  == Frozen(Mids(WindowRecords(a))) /\ ~a.pegged /\ ~Stable(a)

-----------------------------------------------------------------------------
\* Check 4: bricks.

PerDay(bricks) == [d \in {Day(b.t1) : b \in ToSet(bricks)} |-> Len(SelectSeq(bricks, LAMBDA b : Day(b.t1) = d))]

\* Twice the median, and four times the median distance from it.
Med2(s) ==
  LET o == SortSeq(s, <)
      n == Len(s)
  IN IF n = 0 THEN 0 ELSE IF n % 2 = 1 THEN 2 * o[(n + 1) \div 2] ELSE o[n \div 2] + o[n \div 2 + 1]
Apart(x, y) == IF x < y THEN y - x ELSE x - y
Mad4(s) == Med2([i \in DOMAIN s |-> Apart(2 * s[i], Med2(s))])

\* Days that are over; one that has no brick is no day at all.
Counts(a) ==
  LET per == PerDay(Bricks(a))
      ds  == SetToSortSeq({d \in DOMAIN per : d < a.to}, <)
  IN [i \in DOMAIN ds |-> per[ds[i]]]

Drifts(counts) ==
  Med2(counts) > 0 /\ (Mad4(counts) > Med2(counts) \/ 200 * Min(ToSet(counts)) < 33 * Med2(counts))

RenkoReasons(a) ==
  LET n    == Len(Bricks(a))
      days == Cardinality(DOMAIN PerDay(Bricks(a)))
      judged == ~Stable(a) /\ a.resolved /\ days > 0 /\ Target > 0
  IN IF DOMAIN InWindow(a, a.renko) = {} THEN {}
     ELSE {w \in {"R1", "R2", "R3", "uncalibrated", "stale", "implausible", "off band", "ratio"} :
       CASE w = "R1" -> \E j \in Joints(InWindow(a, a.renko)) : RenkoViolated(j[1], j[2])
         [] w = "R2" -> ~Stable(a) /\ Drifts(Counts(a))
         [] w = "R3" -> \E b \in ToSet(Bricks(a)) :
                          b.o > 0 /\ Finite(b.o) /\ Finite(b.c) /\ Apart(b.o, b.c) * BrickIn < b.o
         [] w = "uncalibrated" -> a.k = None /\ days > 0
         [] w = "stale" -> a.k # None /\ a.stamp # None /\ Apart(a.stamp, a.k) * 20 > a.k
         [] w = "implausible" -> a.k # None /\ (a.k < KLo \/ a.k > KHi)
         [] w = "off band" -> judged /\ Apart(n, Target * days) * 5 > Target * days
         [] w = "ratio" -> judged /\ (2 * n < Target * days \/ n > 2 * Target * days)}

-----------------------------------------------------------------------------
\* Checks 5 and 6: bars.

\* Mutant: every shard counts for itself.
LongestFlatOfDay(bars) ==
  LET longest(d) == FoldLeft(LAMBDA st, b : IF b.n = 0 THEN [run |-> st.run + 1, longest |-> Max({st.longest, st.run + 1})]
                                            ELSE [st EXCEPT !.run = 0],
                             [run |-> 0, longest |-> 0], SelectSeq(bars, LAMBDA b : Day(b.t0) = d)).longest
  IN Max({0} \cup {longest(Day(b.t0)) : b \in ToSet(bars)})

LongestFlat(bars) ==
  LET st[i \in 0..Len(bars)] ==
        IF i = 0 THEN [run |-> 0, longest |-> 0]
        ELSE IF bars[i].n # 0 THEN [st[i - 1] EXCEPT !.run = 0]
        ELSE [run |-> st[i - 1].run + 1, longest |-> Max({st[i - 1].longest, st[i - 1].run + 1})]
  IN st[Len(bars)].longest

BadBar(prev, b) ==
  \/ ~AllFinite(b) \/ b.l > b.h \/ b.o < b.l \/ b.o > b.h \/ b.c < b.l \/ b.c > b.h \/ b.t0 > b.t1
  \/ prev # <<>> /\ b.t0 < prev[1].t1

OffGrid(prev, b) == prev # <<>> /\ b.t0 > prev[1].t0 /\ (b.t0 - prev[1].t0) % Bar # 0
SeamBreak(j)     == S10Violated(j[1], j[2]) /\ j[2].t0 - j[1].t0 = Bar

\* K3: the inner days, each against its own first to last bar, in thousandths.
Coverage(bars) ==
  LET day(d) == {b.t0 : b \in {x \in ToSet(bars) : Day(x.t0) = d}}
      ds     == SetToSortSeq({Day(b.t0) : b \in ToSet(bars)}, <)
      inner  == {ds[i] : i \in 2..(Len(ds) - 1)}
      fill(d) == (1000 * Len(SelectSeq(bars, LAMBDA b : Day(b.t0) = d))) \div (Range2(day(d)) \div Bar + 1)
  IN IF Len(ds) < 3 THEN 1000 ELSE MapThenSumSet(fill, inner) \div Cardinality(inner)

\* The last two shards, rolled up (nxr_sdk): what the parity is checked on.
RolledFrom(a) ==
  LET s == InWindow(a, a.s10)
      ds == SetToSortSeq(DOMAIN s, <)
  IN IF Len(ds) = 0 THEN <<>> ELSE IF Len(ds) = 1 THEN s[ds[1]] ELSE s[ds[Len(ds) - 1]] \o s[ds[Len(ds)]]
Covers(b, t, len) == t \in {(b.t0 \div len) * len, (b.t1 \div len) * len}
Rolled(src, t, len) ==
  LET in == SelectSeq(src, LAMBDA b : Covers(b, t, len))
  IN [t |-> t, o |-> Head(in).o, c |-> Last(in).c, h |-> Max({b.h : b \in ToSet(in)}), l |-> Min({b.l : b \in ToSet(in)}),
      n |-> FoldLeft(LAMBDA s, b : s + b.n, 0, in)]
Unequal(src, len) ==
  \E t \in {(b.t0 \div len) * len : b \in ToSet(src)} :
    LET r == Rolled(src, t, len)
    IN r.h < Max({r.o, r.c}) \/ r.l > Min({r.o, r.c}) \/ r.h < r.l

S10Reasons(a) ==
  LET bars == Bars(a)
  IN {w \in {"ohlc", "K1", "K2", "K3", "K4", "rollup"} :
       CASE w = "ohlc" -> \E i \in DOMAIN bars : BadBar(Before(bars, i), bars[i])
         [] w = "K1" -> \/ \E i \in DOMAIN bars : OffGrid(Before(bars, i), bars[i])
                        \/ \E j \in Joints(InWindow(a, a.s10)) : SeamBreak(j)
         [] w = "K2" -> \E b \in ToSet(bars) : b.t0 % Bar # 0
         [] w = "K3" -> Coverage(bars) < 500
         [] w = "K4" -> LongestFlat(bars) >= ZeroRun
         [] w = "rollup" -> \E len \in Rollups : Unequal(RolledFrom(a), len)}

-----------------------------------------------------------------------------
\* The verdict.

Reasons(a) ==
  {w \in {"outage", "missing", "invariant", "stuck"} :
     CASE w = "outage"  -> Outages(WindowRecords(a)) # {}
       [] w = "missing" -> MissingDays(a) # {}
       [] w = "invariant" -> \E r \in ToSet(WindowRecords(a)) : Reason(r) # "none"
       [] w = "stuck"   -> StuckFeed(a)}
    \cup RenkoReasons(a) \cup S10Reasons(a)

Verdict(a) == IF WindowRecords(a) = <<>> THEN "NO_DATA" ELSE IF Reasons(a) = {} THEN "PASS" ELSE "FAIL"
=============================================================================
