----------------------------- MODULE Integrity -----------------------------
(***************************************************************************)
(* integrity-check: one pass over the rows of a file, each judged with     *)
(* what the pass remembers of the rows before.  A finding is the row it is *)
(* about (0: the file), a name and a level.  Row layouts, message types,   *)
(* variances, depth and spread figures of bars and the means over a whole  *)
(* file that --strict looks at are left out.                               *)
(***************************************************************************)
EXTENDS Seam

CONSTANTS
  MinPx,                     \* the price floor
  Epoch, FutureSlack,        \* the bounds of a sane clock
  MaxAccepted, IdxMaxGap, JumpIn, CiIn,  \* JumpIn, CiIn: as a share 1/x of the mid
  StuckRun, StuckSample, StuckShare,     \* rows in a run; rows of a sample; rows per distinct mid
  ConfFloor, ActiveFloor,
  BrickIn,                   \* the smallest brick, as a share 1/x of its open
  DensitySlack,              \* bars above the span's, as a share 1/x
  VolMax                     \* the largest sigma

ASSUME IntegrityAssumption == IdxMaxGap \in Nat /\ StuckRun \in Nat \ {0}

Found(row, level, flags) == {[row |-> row, what |-> w, level |-> level] : w \in {v \in DOMAIN flags : flags[v]}}
Heuristic(strict)        == IF strict THEN "error" ELSE "warning"
At(level, fs)            == {f \in fs : f.level = level}

\* A file whose size is no multiple of a row is not read any further.
File(torn, findings) == IF torn THEN Found(0, "error", [truncated |-> TRUE]) ELSE findings

-----------------------------------------------------------------------------
\* Index rows.

BelowFloor(px) == ~Finite(px) \/ px < MinPx

Valid(r)    == Finite(r.bid) /\ Finite(r.ask) /\ r.bid > 0 /\ r.ask > 0   \* Index::validate
FloorBad(r) == BelowFloor(r.bid) \/ BelowFloor(r.ask)
Crossed(r)  == Finite(r.bid) /\ Finite(r.ask) /\ r.ask < r.bid

\* The confidence byte means what the flags say.
Stale(r) ==
  \/ r.enc = "active" /\ (r.conf < ActiveFloor \/ ~r.fresh)
  \/ r.enc = "freshness" /\ r.conf < ConfFloor

IdxHard(prev, r, now) ==
  [ epoch   |-> r.t < Epoch \/ r.t > now + FutureSlack,
    backwards |-> prev # None /\ r.t < prev,
    floor   |-> FloorBad(r),
    crossed |-> Crossed(r),
    accepted |-> r.accepted > MaxAccepted,
    depth   |-> ~r.sentinel /\ ~r.noBook /\ r.vbid = 0 /\ r.vask = 0,
    invalid |-> ~Valid(r),
    spread  |-> Valid(r) /\ ~FloorBad(r) /\ r.ask < r.bid ]

IdxWarned(prev, r) ==
  [ gap      |-> prev # None /\ r.t - prev > IdxMaxGap,
    oneSided |-> ~r.sentinel /\ ~r.noBook /\ (r.vbid = 0) # (r.vask = 0),
    rejected |-> ~r.sentinel /\ r.rejected > r.accepted ]

Derived(r) == Valid(r) /\ ~FloorBad(r)

\* A jump is not judged across a gap, nor from or to a heartbeat.
IdxHeuristic(st, r) ==
  [ ci    |-> 2 * r.ci * CiIn > Mid2(r),
    jump  |-> /\ ~r.sentinel /\ st.mid # None
              /\ (st.t # None /\ r.t >= st.t) => r.t - st.t <= IdxMaxGap
              /\ (IF Mid2(r) < st.mid THEN st.mid - Mid2(r) ELSE Mid2(r) - st.mid) * JumpIn > st.mid,
    stale |-> Stale(r) ]

IdxStart == [n |-> 0, t |-> None, mid |-> None, run |-> 0, longest |-> 0, mids |-> {}, real |-> 0, found |-> {}]

\* What the pass remembers of a mid.
Track(st, r) ==
  LET run == IF st.mid = Mid2(r) THEN st.run + 1 ELSE 1
  IN [st EXCEPT !.mid = Mid2(r), !.run = run, !.longest = Max({@, run}),
                !.mids = @ \cup {Mid2(r)}, !.real = @ + 1]

\* Mutant: a heartbeat counts as a quote.
IdxRowBeats(st, r, now, strict) ==
  LET n    == st.n + 1
      seen == [st EXCEPT !.n = n, !.t = r.t, !.found = @ \cup Found(n, "error", IdxHard(st.t, r, now))]
  IN IF ~Derived(r) THEN seen
     ELSE Track([seen EXCEPT !.found = @ \cup Found(n, Heuristic(strict), IdxHeuristic(st, r))], r)

IdxRow(st, r, now, strict) ==
  LET n    == st.n + 1
      seen == [st EXCEPT !.n = n, !.t = r.t,
                         !.found = @ \cup Found(n, "error", IdxHard(st.t, r, now))
                                     \cup Found(n, "warning", IdxWarned(st.t, r))]
      judged == [seen EXCEPT !.found = @ \cup Found(n, Heuristic(strict), IdxHeuristic(st, r))]
  IN IF ~Derived(r) THEN seen ELSE IF r.sentinel THEN judged ELSE Track(judged, r)

IdxFile(st, strict) ==
  Found(0, Heuristic(strict),
        [ stuck    |-> st.longest >= StuckRun,
          distinct |-> st.real >= StuckSample /\ Cardinality(st.mids) * StuckShare < st.real ])

IdxPass(rows, now, strict) ==
  LET st[i \in 0..Len(rows)] == IF i = 0 THEN IdxStart ELSE IdxRow(st[i - 1], rows[i], now, strict)
  IN st[Len(rows)]

CheckIdx(rows, now, strict) ==
  LET st == IdxPass(rows, now, strict) IN st.found \cup IdxFile(st, strict)

-----------------------------------------------------------------------------
\* Bars and bricks.

Ohlc(b) ==
  [ times     |-> b.t0 > b.t1,
    nonFinite |-> ~\A x \in {b.o, b.h, b.l, b.c} : Finite(x),
    high      |-> (\A x \in {b.o, b.h, b.l, b.c} : Finite(x)) /\ b.h < Max({b.o, b.c, b.l}),
    low       |-> (\A x \in {b.o, b.h, b.l, b.c} : Finite(x)) /\ b.l > Min({b.o, b.c, b.h}) ]

AllFinite(b) == \A x \in {b.o, b.h, b.l, b.c} : Finite(x)

Joined(prev, b) ==
  [ kind   |-> b.kind \notin {"kline", "renko", "other"},
    gap    |-> AllFinite(b) /\ prev # <<>> /\ b.kind = "kline" /\ prev[1].kind = "kline" /\ prev[1].t1 # b.t0,
    broken |-> AllFinite(b) /\ prev # <<>> /\ b.kind = "renko" /\ prev[1].kind = "renko" /\ prev[1].c # b.o,
    brick  |-> AllFinite(b) /\ b.kind = "renko" /\ b.o > 0
               /\ (IF b.c < b.o THEN b.o - b.c ELSE b.c - b.o) * BrickIn < b.o ]

\* The row before, if there is one.
Before(rows, i) == IF i = 1 THEN <<>> ELSE <<rows[i - 1]>>

CheckBars(rows) ==
  UNION {Found(i, "error", Ohlc(rows[i])) \cup Found(i, "error", Joined(Before(rows, i), rows[i])) : i \in DOMAIN rows}

Spacing(prev, b) == b.t1 - prev.t1

S10Hard(prev, b) ==
  [ notKline |-> b.kind # "kline",
    offGrid  |-> b.t0 % Bar # 0,
    spacing  |-> AllFinite(b) /\ prev # <<>> /\ (Spacing(prev[1], b) <= 0 \/ Spacing(prev[1], b) % Bar # 0) ]

S10Gap(prev, b) == AllFinite(b) /\ prev # <<>> /\ Spacing(prev[1], b) > Bar /\ Spacing(prev[1], b) % Bar = 0

\* --strict: from half to all of the bars of the span, which ends short of the last bar's end.
Sparse(rows) ==
  rows # <<>> /\ LET span == Last(rows).t1 - rows[1].t0
                 IN span > 0 /\ \/ 2 * Len(rows) * Bar < span
                                \/ Len(rows) * Bar * DensitySlack > span * (DensitySlack + 1)

CheckS10(rows, strict) ==
  UNION {Found(i, "error", Ohlc(rows[i])) \cup Found(i, "error", S10Hard(Before(rows, i), rows[i]))
           \cup Found(i, "warning", [gap |-> S10Gap(Before(rows, i), rows[i])]) : i \in DOMAIN rows}
    \cup Found(0, "error", [sparse |-> strict /\ Sparse(rows)])

-----------------------------------------------------------------------------
\* Volatility rows.

CheckVol(rows, now) ==
  UNION {Found(i, "error", [ epoch |-> rows[i].t < Epoch \/ rows[i].t > now + FutureSlack,
                             order |-> i > 1 /\ rows[i].t <= rows[i - 1].t,
                             sigma |-> ~Finite(rows[i].sigma) \/ rows[i].sigma < 0 \/ rows[i].sigma > VolMax ])
           \cup Found(i, "warning", [gap |-> i > 1 /\ rows[i].t - rows[i - 1].t > IdxMaxGap]) : i \in DOMAIN rows}

\* Of the findings of all files.
ExitCode(found, strict) ==
  IF At("error", found) # {} THEN 2
  ELSE IF found # {} THEN IF strict THEN 2 ELSE 1
  ELSE 0
=============================================================================
