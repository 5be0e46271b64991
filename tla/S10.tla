-------------------------------- MODULE S10 --------------------------------
(***************************************************************************)
(* s10-from-idx: the records of a ticker's daily index shards are folded   *)
(* into a gapless grid of bars.  Time is in units, a bar Bar of them, a    *)
(* day DayLen.  A price is an integer, NaN one that is not finite; a bar's *)
(* price is twice a mid.  Variances, depth and spread of a bar are left    *)
(* out; the accumulator (nxr_sdk) is external.                             *)
(***************************************************************************)
EXTENDS Integers, Sequences, FiniteSets, FiniteSetsExt, SequencesExt, Functions

CONSTANTS Bar, DayLen, NaN, None

ASSUME S10Assumption ==
  /\ Bar \in Nat \ {0} /\ DayLen \in Nat \ {0} /\ DayLen % Bar = 0
  /\ NaN \in Int /\ NaN < 0 /\ None \notin Int

Day(t)    == t \div DayLen
Bucket(t) == (t \div Bar) * Bar
Finite(x) == x # NaN
Mid2(r)   == r.bid + r.ask

\* The elements of a sequence at some of its positions.
Only(s, I) ==
  LET only[i \in 0..Len(s)] == IF i = 0 THEN <<>> ELSE IF i \in I THEN Append(only[i - 1], s[i]) ELSE only[i - 1]
  IN only[Len(s)]

\* The rows of a directory, its shards in the order of their dates.
RowsOf(shards) ==
  LET n == Max({0} \cup {d + 1 : d \in DOMAIN shards})
      before[d \in 0..n] == IF d = 0 THEN <<>>
                            ELSE before[d - 1] \o IF d - 1 \in DOMAIN shards THEN shards[d - 1] ELSE <<>>
  IN before[n]
UpTo(shards, to) == [d \in {e \in DOMAIN shards : e <= to} |-> shards[d]]

\* Heartbeats repeat an old price and are skipped, as in the live producer.
Usable(r) == ~r.sentinel /\ Finite(r.bid) /\ Finite(r.ask) /\ Mid2(r) > 0

-----------------------------------------------------------------------------
\* The fold.

KlineBar(t, o, h, l, c, n) ==
  [kind |-> "kline", t0 |-> t, t1 |-> t + Bar - 1, o |-> o, h |-> h, l |-> l, c |-> c, n |-> n]

Flush(t, mids) ==
  KlineBar(t, mids[1], Max(ToSet(mids)), Min(ToSet(mids)), mids[Len(mids)], Len(mids))

\* Mutant: the last empty bucket of a gap is not filled.
FillGapShort(from, to, close) ==
  IF close <= 0 THEN <<>>
  ELSE [i \in 1..((to - from) \div Bar - 2) |-> KlineBar(from + i * Bar, close, close, close, close, 0)]

\* One flat bar for every bucket strictly between two.
FillGap(from, to, close) ==
  IF close <= 0 THEN <<>>
  ELSE [i \in 1..((to - from) \div Bar - 1) |-> KlineBar(from + i * Bar, close, close, close, close, 0)]

NoBar == [cb |-> None, mids |-> <<>>, bars |-> <<>>]

Open(st, r) == [st EXCEPT !.cb = Bucket(r.t), !.mids = Append(@, Mid2(r))]

\* Mutant: a late record opens its bucket again.
IngestLate(st, r) ==
  IF ~Usable(r) THEN st
  ELSE IF st.cb = None \/ st.cb = Bucket(r.t) THEN Open(st, r)
  ELSE LET done == Flush(st.cb, st.mids)
       IN Open([st EXCEPT !.mids = <<>>,
                          !.bars = Append(@, done) \o FillGap(st.cb, Bucket(r.t), done.c)], r)

Ingest(st, r) ==
  IF ~Usable(r) THEN st
  ELSE IF st.cb = None \/ st.cb = Bucket(r.t) THEN Open(st, r)
  ELSE IF Bucket(r.t) < st.cb THEN st
  ELSE LET done == Flush(st.cb, st.mids)
       IN Open([st EXCEPT !.mids = <<>>,
                          !.bars = Append(@, done) \o FillGap(st.cb, Bucket(r.t), done.c)], r)

Ingested(rows) ==
  LET st[i \in 0..Len(rows)] == IF i = 0 THEN NoBar ELSE Ingest(st[i - 1], rows[i]) IN st[Len(rows)]

\* The open bucket is flushed at the end; nothing is filled behind it.
BarsOf(rows) ==
  LET st == Ingested(rows) IN IF st.cb = None THEN <<>> ELSE Append(st.bars, Flush(st.cb, st.mids))

\* A bar belongs to the day it opens on.
ByDate(bars) ==
  [d \in {Day(b.t0) : b \in ToSet(bars)} |-> Only(bars, {i \in DOMAIN bars : Day(bars[i].t0) = d})]

S10Shards(shards, to) == ByDate(BarsOf(RowsOf(UpTo(shards, to))))

=============================================================================
