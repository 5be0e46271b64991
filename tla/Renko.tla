------------------------------- MODULE Renko -------------------------------
(***************************************************************************)
(* renko-from-idx: the mids of the index shards are fed to the brick       *)
(* generator through a jump guard.  The generator (nxr_sdk) is external: a *)
(* brick is k wide, its size does not follow the volatility; a brick opens *)
(* when the one before it closed.                                          *)
(***************************************************************************)
EXTENDS S10

CONSTANTS
  JumpDen,    \* a mid more than 1/JumpDen away from the last close is not fed
  ReseedAfter,\* that many in a row, and the last close is moved to the mid
  Bootstrap   \* how long the generator runs before bricks are kept

ASSUME RenkoAssumption == JumpDen \in Nat \ {0} /\ ReseedAfter \in Nat \ {0} /\ Bootstrap \in Nat

\* Pass 1: the first usable record anchors the bootstrap.
BootstrapEnd(rows) ==
  LET used == SelectSeq(rows, Usable) IN IF used = <<>> THEN Bootstrap ELSE used[1].t + Bootstrap

Distance(a, b) == IF a < b THEN b - a ELSE a - b
Jumps(st, mid) == st.close > 0 /\ Distance(mid, st.close) * JumpDen > st.close

Brick(t0, t1, o, c) ==
  [kind |-> "renko", t0 |-> t0, t1 |-> t1, o |-> o, h |-> Max({o, c}), l |-> Min({o, c}), c |-> c, n |-> 1]

Feed(st, k, t, mid) ==
  IF st.close = 0 THEN [st EXCEPT !.close = mid, !.t = t]
  ELSE LET n    == Distance(mid, st.close) \div k
           step == IF mid < st.close THEN -k ELSE k
           new  == [i \in 1..n |-> Brick(IF i = 1 THEN st.t ELSE t, t,
                                         st.close + (i - 1) * step, st.close + i * step)]
       IN [st EXCEPT !.close = @ + n * step, !.t = IF n = 0 THEN @ ELSE t, !.bricks = @ \o new]

FeedRow(st, k, from, r) ==
  LET mid == Mid2(r)
      fed == Feed([st EXCEPT !.trips = 0], k, r.t, mid)
  IN IF ~Usable(r) THEN st
     ELSE IF Jumps(st, mid)
          THEN IF st.trips + 1 >= ReseedAfter
               THEN [st EXCEPT !.trips = 0, !.close = mid]   \* seed_last_close
               ELSE [st EXCEPT !.trips = @ + 1]
     ELSE IF r.t < from THEN [fed EXCEPT !.bricks = st.bricks] ELSE fed

NoBrick == [close |-> 0, t |-> 0, trips |-> 0, bricks |-> <<>>]

BricksOf(rows, k) ==
  LET st[i \in 0..Len(rows)] == IF i = 0 THEN NoBrick ELSE FeedRow(st[i - 1], k, BootstrapEnd(rows), rows[i])
  IN st[Len(rows)].bricks

RenkoShards(shards, k) == ByDate(BricksOf(RowsOf(shards), k))
=============================================================================
