------------------------------ MODULE MCBackfill ------------------------------
(* Four dates, two months of two days, the last date today, of which live    *)
(* has written its shard, so that a missing closed day is a gap. Exchange    *)
(* a has the archive of the first month, exchange b only a daily one.        *)
EXTENDS Backfill

CONSTANTS a, b, pyth, live

MCCex == {a, b}
MCDays == 1..4
MCMonthOf == [d \in MCDays |-> IF d <= 2 THEN 1 ELSE 2]
MCArchive ==
  (a :> {{1, 2}}) @@ (b :> {{3}}) @@ (pyth :> {{3}})
MCSeeds == {(4 :> {live})}
MCFlags == {[resume |-> r, keep |-> FALSE] : r \in BOOLEAN} \cup {[resume |-> FALSE, keep |-> TRUE]}
=============================================================================
