----------------------------- MODULE MCOnchain -----------------------------
(***************************************************************************)
(* Two pools, a Curve one and a hooked v4 one, over four days of four      *)
(* seconds: prices that change, that leave the band and come back, in one  *)
(* block and apart, a leg that falls silent, logs that cannot be decoded,  *)
(* an indexer that is behind, a quote with a gap, a shard that is there    *)
(* already and one of a live directory.                                    *)
(***************************************************************************)
EXTENDS Onchain, TLC

MCLegs == [curve |-> [v4 |-> FALSE, hooked |-> FALSE], v4 |-> [v4 |-> TRUE, hooked |-> TRUE]]
MCSymmetry == Permutations(Runs)

MCOrder == <<"curve", "v4">>

Time == <<1, 3, 4, 6, 7, 9, 12>>
Blocktime == [b \in 0..7 |-> IF b = 0 THEN 0 ELSE Time[b]]
Behind    == [b \in 0..6 |-> Blocktime[b]]

Log(l, b, i, k, p) == [leg |-> l, block |-> b, idx |-> i, kind |-> k, px |-> p]

Curve == {{Log("curve", 1, 0, "swap", 10)} \cup more :
            more \in {{Log("curve", b, 1, "swap", p)} : b \in {1, 4}, p \in {12, 20}}
                     \cup {{Log("curve", 3, 1, "swap", 20), Log("curve", 4, 0, "swap", 10), Log("curve", 6, 0, "swap", 12)},
                           {Log("curve", 4, 0, "dust", 20)}, {Log("curve", 4, 0, "bad", 20)}}}
V4 == {{Log("v4", 2, 0, "swap", 10)}, {Log("v4", 5, 0, "swap", 12)}}

Plain  == {[time |-> Blocktime, logs |-> c \cup v, quote |-> <<0, 4, 8>>, shards |-> s] :
             c \in Curve, v \in V4, s \in {{}, {2}}}
Base   == [time |-> Blocktime, logs |-> {Log("curve", 1, 0, "swap", 10), Log("v4", 2, 0, "swap", 10)},
           quote |-> <<0, 4, 8>>, shards |-> {}]
Faulty == {[Base EXCEPT !.time = Behind], [Base EXCEPT !.quote = <<0, 8>>], [Base EXCEPT !.shards = {3}]}

MCWorlds == Plain \cup Faulty

Arg(f, t, o, p) == [from |-> f, to |-> t, force |-> o, prune |-> p, sparse |-> TRUE]
MCArgs == {Arg(1, 2, FALSE, FALSE), Arg(1, 2, TRUE, TRUE), Arg(2, 2, TRUE, FALSE), Arg(1, 1, FALSE, FALSE),
           [Arg(1, 2, TRUE, FALSE) EXCEPT !.sparse = FALSE]}
=============================================================================
