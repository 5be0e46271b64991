----------------------------- MODULE MCResample -----------------------------
(***************************************************************************)
(* Every shard of up to three records over seven instants, in order or     *)
(* not, with misrouted ones; two cadences, one a multiple of the other.    *)
(***************************************************************************)
EXTENDS Resample

Record == [ts : 0..6, own : BOOLEAN]

MCShards ==
  UNION {{[i \in 1..n |-> [ts |-> s[i].ts, src |-> i, own |-> s[i].own, healed |-> FALSE]] :
            s \in [1..n -> Record]} : n \in 1..3}
=============================================================================
