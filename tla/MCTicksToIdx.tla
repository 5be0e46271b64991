----------------------------- MODULE MCTicksToIdx -----------------------------
(* Two files of up to two ticks in the first month, one of up to two in the  *)
(* second; cycles of two milliseconds. Ticks in order, with gaps and ties;   *)
(* one without prices; a file that goes back in time.                        *)
EXTENDS TicksToIdx

MCTimes == 0..9
Good(t) == [at |-> t, sane |-> TRUE]
Bad(t) == [at |-> t, sane |-> FALSE]
Goods(s) == [i \in DOMAIN s |-> Good(s[i])]
Upto2(S) == {<<>>} \cup {<<t>> : t \in S} \cup {<<t, u>> : t, u \in S}
MCInputs ==
  {<<<<Goods(f), Goods(g)>>, <<Goods(h)>>>> :
     f \in {<<1>>, <<0, 1>>, <<0, 3>>, <<1, 2>>, <<2, 0>>},
     g \in Upto2({1, 2, 3, 5}),
     h \in {<<6>>, <<6, 7>>, <<5, 9>>}}
  \cup {<<<<<<Good(0), Bad(4), Good(1)>>, <<Bad(0)>>>>, <<>>, <<<<Good(6)>>, <<Good(6)>>>>>>}
=============================================================================
