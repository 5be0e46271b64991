---------------------------- MODULE MCCalibrate -----------------------------
EXTENDS Calibrate

\* a: a pair against USDT; u: the same asset against USDC; q: USDC/USDT, not listed;
\* c: the cross of a and q; f: another one, without bars and with a forced k.
Has(t) == [idx |-> "ok", s10 |-> TRUE, days |-> [i \in 1..4 |-> [travel |-> t[i], sigma |-> 1]]]
Flat   == Has(<<1, 1, 2, 1>>)
Thin   == [Has(<<0, 0, 5, 0>>) EXCEPT !.s10 = FALSE]

MCSynthWork == <<"c", "f">>
MCLegs     == [i \in {"c", "f"} |-> <<"a", "q">>]
MCUsdcLegs == [i \in {"u"} |-> <<"a", "q">>]
MCForced   == [i \in {"f"} |-> 2]
MCVolumes  == {{"a", "c"}, {}}
Table == [a |-> <<Has(<<17, 40, 40, 40>>), Flat, Has(<<9, 17, 40, 40>>)>>,
          q |-> <<Flat, Flat, Flat>>,
          u |-> <<Has(<<0, 0, 0, 0>>), Thin, Has(<<30, 40, 30, 40>>)>>,
          c |-> <<Flat, [Flat EXCEPT !.s10 = FALSE], Flat>>,
          f |-> <<Thin, Thin, Thin>>]
MCFiles == [i \in DOMAIN Table |-> [d \in 0..2 |-> Table[i][d + 1]]]
=============================================================================
