----------------------------- MODULE MCQuality -----------------------------
\* Three days of three bars of two units.
EXTENDS Quality

Row(t, px) ==
  [t |-> t, bid |-> px - 1, ask |-> px + 1, sentinel |-> FALSE, noBook |-> FALSE, enc |-> "active", conf |-> 3,
   fresh |-> TRUE, accepted |-> 3, rejected |-> 0, vbid |-> 1, vask |-> 1, ci |-> 0]

MCNaN  == -999
MCLive == Row(0, 101)

\* A price for every time from a list; days from a set of rows.
Shards(rows) == [d \in {Day(rows[i].t) : i \in DOMAIN rows} |-> SelectSeq(rows, LAMBDA r : Day(r.t) = d)]
Tape(times, px(_)) == LET ts == SelectSeq([i \in 1..18 |-> i - 1], LAMBDA t : t \in times) IN [i \in DOMAIN ts |-> Row(ts[i], px(ts[i]))]

Saw(t)   == 100 + (t % 2)
Flat(t)  == 100
Ramp(t)  == 100 + 2 * t
Wave(t)  == 100 + 3 * (IF t % 6 < 3 THEN t % 6 ELSE 6 - (t % 6))
Spike(t) == IF t = 5 THEN 150 ELSE Ramp(t)
Step(t)  == IF t < 6 THEN 100 + 2 * t ELSE IF t < 12 THEN 110 ELSE IF t = 12 THEN 112 ELSE 136 + 2 * t
Shift(t) == IF t < 7 THEN Ramp(t) ELSE 50 + Ramp(t)

All == 0..17

World(rows) ==
  [idx |-> Shards(rows), late |-> {}, ks |-> <<>>, pegged |-> FALSE, live |-> 0, vol |-> <<>>,
   torn |-> FALSE, strict |-> FALSE, runs |-> {"audit"}]

\* One silence, anywhere.
Silent == {World(Tape(All \ (i..j), Saw)) : i \in {1, 3, 4}, j \in {7, 8, 13}}

\* One row that is not what it should be, among them the first of a run.
Odd(r) ==
  { [r EXCEPT !.bid = NaN], [r EXCEPT !.ask = 0], [r EXCEPT !.bid = 1, !.ask = 1], [r EXCEPT !.ask = r.bid - 1],
    [r EXCEPT !.sentinel = TRUE, !.bid = 150, !.ask = 152], [r EXCEPT !.enc = "raw", !.conf = 4],
    [r EXCEPT !.enc = "freshness", !.conf = 0], [r EXCEPT !.conf = 1], [r EXCEPT !.fresh = FALSE],
    [r EXCEPT !.vbid = 0, !.vask = 0], [r EXCEPT !.rejected = 9, !.vask = 0], [r EXCEPT !.accepted = 99],
    [r EXCEPT !.bid = 120, !.ask = 122, !.ci = 9] }
OddOnes == {[World([Tape(All, Flat) EXCEPT ![p] = o]) EXCEPT !.runs = {"check"}] : p \in {3}, o \in Odd(Row(2, 100))}

Late == {World([Tape(All, Saw) EXCEPT ![2] = Row(4, 103), ![5] = Row(1, 99)]),
         [World(Tape(All, Saw)) EXCEPT !.late = {0}], [World(Tape(All, Saw)) EXCEPT !.late = {1}]}

Frozen2 == {[World(Tape(All, Flat)) EXCEPT !.pegged = p] : p \in BOOLEAN}

Calibrated ==
  {[World(Tape(All, Ramp)) EXCEPT !.ks = <<8, 24>>], [World(Tape(All, Wave)) EXCEPT !.ks = <<6>>],
   [World(Tape(All, Spike)) EXCEPT !.ks = <<8>>], [World(Tape(All, Shift)) EXCEPT !.ks = <<1>>],
   [World(Tape(All, Step)) EXCEPT !.ks = <<4>>], [World(Tape(All, Ramp)) EXCEPT !.ks = <<8>>, !.late = {1}]}

Lively ==
  {[World(Tape(10..13, Saw)) EXCEPT !.live = 4, !.runs = {"check"}],
   [World(Tape(All, Saw)) EXCEPT !.torn = TRUE, !.strict = TRUE, !.runs = {"check"}],
   [World(Tape(All, Saw)) EXCEPT !.strict = TRUE, !.vol = <<[t |-> 0, sigma |-> 1], [t |-> 9, sigma |-> NaN]>>,
                                 !.runs = {"check", "audit"}]}

MCWorlds == Silent \cup OddOnes \cup Late \cup Frozen2 \cup Calibrated \cup Lively
=============================================================================
