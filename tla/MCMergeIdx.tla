------------------------------ MODULE MCMergeIdx ------------------------------
(* Three days of three milliseconds, the last one current, cycles of two. One *)
(* source has every log in order of up to three records, and two with a       *)
(* record behind its predecessor; the other up to two, on fewer times.        *)
EXTENDS MergeIdx

MCTimes == 0..5
MCSources == {1, 2}
InOrder(n, times) ==
  {s \in UNION {[1..k -> times] : k \in 0..n} :
     \A i \in 2..Len(s) : s[i - 1] <= s[i]}
MCLogs ==
  {[s \in MCSources |-> IF s = 1 THEN l ELSE m] :
     l \in InOrder(3, MCTimes) \cup {<<5, 1>>, <<1, 5, 4>>}, m \in InOrder(2, {1, 2, 4})}
Stored == [at |-> 0, of |-> {}]
MCSeeds == {[d \in 0..1 |-> <<Stored>>]}
=============================================================================
