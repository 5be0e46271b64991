--------------------------- MODULE IdxShardsProofs ---------------------------
(***************************************************************************)
(* Theorems about the daily shards: first about Resample, which takes up   *)
(* one shard once its day is over, for any shard and any target cadences;  *)
(* then about IdxShards, for any set of slots, dates and inodes and any    *)
(* number of offline runs.                                                 *)
(***************************************************************************)
EXTENDS IdxShards, Resample, SequenceTheorems, WellFoundedInduction, TLAPS

-----------------------------------------------------------------------------
(* Resample: induction along a sequence.                                   *)

\* What is true at 0, and at a number when it is true before, is true up to N.
Lt == {ss \in Nat \X Nat : ss[1] < ss[2]}

LEMMA Upwards ==
  ASSUME NEW N \in Nat, NEW T, 0 \in T, \A n \in 0..(N - 1) : n \in T => n + 1 \in T
  PROVE  0..N \subseteq T
<1> DEFINE U == (0..N) \ T
<1> SUFFICES ASSUME U # {} PROVE FALSE
  OBVIOUS
<1>1. IsWellFoundedOn(Lt, Nat)  BY NatLessThanWellFounded DEF OpToRel, Lt
<1>2. U \subseteq Nat  OBVIOUS
<1>3. PICK n \in U : \A m \in U : ~ (<<m, n>> \in Lt)  BY <1>1, <1>2, WFMin
<1>4. n \in Nat /\ n # 0 /\ n <= N  OBVIOUS
<1>5. n - 1 \in 0..(N - 1) /\ n - 1 \in Nat /\ (n - 1) + 1 = n  BY <1>4
<1>6. n - 1 \notin T  BY <1>5
<1>7. n - 1 \in U /\ <<n - 1, n>> \in Lt  BY <1>4, <1>5, <1>6 DEF Lt
<1>8. QED  BY <1>3, <1>7

\* f[k] is what step k makes of f[k - 1].
Iterates(f, a, G, N, A) ==
  f \in [0..N -> A] /\ f[0] = a /\ \A k \in 1..N : f[k] = G[<<f[k - 1], k>>]

\* What one step makes of another is a function on the numbers up to N.
LEMMA Iterated ==
  ASSUME NEW A, NEW a \in A, NEW N \in Nat, NEW G \in [A \X (1..N) -> A]
  PROVE  \E f : Iterates(f, a, G, N, A)
<1> DEFINE P(f, n) == f \in [0..n -> A] /\ f[0] = a /\ \A k \in 1..n : f[k] = G[<<f[k - 1], k>>]
           T == {n \in 0..N : \E f : P(f, n)}
<1>1. 0 \in T
  <2>1. P([k \in 0..0 |-> a], 0)  OBVIOUS
  <2>2. 0 \in 0..N  OBVIOUS
  <2> HIDE DEF P
  <2>3. QED  BY <2>1, <2>2
<1>2. ASSUME NEW n \in 0..(N - 1), n \in T PROVE n + 1 \in T
  <2>1. PICK f : P(f, n)  BY <1>2
  <2>2. n + 1 \in 1..N /\ n \in 0..n /\ n \in Nat  OBVIOUS
  <2> DEFINE b == G[<<f[n], n + 1>>]
             g == [k \in 0..(n + 1) |-> IF k = n + 1 THEN b ELSE f[k]]
  <2>3. b \in A
    <3>1. f[n] \in A  BY <2>1, <2>2
    <3>2. QED  BY <3>1, <2>2
  <2>4. \A k \in 0..(n + 1) : k = n + 1 \/ k \in 0..n  BY <2>2
  <2>5. g \in [0..(n + 1) -> A]  BY <2>1, <2>3, <2>4
  <2>6. g[0] = a  BY <2>1, <2>2
  <2>7. ASSUME NEW k \in 1..(n + 1) PROVE g[k] = G[<<g[k - 1], k>>]
    <3>1. CASE k = n + 1
      <4>1. g[k] = b /\ g[k - 1] = f[n]  BY <3>1, <2>2
      <4>2. QED  BY <3>1, <4>1
    <3>2. CASE k # n + 1
      <4>1. k \in 1..n /\ k - 1 \in 0..n /\ k \in 0..(n + 1) /\ k - 1 # n + 1 /\ k - 1 \in 0..(n + 1)
        BY <3>2, <2>2
      <4>2. g[k] = f[k] /\ g[k - 1] = f[k - 1]  BY <3>2, <4>1
      <4>3. QED  BY <4>1, <4>2, <2>1
    <3>3. QED  BY <3>1, <3>2
  <2> HIDE DEF g
  <2>8. P(g, n + 1)  BY <2>5, <2>6, <2>7
  <2>9. QED  BY <2>2, <2>8
<1> HIDE DEF T
<1>3. 0..N \subseteq T  BY <1>1, <1>2, Upwards
<1>4. N \in T  BY <1>3
<1>5. QED  BY <1>4 DEF T, Iterates

-----------------------------------------------------------------------------
LEMMA BinNat ==
  ASSUME NEW x \in Nat, NEW t \in Nat \ {0}
  PROVE  Bin(x, t) \in Nat
  BY DEF Bin

LEMMA StampType ==
  ASSUME NEW r \in Rows, NEW t \in Nat \ {0}
  PROVE  Stamp(r, t) \in Rows /\ Stamp(r, t).ts = Bin(r.ts, t) /\ Stamp(r, t).own = r.own
         /\ Stamp(r, t).healed /\ Stamp(r, t).src = r.src
<1>1. r.ts \in Nat  BY DEF Rows
<1>2. QED  BY <1>1, BinNat DEF Rows, Stamp

LEMMA AddType ==
  ASSUME NEW s \in Seq(Rows), NEW r \in Rows, NEW t \in Nat \ {0}
  PROVE  Add(s, r, t) \in Seq(Rows)
<1>1. Stamp(r, t) \in Rows  BY StampType
<1>2. CASE s # <<>> /\ Last(s).ts = Bin(r.ts, t)
  <2>1. Front(s) \in Seq(Rows)  BY <1>2 DEF Front
  <2>2. QED  BY <1>1, <1>2, <2>1 DEF Add
<1>3. CASE ~(s # <<>> /\ Last(s).ts = Bin(r.ts, t))
  BY <1>1, <1>3 DEF Add
<1>4. QED  BY <1>2, <1>3

\* The one pass, step by step.
LEMMA DownSteps ==
  ASSUME NEW recs \in Seq(Rows), NEW t \in Nat \ {0}
  PROVE  \E f \in [0..Len(recs) -> Seq(Rows)] :
           /\ f[0] = <<>> /\ Down(recs, t) = f[Len(recs)]
           /\ \A n \in 1..Len(recs) : f[n] = Add(f[n - 1], recs[n], t)
<1> DEFINE S == Seq(Rows)
<1>1. PICK N : N = Len(recs)  OBVIOUS
<1> DEFINE G == [p \in S \X (1..N) |-> Add(p[1], recs[p[2]], t)]
           E(g) == g = [n \in 0..N |-> IF n = 0 THEN <<>> ELSE Add(g[n - 1], recs[n], t)]
           c == CHOOSE g : E(g)
<1>2. N \in Nat /\ <<>> \in S /\ \A k \in 1..N : recs[k] \in Rows  BY <1>1
<1>3. \A x \in S : \A r \in Rows : Add(x, r, t) \in S  BY AddType
<1>4. Down(recs, t) = c[N]  BY <1>1 DEF Down
<1> HIDE DEF S
<1>5. \A x \in S, k \in 1..N : G[<<x, k>>] = Add(x, recs[k], t)  OBVIOUS
<1> HIDE DEF G
<1>6. G \in [S \X (1..N) -> S]  BY <1>2, <1>3 DEF G
<1>7. PICK f \in [0..N -> S] : f[0] = <<>> /\ \A k \in 1..N : f[k] = G[<<f[k - 1], k>>]
  <2> DEFINE a == <<>>
  <2>1. a \in S /\ N \in Nat  BY <1>2
  <2> HIDE DEF a
  <2>2. \E f : Iterates(f, a, G, N, S)  BY <2>1, <1>6, Iterated
  <2>3. QED  BY <2>2 DEF a, Iterates
<1>8. \A k \in 1..N : k - 1 \in 0..N /\ k \in 0..N /\ k # 0  BY <1>2
<1>9. \A k \in 1..N : f[k] = Add(f[k - 1], recs[k], t)  BY <1>5, <1>7, <1>8
<1>10. E(f)
  <2>1. \A n \in 0..N : f[n] = IF n = 0 THEN <<>> ELSE Add(f[n - 1], recs[n], t)
    <3> TAKE n \in 0..N
    <3>1. n # 0 => n \in 1..N  BY <1>2
    <3>2. QED  BY <3>1, <1>7, <1>9
  <2>2. QED  BY <2>1, <1>7
<1>11. E(c)  BY <1>10
<1> HIDE DEF c
<1>12. \A k \in 0..N : c[k] = IF k = 0 THEN <<>> ELSE Add(c[k - 1], recs[k], t)  BY <1>11
<1>13. 0 \in 0..N  BY <1>2
<1>14. c[0] = <<>> /\ \A k \in 1..N : c[k] = Add(c[k - 1], recs[k], t)
  BY <1>8, <1>12, <1>13
<1>15. c \in [0..N -> S]
  <2> DEFINE T == {n \in 0..N : c[n] \in S}
  <2>1. 0 \in T  BY <1>2, <1>13, <1>14
  <2>2. ASSUME NEW n \in 0..(N - 1), n \in T PROVE n + 1 \in T
    <3>1. n + 1 \in 1..N /\ n + 1 \in 0..N /\ (n + 1) - 1 = n  BY <1>2
    <3>2. c[n + 1] = Add(c[n], recs[n + 1], t)  BY <3>1, <1>14
    <3>3. c[n + 1] \in S  BY <2>2, <3>1, <3>2, <1>2, <1>3
    <3>4. QED  BY <3>1, <3>3
  <2> HIDE DEF T
  <2>3. 0..N \subseteq T  BY <1>2, <2>1, <2>2, Upwards
  <2>4. \A n \in 0..N : c[n] \in S  BY <2>3 DEF T
  <2>5. c = [n \in 0..N |-> c[n]]  BY <1>11
  <2>6. QED  BY <2>4, <2>5
<1>16. QED  BY <1>1, <1>4, <1>14, <1>15 DEF S

Keep(out, r) == IF r.own THEN Append(out, r) ELSE out

LEMMA KeepType ==
  ASSUME NEW s \in Seq(Rows), NEW r \in Rows
  PROVE  Keep(s, r) \in Seq(Rows)
  BY DEF Keep

LEMMA OwnSteps ==
  ASSUME NEW recs \in Seq(Rows)
  PROVE  \E f \in [0..Len(recs) -> Seq(Rows)] :
           /\ f[0] = <<>> /\ Own(recs) = f[Len(recs)]
           /\ \A n \in 1..Len(recs) : f[n] = Keep(f[n - 1], recs[n])
<1> DEFINE S == Seq(Rows)
<1>1. PICK N : N = Len(recs)  OBVIOUS
<1> DEFINE G == [p \in S \X (1..N) |-> Keep(p[1], recs[p[2]])]
           E(g) == g = [n \in 0..N |-> IF n = 0 THEN <<>>
                                       ELSE IF recs[n].own THEN Append(g[n - 1], recs[n]) ELSE g[n - 1]]
           c == CHOOSE g : E(g)
<1>2. N \in Nat /\ <<>> \in S /\ \A k \in 1..N : recs[k] \in Rows  BY <1>1
<1>3. \A x \in S : \A r \in Rows : Keep(x, r) \in S  BY KeepType
<1>4. Own(recs) = c[N]  BY <1>1 DEF Own
<1> HIDE DEF S
<1>5. \A x \in S, k \in 1..N : G[<<x, k>>] = Keep(x, recs[k])  OBVIOUS
<1>6. G \in [S \X (1..N) -> S]  BY <1>2, <1>3 DEF G
<1> HIDE DEF G
<1>7. PICK f \in [0..N -> S] : f[0] = <<>> /\ \A k \in 1..N : f[k] = G[<<f[k - 1], k>>]
  <2> DEFINE a == <<>>
  <2>1. a \in S /\ N \in Nat  BY <1>2
  <2> HIDE DEF a
  <2>2. \E f : Iterates(f, a, G, N, S)  BY <2>1, <1>6, Iterated
  <2>3. QED  BY <2>2 DEF a, Iterates
<1>8. \A k \in 1..N : k - 1 \in 0..N /\ k \in 0..N /\ k # 0  BY <1>2
<1>9. \A k \in 1..N : f[k] = Keep(f[k - 1], recs[k])  BY <1>5, <1>7, <1>8
<1>10. E(f)
  <2>1. \A n \in 0..N : f[n] = IF n = 0 THEN <<>>
                               ELSE IF recs[n].own THEN Append(f[n - 1], recs[n]) ELSE f[n - 1]
    <3> TAKE n \in 0..N
    <3>1. n # 0 => n \in 1..N  BY <1>2
    <3>2. QED  BY <3>1, <1>7, <1>9 DEF Keep
  <2>2. QED  BY <2>1, <1>7
<1>11. E(c)  BY <1>10
<1> HIDE DEF c
<1>12. \A k \in 0..N : c[k] = IF k = 0 THEN <<>>
                              ELSE IF recs[k].own THEN Append(c[k - 1], recs[k]) ELSE c[k - 1]
  BY <1>11
<1>13. 0 \in 0..N  BY <1>2
<1>14. c[0] = <<>> /\ \A k \in 1..N : c[k] = Keep(c[k - 1], recs[k])
  BY <1>8, <1>12, <1>13 DEF Keep
<1>15. c \in [0..N -> S]
  <2> DEFINE T == {n \in 0..N : c[n] \in S}
  <2>1. 0 \in T  BY <1>2, <1>13, <1>14
  <2>2. ASSUME NEW n \in 0..(N - 1), n \in T PROVE n + 1 \in T
    <3>1. n + 1 \in 1..N /\ n + 1 \in 0..N /\ (n + 1) - 1 = n  BY <1>2
    <3>2. c[n + 1] = Keep(c[n], recs[n + 1])  BY <3>1, <1>14
    <3>3. c[n + 1] \in S  BY <2>2, <3>1, <3>2, <1>2, <1>3
    <3>4. QED  BY <3>1, <3>3
  <2> HIDE DEF T
  <2>3. 0..N \subseteq T  BY <1>2, <2>1, <2>2, Upwards
  <2>4. \A n \in 0..N : c[n] \in S  BY <2>3 DEF T
  <2>5. c = [n \in 0..N |-> c[n]]  BY <1>11
  <2>6. QED  BY <2>4, <2>5
<1>16. QED  BY <1>1, <1>4, <1>14, <1>15 DEF S

\* The records of the ticker are all its own, and where all are, it is all.
LEMMA OwnOwn ==
  ASSUME NEW recs \in Seq(Rows)
  PROVE  /\ Own(recs) \in Seq(Rows)
         /\ \A k \in 1..Len(Own(recs)) : Own(recs)[k].own
         /\ (\A k \in 1..Len(recs) : recs[k].own) => Own(recs) = recs
<1>1. PICK f \in [0..Len(recs) -> Seq(Rows)] :
        /\ f[0] = <<>> /\ Own(recs) = f[Len(recs)]
        /\ \A n \in 1..Len(recs) : f[n] = Keep(f[n - 1], recs[n])
  BY OwnSteps
<1>2. PICK N : N = Len(recs)  OBVIOUS
<1>3. N \in Nat /\ 0 \in 0..N /\ N \in 0..N /\ \A k \in 1..N : recs[k] \in Rows  BY <1>2
<1> DEFINE All == \A k \in 1..N : recs[k].own
           T == {n \in 0..N : /\ \A k \in 1..Len(f[n]) : f[n][k].own
                              /\ All => Len(f[n]) = n /\ \A k \in 1..n : f[n][k] = recs[k]}
<1>4. 0 \in T  BY <1>1, <1>3
<1>5. ASSUME NEW n \in 0..(N - 1), n \in T PROVE n + 1 \in T
  <2>1. n + 1 \in 1..N /\ n + 1 \in 0..N /\ (n + 1) - 1 = n /\ n \in Nat /\ n \in 0..N  BY <1>3
  <2> DEFINE s == f[n]
             r == recs[n + 1]
  <2>2. f[n + 1] = Keep(s, r) /\ s \in Seq(Rows) /\ r \in Rows /\ Len(s) \in Nat
    <3>1. n + 1 \in 1..Len(recs) /\ n \in 0..Len(recs)  BY <2>1, <1>2
    <3>2. f[n + 1] = Keep(f[(n + 1) - 1], recs[n + 1])  BY <3>1, <1>1
    <3>3. s \in Seq(Rows)  BY <3>1, <1>1
    <3>4. QED  BY <2>1, <3>2, <3>3, <1>3
  <2>3. /\ \A k \in 1..Len(s) : s[k].own
        /\ All => Len(s) = n /\ \A k \in 1..n : s[k] = recs[k]
    BY <1>5
  <2>4. All => r.own  BY <2>1
  <2> HIDE DEF s, All
  <2>5. CASE r.own
    <3>1. f[n + 1] = Append(s, r)  BY <2>2, <2>5 DEF Keep
    <3>2. /\ Len(f[n + 1]) = Len(s) + 1 /\ f[n + 1][Len(s) + 1] = r
          /\ \A k \in 1..Len(s) : f[n + 1][k] = s[k]
      BY <2>2, <3>1
    <3>3. \A k \in 1..(Len(s) + 1) : k \in 1..Len(s) \/ k = Len(s) + 1  BY <2>2
    <3>4. \A k \in 1..Len(f[n + 1]) : f[n + 1][k].own  BY <2>3, <2>5, <3>2, <3>3
    <3>5. All => Len(f[n + 1]) = n + 1 /\ \A k \in 1..(n + 1) : f[n + 1][k] = recs[k]
      BY <2>3, <3>2, <3>3
    <3>6. QED  BY <2>1, <3>4, <3>5
  <2>6. CASE ~r.own
    <3>1. f[n + 1] = s  BY <2>2, <2>6 DEF Keep
    <3>2. QED  BY <2>1, <2>3, <2>4, <2>6, <3>1
  <2>7. QED  BY <2>5, <2>6
<1> HIDE DEF T
<1>6. 0..N \subseteq T  BY <1>3, <1>4, <1>5, Upwards
<1>7. N \in T  BY <1>3, <1>6
<1>8. /\ \A k \in 1..Len(f[N]) : f[N][k].own
      /\ All => Len(f[N]) = N /\ \A k \in 1..N : f[N][k] = recs[k]
  BY <1>7 DEF T
<1>9. Own(recs) = f[N] /\ f[N] \in Seq(Rows)  BY <1>1, <1>2, <1>3
<1>10. All => f[N] = recs  BY <1>2, <1>8, <1>9
<1>11. QED  BY <1>2, <1>8, <1>9, <1>10

-----------------------------------------------------------------------------
\* Neighbours in order are records in order.
LEMMA Pairwise ==
  ASSUME NEW s \in Seq(Rows), Ascending(s)
  PROVE  \A i, j \in 1..Len(s) : i < j => s[i].ts < s[j].ts
<1>1. PICK N : N = Len(s)  OBVIOUS
<1>2. N \in Nat /\ \A k \in 1..N : s[k].ts \in Nat
  <2>1. \A k \in 1..N : s[k] \in Rows  BY <1>1
  <2>2. QED  BY <1>1, <2>1 DEF Rows
<1>3. \A k \in 1..(N - 1) : s[k].ts < s[k + 1].ts  BY <1>1 DEF Ascending
<1> DEFINE T == {n \in 0..N : \A i \in 1..N : i < n => s[i].ts < s[n].ts}
<1>4. 0 \in T  BY <1>2
<1>5. ASSUME NEW n \in 0..(N - 1), n \in T PROVE n + 1 \in T
  <2>1. n \in Nat /\ n + 1 \in 0..N /\ n + 1 \in 1..N  BY <1>2
  <2>2. ASSUME NEW i \in 1..N, i < n + 1 PROVE s[i].ts < s[n + 1].ts
    <3>1. n \in 1..(N - 1) /\ n \in 1..N
      <4>1. i >= 1 /\ i \in Nat /\ n >= 1  BY <2>1, <2>2
      <4>2. QED  BY <4>1, <2>1, <1>2
    <3>2. s[n].ts < s[n + 1].ts /\ s[i].ts \in Nat /\ s[n].ts \in Nat /\ s[n + 1].ts \in Nat
      BY <3>1, <2>1, <1>2, <1>3
    <3>3. i < n \/ i = n  BY <2>2, <2>1
    <3>4. i < n => s[i].ts < s[n].ts  BY <1>5
    <3>5. QED  BY <3>2, <3>3, <3>4
  <2>3. QED  BY <2>1, <2>2
<1> HIDE DEF T
<1>6. 0..N \subseteq T  BY <1>2, <1>4, <1>5, Upwards
<1>7. QED  BY <1>1, <1>2, <1>6 DEF T

\* The bins of the records before n + 1 do not go back.
Mono(recs, t, n) ==
  \A i, j \in 1..n : i < j => Bin(recs[i].ts, t) <= Bin(recs[j].ts, t)
Lasts(recs, t, n) ==
  {i \in 1..n : \A j \in 1..n : j > i => Bin(recs[j].ts, t) # Bin(recs[i].ts, t)}

\* What the pass has made of the first n records.
Passed(s, recs, t, n) ==
  /\ n = 0 => s = <<>>
  /\ n > 0 => s # <<>> /\ s[Len(s)].ts = Bin(recs[n].ts, t)
  /\ Ascending(s) =>
       /\ Range(s) = {Stamp(recs[i], t) : i \in Lasts(recs, t, n)}
       /\ Mono(recs, t, n)

LEMMA RangeIs ==
  ASSUME NEW s \in Seq(Rows)
  PROVE  Range(s) = {s[k] : k \in 1..Len(s)}
  BY DEF Range

\* A record of a bin of its own.
LEMMA PassedNew ==
  ASSUME NEW recs \in Seq(Rows), NEW t \in Nat \ {0}, NEW n \in 0..(Len(recs) - 1),
         NEW s \in Seq(Rows), Passed(s, recs, t, n),
         ~(s # <<>> /\ Last(s).ts = Bin(recs[n + 1].ts, t))
  PROVE  Passed(Add(s, recs[n + 1], t), recs, t, n + 1)
<1> DEFINE q == Stamp(recs[n + 1], t)
           u == Append(s, q)
           B(i) == Bin(recs[i].ts, t)
<1>1. Len(recs) \in Nat /\ n \in Nat /\ n + 1 \in 1..Len(recs)
  OBVIOUS
<1>2. \A i \in 1..(n + 1) : recs[i] \in Rows /\ recs[i].ts \in Nat /\ B(i) \in Nat
  <2> TAKE i \in 1..(n + 1)
  <2>1. i \in 1..Len(recs)  BY <1>1
  <2>2. recs[i] \in Rows  BY <2>1
  <2>3. recs[i].ts \in Nat  BY <2>2 DEF Rows
  <2>4. QED  BY <2>2, <2>3, BinNat
<1>3. q \in Rows /\ q.ts = B(n + 1)
  <2>1. recs[n + 1] \in Rows  BY <1>1
  <2>2. QED  BY <2>1, StampType
<1>4. Add(s, recs[n + 1], t) = u  BY DEF Add
<1> HIDE DEF q
<1>5. /\ u \in Seq(Rows) /\ Len(s) \in Nat /\ Len(u) = Len(s) + 1
      /\ \A k \in 1..Len(s) : u[k] = s[k]
      /\ u[Len(s) + 1] = q
  BY <1>3
<1>6. u # <<>> /\ u[Len(u)].ts = B(n + 1)  BY <1>3, <1>5
<1>7. 1..Len(u) = 1..Len(s) \cup {Len(s) + 1}  BY <1>5
<1>8. 1..(n + 1) = 1..n \cup {n + 1} /\ \A i \in 1..n : i < n + 1  BY <1>1
<1> HIDE DEF u, B
<1>9. ASSUME Ascending(u)
      PROVE  /\ Range(u) = {Stamp(recs[i], t) : i \in Lasts(recs, t, n + 1)}
             /\ Mono(recs, t, n + 1)
  <2>1. Ascending(s)
    <3> SUFFICES ASSUME NEW k \in 1..(Len(s) - 1) PROVE s[k].ts < s[k + 1].ts
      BY DEF Ascending
    <3>1. k \in 1..(Len(u) - 1) /\ k \in 1..Len(s) /\ k + 1 \in 1..Len(s)  BY <1>5
    <3>2. QED  BY <3>1, <1>5, <1>9 DEF Ascending
  <2>2. /\ Range(s) = {Stamp(recs[i], t) : i \in Lasts(recs, t, n)}
        /\ Mono(recs, t, n)
    BY <2>1 DEF Passed
  <2>3. \A i \in 1..n : B(i) < B(n + 1)
    <3> TAKE i \in 1..n
    <3>1. n > 0 /\ n \in 1..n  BY <1>1
    <3>2. s # <<>> /\ s[Len(s)].ts = B(n)  BY <3>1 DEF Passed, B
    <3>3. Len(s) \in 1..Len(s) /\ Len(s) \in 1..(Len(u) - 1)  BY <3>2, <1>5
    <3>4. u[Len(s)].ts < u[Len(s) + 1].ts  BY <3>3, <1>9 DEF Ascending
    <3>5. B(n) < B(n + 1)  BY <3>2, <3>3, <3>4, <1>3, <1>5
    <3>6. i < n => B(i) <= B(n)  BY <3>1, <2>2 DEF Mono, B
    <3>7. B(i) \in Nat /\ B(n) \in Nat /\ B(n + 1) \in Nat  BY <1>2, <1>8, <3>1
    <3>8. QED  BY <3>5, <3>6, <3>7
  <2>4. Mono(recs, t, n + 1)
    <3> SUFFICES ASSUME NEW i \in 1..(n + 1), NEW j \in 1..(n + 1), i < j
                 PROVE  B(i) <= B(j)
      BY DEF Mono, B
    <3>1. i \in 1..n  BY <1>1
    <3>2. CASE j \in 1..n  BY <3>1, <3>2, <2>2 DEF Mono, B
    <3>3. CASE j = n + 1
      <4>1. B(i) < B(n + 1) /\ B(i) \in Nat /\ B(n + 1) \in Nat  BY <3>1, <2>3, <1>2, <1>8
      <4>2. QED  BY <4>1, <3>3
    <3>4. QED  BY <3>2, <3>3, <1>8
  <2>5. Lasts(recs, t, n + 1) = Lasts(recs, t, n) \cup {n + 1}
    <3>1. ASSUME NEW i \in 1..n PROVE i \in Lasts(recs, t, n + 1) <=> i \in Lasts(recs, t, n)
      <4>1. B(i) # B(n + 1)
        <5>1. B(i) < B(n + 1) /\ B(i) \in Nat /\ B(n + 1) \in Nat  BY <2>3, <1>2, <1>8
        <5>2. QED  BY <5>1
      <4>2. QED  BY <4>1, <1>8 DEF Lasts, B
    <3>2. n + 1 \in Lasts(recs, t, n + 1)
      <4>1. \A j \in 1..(n + 1) : ~(j > n + 1)  BY <1>1
      <4>2. QED  BY <4>1, <1>8 DEF Lasts
    <3>3. \A i \in Lasts(recs, t, n + 1) : i \in 1..n \/ i = n + 1  BY <1>8 DEF Lasts
    <3>4. \A i \in Lasts(recs, t, n) : i \in 1..n  BY DEF Lasts
    <3>5. QED  BY <3>1, <3>2, <3>3, <3>4
  <2>6. Range(u) = Range(s) \cup {q}
    <3>1. Range(u) = {u[k] : k \in 1..Len(u)} /\ Range(s) = {s[k] : k \in 1..Len(s)}
      BY <1>5, RangeIs
    <3>2. QED  BY <3>1, <1>5, <1>7
  <2>7. QED  BY <2>2, <2>4, <2>5, <2>6 DEF q
<1>10. QED  BY <1>1, <1>4, <1>6, <1>9 DEF Passed, B

LEMMA FrontIs ==
  ASSUME NEW s \in Seq(Rows), NEW n \in 0..Len(s)
  PROVE  /\ SubSeq(s, 1, n) \in Seq(Rows) /\ Len(SubSeq(s, 1, n)) = n
         /\ \A k \in 1..n : SubSeq(s, 1, n)[k] = s[k]
<1>1. Len(s) \in Nat /\ n \in Nat /\ n <= Len(s)  OBVIOUS
<1>2. QED  BY <1>1

\* A record of the open bin.
LEMMA PassedSame ==
  ASSUME NEW recs \in Seq(Rows), NEW t \in Nat \ {0}, NEW n \in 0..(Len(recs) - 1),
         NEW s \in Seq(Rows), Passed(s, recs, t, n),
         s # <<>>, Last(s).ts = Bin(recs[n + 1].ts, t)
  PROVE  Passed(Add(s, recs[n + 1], t), recs, t, n + 1)
<1> DEFINE q == Stamp(recs[n + 1], t)
           u == Append(Front(s), q)
           L == Len(s)
           B(i) == Bin(recs[i].ts, t)
<1>1. Len(recs) \in Nat /\ n \in Nat /\ n + 1 \in 1..Len(recs) /\ n > 0
  BY DEF Passed
<1>2. \A i \in 1..(n + 1) : recs[i] \in Rows /\ recs[i].ts \in Nat /\ B(i) \in Nat
  <2> TAKE i \in 1..(n + 1)
  <2>1. i \in 1..Len(recs)  BY <1>1
  <2>2. recs[i] \in Rows  BY <2>1
  <2>3. recs[i].ts \in Nat  BY <2>2 DEF Rows
  <2>4. QED  BY <2>2, <2>3, BinNat
<1>3. q \in Rows /\ q.ts = B(n + 1)
  <2>1. recs[n + 1] \in Rows  BY <1>1
  <2>2. QED  BY <2>1, StampType
<1>4. Add(s, recs[n + 1], t) = u  BY DEF Add
<1>5. L \in Nat /\ L # 0 /\ s[L].ts = B(n + 1) /\ s[L].ts = B(n)
  BY <1>1 DEF Last, Passed
<1> HIDE DEF q
<1>6. /\ u \in Seq(Rows) /\ Len(u) = L
      /\ \A k \in 1..(L - 1) : u[k] = s[k]
      /\ u[L] = q
  <2> DEFINE w == SubSeq(s, 1, L - 1)
  <2>1. L - 1 \in Nat  BY <1>5
  <2>2. w \in Seq(Rows) /\ Len(w) = L - 1 /\ \A k \in 1..(L - 1) : w[k] = s[k]
    <3>1. L - 1 \in 0..Len(s)  BY <1>5
    <3>2. QED  BY <3>1, FrontIs
  <2>3. u = Append(w, q)  BY DEF Front
  <2> HIDE DEF w, u, L
  <2>4. (L - 1) + 1 = L  BY <1>5
  <2>5. QED  BY <2>1, <2>2, <2>3, <2>4, <1>3
<1>7. u # <<>> /\ u[Len(u)].ts = B(n + 1)  BY <1>3, <1>5, <1>6
<1>8. /\ 1..L = 1..(L - 1) \cup {L} /\ 1..(n + 1) = 1..n \cup {n + 1}
      /\ n \in 1..n /\ \A i \in 1..n : i < n + 1 /\ (i < n \/ i = n)
  BY <1>1, <1>5
<1> HIDE DEF u, B, L
<1>9. \A k \in 1..L : u[k].ts = s[k].ts  BY <1>3, <1>5, <1>6, <1>8
<1>10. B(n) = B(n + 1)  BY <1>5
<1>11. ASSUME Ascending(u)
       PROVE  /\ Range(u) = {Stamp(recs[i], t) : i \in Lasts(recs, t, n + 1)}
              /\ Mono(recs, t, n + 1)
  <2>1. Ascending(s)
    <3> SUFFICES ASSUME NEW k \in 1..(L - 1) PROVE s[k].ts < s[k + 1].ts
      BY DEF Ascending, L
    <3>1. k \in 1..L /\ k + 1 \in 1..L  BY <1>5
    <3>2. QED  BY <3>1, <1>6, <1>9, <1>11 DEF Ascending
  <2>2. /\ Range(s) = {Stamp(recs[i], t) : i \in Lasts(recs, t, n)}
        /\ Mono(recs, t, n)
    BY <2>1 DEF Passed
  <2>3. \A i \in 1..n : B(i) <= B(n + 1)
    <3> TAKE i \in 1..n
    <3>1. i < n => B(i) <= B(n)  BY <1>8, <2>2 DEF Mono, B
    <3>2. B(i) \in Nat /\ B(n + 1) \in Nat  BY <1>2, <1>8
    <3>3. QED  BY <3>1, <3>2, <1>8, <1>10
  <2>4. Mono(recs, t, n + 1)
    <3> SUFFICES ASSUME NEW i \in 1..(n + 1), NEW j \in 1..(n + 1), i < j
                 PROVE  B(i) <= B(j)
      BY DEF Mono, B
    <3>1. i \in 1..n  BY <1>1
    <3>2. CASE j \in 1..n  BY <3>1, <3>2, <2>2 DEF Mono, B
    <3>3. CASE j = n + 1  BY <3>1, <3>3, <2>3
    <3>4. QED  BY <3>2, <3>3, <1>8
  <2>5. /\ \A i \in 1..n : i \in Lasts(recs, t, n + 1) <=> i \in Lasts(recs, t, n) /\ B(i) # B(n + 1)
        /\ n + 1 \in Lasts(recs, t, n + 1)
        /\ Lasts(recs, t, n + 1) \subseteq 1..(n + 1) /\ Lasts(recs, t, n) \subseteq 1..n
    <3>1. \A j \in 1..(n + 1) : ~(j > n + 1)  BY <1>1
    <3>2. n + 1 \in Lasts(recs, t, n + 1)  BY <3>1, <1>8 DEF Lasts
    <3>3. ASSUME NEW i \in 1..n
          PROVE  i \in Lasts(recs, t, n + 1) <=> i \in Lasts(recs, t, n) /\ B(i) # B(n + 1)
      BY <1>8 DEF Lasts, B
    <3>4. QED  BY <3>2, <3>3 DEF Lasts
  <2>6. \A k \in 1..(L - 1) : s[k].ts < s[L].ts
    <3>1. \A i, j \in 1..L : i < j => s[i].ts < s[j].ts  BY <2>1, Pairwise DEF L
    <3>2. \A k \in 1..(L - 1) : k \in 1..L /\ L \in 1..L /\ k < L  BY <1>5
    <3>3. QED  BY <3>1, <3>2
  <2>7. \A k \in 1..(L - 1) : s[k].ts # B(n + 1)
    <3> TAKE k \in 1..(L - 1)
    <3>1. s[k] \in Rows  BY <1>8 DEF L
    <3>2. s[k].ts \in Nat /\ B(n + 1) \in Nat  BY <3>1, <1>2, <1>8 DEF Rows
    <3>3. s[k].ts < B(n + 1)  BY <2>6, <1>5
    <3>4. QED  BY <3>2, <3>3
  <2>8. Range(u) = {x \in Range(s) : x.ts # B(n + 1)} \cup {q}
    <3>1. Range(u) = {u[k] : k \in 1..L} /\ Range(s) = {s[k] : k \in 1..L}
      BY <1>6, RangeIs DEF L
    <3>2. \A x \in Range(u) : x = q \/ (x \in Range(s) /\ x.ts # B(n + 1))
      BY <3>1, <1>6, <1>8, <2>7
    <3>3. q \in Range(u)  BY <3>1, <1>6, <1>8
    <3>4. \A x \in Range(s) : x.ts # B(n + 1) => x \in Range(u)
      BY <3>1, <1>5, <1>6, <1>8
    <3>5. QED  BY <3>2, <3>3, <3>4
  <2>9. \A i \in 1..n : Stamp(recs[i], t).ts = B(i)  BY <1>2, <1>8, StampType DEF B
  <2>10. Range(u) = {Stamp(recs[i], t) : i \in Lasts(recs, t, n + 1)}
    <3>1. \A x \in Range(u) : \E i \in Lasts(recs, t, n + 1) : x = Stamp(recs[i], t)
      <4> TAKE x \in Range(u)
      <4>1. CASE x = q  BY <4>1, <2>5 DEF q
      <4>2. CASE x \in Range(s) /\ x.ts # B(n + 1)
        <5>1. PICK i \in Lasts(recs, t, n) : x = Stamp(recs[i], t)  BY <4>2, <2>2
        <5>2. i \in 1..n /\ B(i) # B(n + 1)  BY <5>1, <4>2, <2>5, <2>9
        <5>3. QED  BY <5>1, <5>2, <2>5
      <4>3. QED  BY <4>1, <4>2, <2>8
    <3>2. \A i \in Lasts(recs, t, n + 1) : Stamp(recs[i], t) \in Range(u)
      <4> TAKE i \in Lasts(recs, t, n + 1)
      <4>1. CASE i = n + 1  BY <4>1, <2>8 DEF q
      <4>2. CASE i \in 1..n
        <5>1. i \in Lasts(recs, t, n) /\ B(i) # B(n + 1)  BY <4>2, <2>5
        <5>2. Stamp(recs[i], t) \in Range(s) /\ Stamp(recs[i], t).ts # B(n + 1)
          BY <5>1, <4>2, <2>2, <2>9
        <5>3. QED  BY <5>2, <2>8
      <4>3. QED  BY <4>1, <4>2, <2>5, <1>8
    <3>3. QED  BY <3>1, <3>2
  <2>11. QED  BY <2>4, <2>10
<1>12. QED  BY <1>1, <1>4, <1>7, <1>11 DEF Passed, B

\* What the whole pass makes, where its bins come out in order.
LEMMA DownIsLast ==
  ASSUME NEW recs \in Seq(Rows), NEW t \in Nat \ {0}
  PROVE  /\ Down(recs, t) \in Seq(Rows)
         /\ Ascending(Down(recs, t)) =>
              AreLastOfBins(Down(recs, t), recs, t) /\ Mono(recs, t, Len(recs))
<1>1. PICK f \in [0..Len(recs) -> Seq(Rows)] :
        /\ f[0] = <<>> /\ Down(recs, t) = f[Len(recs)]
        /\ \A n \in 1..Len(recs) : f[n] = Add(f[n - 1], recs[n], t)
  BY DownSteps
<1>2. PICK N : N = Len(recs)  OBVIOUS
<1>3. N \in Nat /\ 0 \in 0..N /\ N \in 0..N  BY <1>2
<1> DEFINE T == {n \in 0..N : Passed(f[n], recs, t, n)}
<1>4. 0 \in T
  <2>1. Range(<<>>) = {}  BY DEF Range
  <2>2. Lasts(recs, t, 0) = {}  BY DEF Lasts
  <2>3. Passed(<<>>, recs, t, 0)  BY <2>1, <2>2 DEF Passed, Mono
  <2>4. QED  BY <2>3, <1>1, <1>3
<1>5. ASSUME NEW n \in 0..(N - 1), n \in T PROVE n + 1 \in T
  <2>1. n + 1 \in 1..Len(recs) /\ n \in 0..Len(recs) /\ n \in 0..(Len(recs) - 1) /\ (n + 1) - 1 = n
        /\ n + 1 \in 0..N
    BY <1>2, <1>3
  <2>2. f[n + 1] = Add(f[(n + 1) - 1], recs[n + 1], t) /\ f[n] \in Seq(Rows)  BY <2>1, <1>1
  <2>3. Passed(f[n], recs, t, n)  BY <1>5
  <2>4. Passed(Add(f[n], recs[n + 1], t), recs, t, n + 1)
    BY <2>1, <2>2, <2>3, PassedNew, PassedSame
  <2>5. QED  BY <2>1, <2>2, <2>4
<1> HIDE DEF T
<1>6. 0..N \subseteq T  BY <1>3, <1>4, <1>5, Upwards
<1>7. Passed(f[N], recs, t, N)  BY <1>3, <1>6 DEF T
<1>8. Down(recs, t) \in Seq(Rows) /\ Passed(Down(recs, t), recs, t, Len(recs))
  BY <1>1, <1>2, <1>3, <1>7
<1>9. Lasts(recs, t, Len(recs)) = LastIn(recs, t)  BY DEF Lasts, LastIn
<1>10. QED  BY <1>8, <1>9 DEF Passed, AreLastOfBins

-----------------------------------------------------------------------------
(* Cadences of which one is a multiple of the other.                       *)

LEMMA BinIs ==
  ASSUME NEW x \in Nat, NEW t \in Nat \ {0}
  PROVE  \E q \in Nat : q = x \div t /\ Bin(x, t) = t * q /\ t * q <= x /\ x < t * q + t
<1> DEFINE q == x \div t
<1>1. q \in Nat /\ t * q <= x /\ x < t * q + t  OBVIOUS
<1>2. Bin(x, t) = q * t  BY DEF Bin
<1> HIDE DEF q
<1>3. q * t = t * q  BY <1>1
<1>4. QED  BY <1>1, <1>2, <1>3 DEF q

LEMMA ProductMonotone ==
  ASSUME NEW c \in Nat, NEW a \in Int, NEW b \in Int, a <= b
  PROVE  c * a <= c * b
  OBVIOUS

\* The bin of a time is the one multiple of the cadence within the cadence of it.
LEMMA BinUnique ==
  ASSUME NEW x \in Nat, NEW t \in Nat \ {0}, NEW k \in Nat, t * k <= x, x < t * k + t
  PROVE  Bin(x, t) = t * k
<1>1. PICK q \in Nat : Bin(x, t) = t * q /\ t * q <= x /\ x < t * q + t  BY BinIs
<1>2. t * q \in Nat /\ t * k \in Nat  BY <1>1
<1>3. ASSUME q + 1 <= k PROVE FALSE
  <2>1. t * (q + 1) <= t * k  BY <1>1, <1>3, ProductMonotone
  <2>2. t * (q + 1) = t * q + t  BY <1>1
  <2>3. QED  BY <1>1, <1>2, <2>1, <2>2
<1>4. ASSUME k + 1 <= q PROVE FALSE
  <2>1. t * (k + 1) <= t * q  BY <1>1, <1>4, ProductMonotone
  <2>2. t * (k + 1) = t * k + t  OBVIOUS
  <2>3. QED  BY <1>1, <1>2, <2>1, <2>2
<1>5. q = k  BY <1>1, <1>3, <1>4
<1>6. QED  BY <1>1, <1>5

LEMMA BinMonotone ==
  ASSUME NEW x \in Nat, NEW y \in Nat, NEW t \in Nat \ {0}, x <= y
  PROVE  Bin(x, t) <= Bin(y, t)
<1>1. PICK q \in Nat : Bin(x, t) = t * q /\ t * q <= x /\ x < t * q + t  BY BinIs
<1>2. PICK k \in Nat : Bin(y, t) = t * k /\ t * k <= y /\ y < t * k + t  BY BinIs
<1>3. t * q \in Nat /\ t * k \in Nat  BY <1>1, <1>2
<1>4. ASSUME k + 1 <= q PROVE FALSE
  <2>1. t * (k + 1) <= t * q  BY <1>1, <1>2, <1>4, ProductMonotone
  <2>2. t * (k + 1) = t * k + t  BY <1>2
  <2>3. QED  BY <1>1, <1>2, <1>3, <2>1, <2>2
<1>5. q <= k  BY <1>1, <1>2, <1>4
<1>6. t * q <= t * k  BY <1>1, <1>2, <1>5, ProductMonotone
<1>7. QED  BY <1>1, <1>2, <1>6

LEMMA MultipleIs ==
  ASSUME NEW t \in Nat \ {0}, NEW l \in Nat \ {0}, t % l = 0
  PROVE  \E m \in Nat : t = l * m
<1> DEFINE m == t \div l
<1>1. m \in Nat /\ t = l * m + (t % l)  OBVIOUS
<1>2. QED  BY <1>1

\* The coarser bin of a finer one is the coarser bin.
LEMMA BinOfBin ==
  ASSUME NEW x \in Nat, NEW l \in Nat \ {0}, NEW t \in Nat \ {0}, t % l = 0
  PROVE  Bin(Bin(x, l), t) = Bin(x, t)
<1>1. PICK m \in Nat : t = l * m  BY MultipleIs
<1>2. PICK q \in Nat : Bin(x, t) = t * q /\ t * q <= x /\ x < t * q + t  BY BinIs
<1>3. PICK p \in Nat : Bin(x, l) = l * p /\ l * p <= x /\ x < l * p + l  BY BinIs
<1>4. t * q = l * (m * q) /\ m * q \in Nat  BY <1>1, <1>2
<1>5. t * q \in Nat /\ l * p \in Nat  BY <1>2, <1>3
<1> DEFINE z == m * q
<1>6. z \in Nat /\ t * q = l * z  BY <1>4
<1> HIDE DEF z
<1>7. ASSUME p + 1 <= z PROVE FALSE
  <2>1. l * (p + 1) <= l * z  BY <1>3, <1>6, <1>7, ProductMonotone
  <2>2. l * (p + 1) = l * p + l  BY <1>3
  <2>3. QED  BY <1>2, <1>3, <1>5, <1>6, <2>1, <2>2
<1>8. l * z <= l * p
  <2>1. z <= p  BY <1>3, <1>6, <1>7
  <2>2. QED  BY <2>1, <1>3, <1>6, ProductMonotone
<1>9. t * q <= l * p /\ l * p < t * q + t  BY <1>2, <1>3, <1>5, <1>6, <1>8
<1>10. Bin(l * p, t) = t * q  BY <1>2, <1>5, <1>9, BinUnique
<1>11. QED  BY <1>2, <1>3, <1>10

\* A coarser bin lies on the finer grid.
LEMMA BinOnGrid ==
  ASSUME NEW x \in Nat, NEW l \in Nat \ {0}, NEW t \in Nat \ {0}, l % t = 0
  PROVE  Bin(Bin(x, l), t) = Bin(x, l)
<1>1. PICK m \in Nat : l = t * m  BY MultipleIs
<1>2. PICK p \in Nat : Bin(x, l) = l * p /\ l * p <= x /\ x < l * p + l  BY BinIs
<1>3. l * p = t * (m * p) /\ m * p \in Nat  BY <1>1, <1>2
<1> DEFINE z == m * p
<1>4. z \in Nat /\ l * p = t * z  BY <1>3
<1> HIDE DEF z
<1>5. t * z \in Nat /\ t * z <= t * z /\ t * z < t * z + t  BY <1>4
<1>6. Bin(t * z, t) = t * z  BY <1>4, <1>5, BinUnique
<1>7. QED  BY <1>2, <1>4, <1>6

-----------------------------------------------------------------------------
(* Down-sampling what is already the last records of the bins.             *)

LEMMA InRows ==
  ASSUME NEW s \in Seq(Rows), NEW i \in 1..Len(s)
  PROVE  s[i] \in Rows /\ s[i].ts \in Nat
<1>1. s[i] \in Rows  OBVIOUS
<1>2. QED  BY <1>1 DEF Rows

\* Every bin that has a record has a last one.
LEMMA HasLast ==
  ASSUME NEW s \in Seq(Rows), NEW t, NEW j \in 1..Len(s)
  PROVE  \E i \in LastIn(s, t) : Bin(s[i].ts, t) = Bin(s[j].ts, t)
<1>1. PICK N : N = Len(s)  OBVIOUS
<1> DEFINE B(k) == Bin(s[k].ts, t)
           P(k) == \E i \in LastIn(s, t) : B(i) = B(k)
           T == {n \in 0..N : \A k \in 1..N : N - k <= n => P(k)}
<1>2. N \in Nat  BY <1>1
<1> HIDE DEF B
<1>3. 0 \in T
  <2>1. ASSUME NEW k \in 1..N, N - k <= 0 PROVE P(k)
    <3>1. \A m \in 1..N : ~(m > k)  BY <1>2, <2>1
    <3>2. k \in LastIn(s, t)  BY <3>1, <1>1 DEF LastIn
    <3>3. QED  BY <3>2
  <2>2. 0 \in 0..N  BY <1>2
  <2> HIDE DEF P
  <2>3. QED  BY <2>1, <2>2
<1>4. ASSUME NEW n \in 0..(N - 1), n \in T PROVE n + 1 \in T
  <2>1. ASSUME NEW k \in 1..N, N - k <= n + 1 PROVE P(k)
    <3>1. CASE k \in LastIn(s, t)  BY <3>1
    <3>2. CASE k \notin LastIn(s, t)
      <4>1. PICK m \in 1..N : m > k /\ B(m) = B(k)  BY <3>2, <1>1 DEF LastIn, B
      <4>2. N - m <= n  BY <4>1, <2>1, <1>2
      <4>3. P(m)  BY <4>2, <1>4
      <4>4. QED  BY <4>1, <4>3
    <3>3. QED  BY <3>1, <3>2
  <2>2. n + 1 \in 0..N  BY <1>2
  <2> HIDE DEF P
  <2>3. QED  BY <2>1, <2>2
<1> HIDE DEF T
<1>5. 0..N \subseteq T  BY <1>2, <1>3, <1>4, Upwards
<1>6. N \in T  BY <1>2, <1>5
<1>7. N - j <= N /\ j \in 1..N  BY <1>1, <1>2
<1>8. QED  BY <1>6, <1>7 DEF T, B

LEMMA RangeHas ==
  ASSUME NEW x \in Seq(Rows), NEW s \in Seq(Rows), NEW l \in Nat \ {0}, AreLastOfBins(x, s, l)
  PROVE  /\ \A k \in 1..Len(x) : \E i \in LastIn(s, l) : x[k] = Stamp(s[i], l)
         /\ \A i \in LastIn(s, l) : \E k \in 1..Len(x) : x[k] = Stamp(s[i], l)
         /\ LastIn(s, l) \subseteq 1..Len(s)
<1>1. Range(x) = {x[k] : k \in 1..Len(x)}  BY RangeIs
<1>2. {x[k] : k \in 1..Len(x)} = {Stamp(s[i], l) : i \in LastIn(s, l)}  BY <1>1 DEF AreLastOfBins
<1>3. QED  BY <1>2 DEF LastIn

LEMMA StampOfStamp ==
  ASSUME NEW r \in Rows, NEW l \in Nat \ {0}, NEW t \in Nat \ {0}
  PROVE  /\ t % l = 0 => Stamp(Stamp(r, l), t) = Stamp(r, t)
         /\ l % t = 0 => Stamp(Stamp(r, l), t) = Stamp(r, l)
<1>1. r.ts \in Nat  BY DEF Rows
<1>2. t % l = 0 => Bin(Bin(r.ts, l), t) = Bin(r.ts, t)  BY <1>1, BinOfBin
<1>3. l % t = 0 => Bin(Bin(r.ts, l), t) = Bin(r.ts, l)  BY <1>1, BinOnGrid
<1>4. QED  BY <1>2, <1>3 DEF Stamp, Rows

\* At a coarser cadence: the last records of the coarser bins.
LEMMA Coarser ==
  ASSUME NEW s \in Seq(Rows), NEW x \in Seq(Rows), NEW new \in Seq(Rows),
         NEW l \in Nat \ {0}, NEW t \in Nat \ {0}, t % l = 0,
         AreLastOfBins(x, s, l), Mono(s, l, Len(s)), AreLastOfBins(new, x, t)
  PROVE  AreLastOfBins(new, s, t) /\ Mono(s, t, Len(s))
<1>1. PICK N : N = Len(s)  OBVIOUS
<1>2. PICK M : M = Len(x)  OBVIOUS
<1> DEFINE B(i) == Bin(s[i].ts, l)
           C(i) == Bin(s[i].ts, t)
<1>3. N \in Nat /\ M \in Nat  BY <1>1, <1>2
<1>4. \A i \in 1..N : s[i] \in Rows /\ s[i].ts \in Nat /\ B(i) \in Nat /\ C(i) \in Nat
                      /\ Bin(B(i), t) = C(i)
  BY <1>1, InRows, BinNat, BinOfBin
<1>5. \A i \in 1..N : Stamp(s[i], l).ts = B(i) /\ Stamp(Stamp(s[i], l), t) = Stamp(s[i], t)
  <2> TAKE i \in 1..N
  <2>1. s[i] \in Rows  BY <1>4
  <2>2. QED  BY <2>1, StampType, StampOfStamp
<1>6. /\ \A k \in 1..M : \E i \in LastIn(s, l) : x[k] = Stamp(s[i], l)
      /\ \A i \in LastIn(s, l) : \E k \in 1..M : x[k] = Stamp(s[i], l)
      /\ LastIn(s, l) \subseteq 1..N
  <2>1. /\ \A k \in 1..Len(x) : \E i \in LastIn(s, l) : x[k] = Stamp(s[i], l)
        /\ \A i \in LastIn(s, l) : \E k \in 1..Len(x) : x[k] = Stamp(s[i], l)
        /\ LastIn(s, l) \subseteq 1..Len(s)
    BY RangeHas
  <2>2. QED  BY <2>1, <1>1, <1>2
<1>7. \A k, m \in 1..M : k < m => x[k].ts < x[m].ts  BY <1>2, Pairwise DEF AreLastOfBins
<1>8. \A k \in 1..M : x[k].ts \in Nat  BY <1>2, InRows
<1>9. \A i, j \in 1..N : i < j => B(i) <= B(j)  BY <1>1 DEF Mono
<1>10. /\ \A i \in LastIn(s, l) : \A j \in 1..N : j > i => B(j) # B(i)
       /\ \A j \in 1..N : \E i \in LastIn(s, l) : B(i) = B(j)
       /\ \A i \in 1..N : i \in LastIn(s, t) <=> \A j \in 1..N : j > i => C(j) # C(i)
       /\ \A i \in 1..N : (\A j \in 1..N : j > i => B(j) # B(i)) => i \in LastIn(s, l)
  <2>1. \A j \in 1..N : \E i \in LastIn(s, l) : B(i) = B(j)  BY <1>1, HasLast
  <2>2. QED  BY <2>1, <1>1 DEF LastIn
<1>11. \A k \in 1..M : k \in LastIn(x, t) <=> \A m \in 1..M : m > k => Bin(x[m].ts, t) # Bin(x[k].ts, t)
  BY <1>2 DEF LastIn
<1>12. Mono(s, t, N)
  <2> SUFFICES ASSUME NEW i \in 1..N, NEW j \in 1..N, i < j PROVE C(i) <= C(j)
    BY DEF Mono
  <2>1. B(i) <= B(j) /\ B(i) \in Nat /\ B(j) \in Nat  BY <1>4, <1>9
  <2>2. Bin(B(i), t) <= Bin(B(j), t)  BY <2>1, BinMonotone
  <2>3. QED  BY <2>2, <1>4
<1> HIDE DEF B, C
<1>13. ASSUME NEW k \in LastIn(x, t)
       PROVE  \E i \in LastIn(s, t) : Stamp(x[k], t) = Stamp(s[i], t)
  <2>1. k \in 1..M  BY <1>2 DEF LastIn
  <2>2. PICK i \in LastIn(s, l) : x[k] = Stamp(s[i], l)  BY <2>1, <1>6
  <2>3. i \in 1..N /\ x[k].ts = B(i)  BY <2>2, <1>5, <1>6
  <2>4. ASSUME NEW j \in 1..N, j > i, C(j) = C(i) PROVE FALSE
    <3>1. B(i) < B(j)
      <4>1. i < j  BY <2>3, <2>4, <1>3
      <4>2. B(i) <= B(j) /\ B(j) # B(i) /\ B(i) \in Nat /\ B(j) \in Nat
        BY <4>1, <2>2, <2>3, <2>4, <1>4, <1>9, <1>10
      <4>3. QED  BY <4>2
    <3>2. PICK h \in LastIn(s, l) : B(h) = B(j)  BY <1>10
    <3>3. PICK m \in 1..M : x[m] = Stamp(s[h], l)  BY <1>6
    <3>4. h \in 1..N /\ x[m].ts = B(j)  BY <3>2, <3>3, <1>5, <1>6
    <3>5. m > k
      <4>1. x[k].ts < x[m].ts /\ x[k].ts \in Nat /\ x[m].ts \in Nat  BY <3>1, <3>4, <2>1, <2>3, <1>8
      <4>2. ~(m < k) /\ m # k
        <5>1. m < k => x[m].ts < x[k].ts  BY <2>1, <1>7
        <5>2. QED  BY <4>1, <5>1
      <4>3. QED  BY <4>2, <2>1, <1>3
    <3>6. Bin(x[m].ts, t) = Bin(x[k].ts, t)  BY <3>4, <2>3, <2>4, <1>4
    <3>7. QED  BY <3>5, <3>6, <2>1, <1>11
  <2>5. i \in LastIn(s, t)  BY <2>3, <2>4, <1>10
  <2>6. QED  BY <2>2, <2>3, <2>5, <1>5
<1>14. ASSUME NEW i \in LastIn(s, t)
       PROVE  \E k \in LastIn(x, t) : Stamp(x[k], t) = Stamp(s[i], t)
  <2>1. i \in 1..N  BY <1>1 DEF LastIn
  <2>2. i \in LastIn(s, l)
    <3>1. \A j \in 1..N : B(j) = B(i) => C(j) = C(i)
      <4> TAKE j \in 1..N
      <4>1. Bin(B(j), t) = C(j) /\ Bin(B(i), t) = C(i)  BY <2>1, <1>4
      <4>2. QED  BY <4>1
    <3>2. QED  BY <3>1, <2>1, <1>10
  <2>3. PICK k \in 1..M : x[k] = Stamp(s[i], l)  BY <2>2, <1>6
  <2>4. x[k].ts = B(i)  BY <2>1, <2>3, <1>5
  <2>5. ASSUME NEW m \in 1..M, m > k, Bin(x[m].ts, t) = Bin(x[k].ts, t) PROVE FALSE
    <3>1. PICK j \in LastIn(s, l) : x[m] = Stamp(s[j], l)  BY <1>6
    <3>2. j \in 1..N /\ x[m].ts = B(j)  BY <3>1, <1>5, <1>6
    <3>3. k < m  BY <2>5, <1>3
    <3>4. B(i) < B(j) /\ B(i) \in Nat /\ B(j) \in Nat  BY <3>2, <3>3, <2>1, <2>4, <1>4, <1>7
    <3>5. ~(j < i) /\ j # i
      <4>1. j < i => B(j) <= B(i)  BY <3>2, <2>1, <1>9
      <4>2. QED  BY <3>4, <4>1
    <3>6. j > i  BY <3>2, <3>5, <2>1, <1>3
    <3>7. C(j) = C(i)  BY <3>2, <2>1, <2>4, <2>5, <1>4
    <3>8. QED  BY <3>2, <3>6, <3>7, <2>1, <1>10
  <2>6. k \in LastIn(x, t)  BY <2>5, <1>11
  <2>7. QED  BY <2>1, <2>3, <2>6, <1>5
<1>15. {Stamp(x[k], t) : k \in LastIn(x, t)} = {Stamp(s[i], t) : i \in LastIn(s, t)}
  BY <1>13, <1>14
<1>16. QED  BY <1>1, <1>12, <1>15 DEF AreLastOfBins

\* At a finer one: nothing changes.
LEMMA Finer ==
  ASSUME NEW s \in Seq(Rows), NEW x \in Seq(Rows), NEW new \in Seq(Rows),
         NEW l \in Nat \ {0}, NEW t \in Nat \ {0}, l % t = 0,
         AreLastOfBins(x, s, l), AreLastOfBins(new, x, t)
  PROVE  AreLastOfBins(new, s, l)
<1>1. PICK M : M = Len(x)  OBVIOUS
<1>2. M \in Nat  BY <1>1
<1>3. \A k \in 1..M : Stamp(x[k], t) = x[k]
  <2> TAKE k \in 1..M
  <2>1. PICK i \in LastIn(s, l) : x[k] = Stamp(s[i], l)  BY <1>1, RangeHas
  <2>2. s[i] \in Rows  BY RangeHas, InRows
  <2>3. QED  BY <2>1, <2>2, StampOfStamp
<1>4. \A k, m \in 1..M : k < m => x[k].ts < x[m].ts  BY <1>1, Pairwise DEF AreLastOfBins
<1>5. \A k \in 1..M : x[k].ts \in Nat /\ Bin(x[k].ts, t) = x[k].ts
  <2> TAKE k \in 1..M
  <2>1. x[k] \in Rows /\ x[k].ts \in Nat  BY <1>1, InRows
  <2>2. Stamp(x[k], t).ts = Bin(x[k].ts, t)  BY <2>1, StampType
  <2>3. QED  BY <2>1, <2>2, <1>3
<1>6. LastIn(x, t) = 1..M
  <2>1. \A k, m \in 1..M : m > k => Bin(x[m].ts, t) # Bin(x[k].ts, t)
    <3> TAKE k, m \in 1..M
    <3>1. HAVE m > k
    <3>2. x[k].ts < x[m].ts /\ x[k].ts \in Nat /\ x[m].ts \in Nat  BY <3>1, <1>2, <1>4, <1>5
    <3>3. QED  BY <3>2, <1>5
  <2>2. QED  BY <2>1, <1>1 DEF LastIn
<1>7. {Stamp(x[k], t) : k \in LastIn(x, t)} = {x[k] : k \in 1..M}  BY <1>3, <1>6
<1>8. Range(x) = {x[k] : k \in 1..M}  BY <1>1, RangeIs
<1>9. QED  BY <1>7, <1>8 DEF AreLastOfBins

LEMMA LastAreOwn ==
  ASSUME NEW s \in Seq(Rows), NEW x \in Seq(Rows), NEW l \in Nat \ {0},
         AreLastOfBins(x, s, l), \A i \in 1..Len(s) : s[i].own
  PROVE  \A k \in 1..Len(x) : x[k].own
<1> TAKE k \in 1..Len(x)
<1>1. PICK i \in LastIn(s, l) : x[k] = Stamp(s[i], l)  BY RangeHas
<1>2. i \in 1..Len(s)  BY RangeHas
<1>3. s[i] \in Rows /\ s[i].own  BY <1>2, InRows
<1>4. QED  BY <1>1, <1>3, StampType

\* x is what down-sampling the records w to l leaves.
Held(x, w, l) ==
  /\ AreLastOfBins(x, Own(w), l)
  /\ Mono(Own(w), l, Len(Own(w)))
  /\ \A k \in 1..Len(x) : x[k].own

LEMMA Divides ==
  ASSUME NEW l \in Nat \ {0}, NEW t \in Nat \ {0}, l % t = 0 \/ t % l = 0
  PROVE  /\ t > l => t % l = 0
         /\ ~(t > l) => l % t = 0
<1>1. ASSUME NEW a \in Nat \ {0}, NEW b \in Nat \ {0}, a < b PROVE a % b = a
  BY <1>1
<1>2. l % t = 0 => ~(l < t)  BY <1>1
<1>3. t % l = 0 => ~(t < l)  BY <1>1
<1>4. l = t => (l % t = 0 <=> t % l = 0)  OBVIOUS
<1>5. QED  BY <1>2, <1>3, <1>4

\* A run over a shard that is as written, or that an earlier run left.
LEMMA Recommit ==
  ASSUME NEW w \in Seq(Rows), NEW x \in Seq(Rows), NEW new, NEW l \in Nat, NEW t \in Nat \ {0},
         l = 0 => x = w,
         l # 0 => Held(x, w, l) /\ (l % t = 0 \/ t % l = 0),
         new = Down(Own(x), t), Ascending(new)
  PROVE  Held(new, w, IF t > l THEN t ELSE l)
<1>1. Own(x) \in Seq(Rows) /\ Own(w) \in Seq(Rows) /\ \A k \in 1..Len(Own(w)) : Own(w)[k].own
  BY OwnOwn
<1>2. new \in Seq(Rows) /\ AreLastOfBins(new, Own(x), t) /\ Mono(Own(x), t, Len(Own(x)))
  BY <1>1, DownIsLast
<1> DEFINE h == IF t > l THEN t ELSE l
<1>3. h \in Nat \ {0}  OBVIOUS
<1>4. AreLastOfBins(new, Own(w), h) /\ Mono(Own(w), h, Len(Own(w)))
  <2>1. CASE l = 0
    <3>1. h = t /\ x = w  BY <2>1
    <3>2. QED  BY <3>1, <1>2
  <2>2. CASE l # 0
    <3>1. /\ AreLastOfBins(x, Own(w), l) /\ Mono(Own(w), l, Len(Own(w)))
          /\ Own(x) = x
      BY <2>2, OwnOwn DEF Held
    <3>2. /\ t > l => t % l = 0
          /\ ~(t > l) => l % t = 0
      BY <2>2, Divides
    <3>3. CASE t > l
      <4>1. h = t /\ t % l = 0  BY <3>2, <3>3
      <4>2. QED  BY <4>1, <3>1, <2>2, <1>1, <1>2, Coarser
    <3>4. CASE ~(t > l)
      <4>1. h = l /\ l % t = 0  BY <3>2, <3>4
      <4>2. AreLastOfBins(new, Own(w), l)  BY <4>1, <3>1, <2>2, <1>1, <1>2, Finer
      <4>3. QED  BY <4>1, <4>2, <3>1
    <3>5. QED  BY <3>3, <3>4
  <2>3. QED  BY <2>1, <2>2
<1> HIDE DEF h
<1>5. \A k \in 1..Len(new) : new[k].own  BY <1>1, <1>2, <1>3, <1>4, LastAreOwn
<1>6. QED  BY <1>4, <1>5 DEF Held, h

-----------------------------------------------------------------------------
(* The invariant.                                                          *)

\* A file that stands for the shard: as written, or as the last commit left it.
Content(x) ==
  /\ x \in Seq(Rows)
  /\ level = 0 => x = written
  /\ level # 0 /\ Nested => Held(x, written, level)

\* The staged file is x down-sampled to the run's target, and passed the checks.
New(x) ==
  /\ staged \in Seq(Rows)
  /\ staged = Down(Own(x), args.target)
  /\ Ascending(staged)

ResampleIInv ==
  /\ ResampleTypeOK
  /\ idx # None => Content(idx)
  /\ idx = None => /\ Content(bak) /\ staged \in Seq(Rows)
                   /\ \E t \in Targets : staged = Down(Own(bak), t)
  /\ pc = "read" => idx # None
  /\ pc = "staged" => idx # None /\ New(idx)
  /\ pc = "moved" => idx = None /\ New(bak)

LEMMA InitHolds ==
  ASSUME ResampleInit
  PROVE  ResampleIInv
<1>1. written \in Shards /\ idx = written /\ staged = None /\ bak = None /\ pc = "idle" /\ level = 0
  BY DEF ResampleInit
<1>2. idx \in Seq(Rows) /\ idx # None  BY <1>1, ResampleAssumption
<1>3. ResampleTypeOK  BY <1>1, <1>2 DEF ResampleTypeOK
<1>4. Content(idx)  BY <1>1, <1>2 DEF Content
<1>5. QED  BY <1>1, <1>2, <1>3, <1>4 DEF ResampleIInv

LEMMA StartHolds ==
  ASSUME ResampleIInv, NEW t \in Targets, NEW commit \in BOOLEAN, Start(t, commit)
  PROVE  ResampleIInv'
<1>1. ResampleTypeOK'  BY DEF ResampleIInv, ResampleTypeOK, Start, files
<1>2. idx # None /\ idx' = idx /\ written' = written /\ level' = level /\ pc' = "read"
  BY DEF Start, files
<1>3. Content(idx)'  BY <1>2 DEF ResampleIInv, Content
<1>4. QED  BY <1>1, <1>2, <1>3 DEF ResampleIInv

\* Where a run ends without touching the files that stand.
LEMMA EndHolds ==
  ASSUME ResampleIInv, End, UNCHANGED <<written, idx, bak, level>>,
         staged' \in Seq(Rows) \cup {None}, idx = None => staged' = staged
  PROVE  ResampleIInv'
<1>1. ResampleTypeOK'  BY DEF ResampleIInv, ResampleTypeOK, End
<1>2. pc' = "idle"  BY DEF End
<1>3. (idx # None => Content(idx))'  BY DEF ResampleIInv, Content
<1>4. (idx = None => /\ Content(bak) /\ staged \in Seq(Rows)
                     /\ \E t \in Targets : staged = Down(Own(bak), t))'
  BY DEF ResampleIInv, Content
<1>5. QED  BY <1>1, <1>2, <1>3, <1>4 DEF ResampleIInv

LEMMA StageHolds ==
  ASSUME ResampleIInv, Stage
  PROVE  ResampleIInv'
<1>1. idx # None /\ idx \in Seq(Rows) /\ pc = "read" /\ args.target \in Targets
  BY DEF ResampleIInv, ResampleTypeOK, Stage
<1>2. staged' = Down(Own(idx), args.target) /\ Verified(Own(idx), staged', args.target)
      /\ UNCHANGED <<written, idx, bak, level>>
  BY DEF Stage
<1>3. Ascending(staged')  BY <1>2 DEF Verified, Ascending
<1>4. staged' \in Seq(Rows)
  <2>1. Own(idx) \in Seq(Rows) /\ args.target \in Nat \ {0}  BY <1>1, OwnOwn, ResampleAssumption
  <2>2. QED  BY <2>1, <1>2, DownIsLast
<1>5. CASE args.commit
  <2>1. pc' = "staged" /\ args' = args  BY <1>5 DEF Stage
  <2>2. ResampleTypeOK'  BY <1>1, <1>2, <1>4, <2>1 DEF ResampleIInv, ResampleTypeOK
  <2>3. Content(idx)'  BY <1>1, <1>2 DEF ResampleIInv, Content
  <2>4. New(idx)'  BY <1>2, <1>3, <1>4, <2>1 DEF New
  <2>5. QED  BY <1>1, <1>2, <2>1, <2>2, <2>3, <2>4 DEF ResampleIInv
<1>6. CASE ~args.commit
  <2>1. End  BY <1>6 DEF Stage
  <2>2. QED  BY <1>1, <1>2, <1>4, <2>1, EndHolds
<1>7. QED  BY <1>5, <1>6

LEMMA MoveOldHolds ==
  ASSUME ResampleIInv, MoveOld
  PROVE  ResampleIInv'
<1>1. /\ pc = "staged" /\ bak' = idx /\ idx' = None /\ pc' = "moved"
      /\ UNCHANGED <<written, staged, args, level>>
  BY DEF MoveOld
<1>2. idx # None /\ New(idx) /\ Content(idx) /\ args.target \in Targets
  BY <1>1 DEF ResampleIInv, ResampleTypeOK
<1>3. ResampleTypeOK'  BY <1>1, <1>2 DEF ResampleIInv, ResampleTypeOK, Content
<1>4. Content(bak)'  BY <1>1, <1>2 DEF Content
<1>5. New(bak)'  BY <1>1, <1>2 DEF New
<1>6. (\E t \in Targets : staged = Down(Own(bak), t))'  BY <1>1, <1>2 DEF New
<1>7. QED  BY <1>1, <1>2, <1>3, <1>4, <1>5, <1>6 DEF ResampleIInv, New

LEMMA MoveNewHolds ==
  ASSUME ResampleIInv, MoveNew
  PROVE  ResampleIInv'
<1> DEFINE t == args.target
           h == IF t > level THEN t ELSE level
<1>1. /\ pc = "moved" /\ idx' = staged /\ staged' = None /\ level' = h
      /\ pc' = "idle" /\ written' = written /\ bak' = bak
  BY DEF MoveNew, End
<1>2. /\ Content(bak) /\ New(bak) /\ t \in Targets /\ level \in Targets \cup {0}
      /\ written \in Shards
  BY <1>1 DEF ResampleIInv, ResampleTypeOK
<1>3. staged \in Seq(Rows) /\ staged # None /\ h \in Targets /\ h # 0
  <2>1. staged \in Seq(Rows) /\ staged # None  BY <1>2, ResampleAssumption DEF New
  <2>2. t \in Targets /\ (level = 0 \/ level \in Targets)  BY <1>2
  <2> HIDE DEF t
  <2>3. t \in Nat /\ t # 0 /\ level \in Nat
    <3>1. Targets \subseteq Nat \ {0}  BY ResampleAssumption
    <3>2. t \in Nat \ {0} /\ (level = 0 \/ level \in Nat \ {0})  BY <3>1, <2>2
    <3>3. QED  BY <3>2
  <2>4. h \in Targets /\ h # 0  BY <2>2, <2>3
  <2>5. QED  BY <2>1, <2>4
<1>4. ResampleTypeOK'  BY <1>1, <1>2, <1>3 DEF ResampleIInv, ResampleTypeOK
<1>5. ASSUME Nested PROVE Held(staged, written, h)
  <2>1. level # 0 => level % t = 0 \/ t % level = 0  BY <1>2, <1>5 DEF Nested
  <2>2. /\ written \in Seq(Rows) /\ bak \in Seq(Rows) /\ level \in Nat /\ t \in Nat \ {0}
        /\ level = 0 => bak = written
        /\ level # 0 => Held(bak, written, level)
        /\ staged = Down(Own(bak), t) /\ Ascending(staged)
    <3>1. written \in Seq(Rows) /\ level \in Nat /\ t \in Nat \ {0}
      <4>1. written \in Shards /\ t \in Targets /\ level \in Targets \cup {0}  BY <1>2
      <4> HIDE DEF t
      <4>2. QED  BY <4>1, ResampleAssumption
    <3>2. /\ bak \in Seq(Rows)
          /\ level = 0 => bak = written
          /\ level # 0 => Held(bak, written, level)
      BY <1>2, <1>5 DEF Content
    <3>3. staged = Down(Own(bak), t) /\ Ascending(staged)  BY <1>2 DEF New
    <3>4. QED  BY <3>1, <3>2, <3>3
  <2> HIDE DEF t
  <2>3. QED  BY <2>1, <2>2, Recommit
<1>6. Nested' <=> Nested  BY DEF Nested
<1>7. Content(idx)'
  <2>1. (Nested => Held(idx, written, level))'  BY <1>1, <1>5, <1>6 DEF Held
  <2>2. QED  BY <2>1, <1>1, <1>3 DEF Content
<1>8. QED  BY <1>1, <1>3, <1>4, <1>7 DEF ResampleIInv

LEMMA NextHolds ==
  ASSUME ResampleIInv, [ResampleNext]_resampleVars
  PROVE  ResampleIInv'
<1>1. CASE Skip
  BY <1>1, EndHolds DEF Skip, files, ResampleIInv, ResampleTypeOK
<1>2. CASE Stage  BY <1>2, StageHolds
<1>3. CASE MoveOld  BY <1>3, MoveOldHolds
<1>4. CASE MoveNew  BY <1>4, MoveNewHolds
<1>5. CASE Abort
  BY <1>5, EndHolds DEF Abort, files, ResampleIInv, ResampleTypeOK
<1>6. CASE \E t \in Targets, commit \in BOOLEAN : Start(t, commit)
  BY <1>6, StartHolds
<1>7. CASE UNCHANGED resampleVars
  BY <1>7 DEF resampleVars, files, ResampleIInv, ResampleTypeOK, Content, New, Held
<1>8. QED  BY <1>1, <1>2, <1>3, <1>4, <1>5, <1>6, <1>7 DEF ResampleNext

\* The files that stand for the shard are at every step what was written or what
\* the last commit made of it.
THEOREM ResampleInductive == ResampleSpec => []ResampleIInv
<1>1. ResampleInit => ResampleIInv  BY InitHolds
<1>2. ResampleIInv /\ [ResampleNext]_resampleVars => ResampleIInv'  BY NextHolds
<1>3. QED  BY <1>1, <1>2, PTL DEF ResampleSpec

\* resample_idx.rs:18-20, for every shard and every sequence of runs, committed,
\* cut short and repeated: where of any two cadences one is a multiple of the
\* other, a committed shard is the last record of every bin of the coarsest.
THEOREM CommitIsLastOfBin == ResampleSpec => []CommittedIsLastOfBin
<1>1. ResampleIInv => CommittedIsLastOfBin
  BY DEF ResampleIInv, Content, Held, CommittedIsLastOfBin
<1>2. QED  BY <1>1, ResampleInductive, PTL

\* resample_idx.rs:95-96, for every shard and any cadences: where the commit was
\* cut short, .bak and .new hold what rolls it back and what completes it.
THEOREM CommitCutShortRecovers == ResampleSpec => []MissingIsRecoverable
<1>1. ResampleIInv => MissingIsRecoverable
  BY ResampleAssumption DEF ResampleIInv, Content, MissingIsRecoverable
<1>2. QED  BY <1>1, ResampleInductive, PTL

-----------------------------------------------------------------------------
(* IdxShards.                                                              *)

USE SlotsAssumption, DaysAssumption, DayOfAssumption, NoFileAssumption, BoundsAssumption

-----------------------------------------------------------------------------
(* Sequences. *)

LEMMA ConcatAppend ==
  ASSUME NEW S, NEW s \in Seq(S), NEW t \in Seq(S), NEW x \in S
  PROVE  s \o Append(t, x) = Append(s \o t, x)
  OBVIOUS

LEMMA ConcatIsPrefix ==
  ASSUME NEW S, NEW s \in Seq(S), NEW t \in Seq(S)
  PROVE  IsPrefix(s, s \o t)
  BY DEF IsPrefix

LEMMA AppendIsPrefix ==
  ASSUME NEW S, NEW s \in Seq(S), NEW x \in S
  PROVE  IsPrefix(s, Append(s, x))
  BY DEF IsPrefix

LEMMA PrefixReflexive ==
  ASSUME NEW S, NEW s \in Seq(S)
  PROVE  IsPrefix(s, s)
  BY DEF IsPrefix

\* What a log holds it still holds once it is extended.
LEMMA RangeOfAppend ==
  ASSUME NEW S, NEW s \in Seq(S), NEW x \in S
  PROVE  /\ Range(s) \subseteq Range(Append(s, x))
         /\ x \in Range(Append(s, x))
<1>1. /\ Len(Append(s, x)) = Len(s) + 1
      /\ \A i \in 1..Len(s) : Append(s, x)[i] = s[i]
      /\ Append(s, x)[Len(s) + 1] = x
      /\ DOMAIN s = 1..Len(s)
      /\ DOMAIN Append(s, x) = 1..(Len(s) + 1)
      /\ Len(s) \in Nat
  OBVIOUS
<1>2. QED  BY <1>1 DEF Range

LEMMA RangeOfConcat ==
  ASSUME NEW S, NEW s \in Seq(S), NEW t \in Seq(S)
  PROVE  Range(s) \subseteq Range(s \o t)
<1>1. /\ \A i \in 1..Len(s) : (s \o t)[i] = s[i]
      /\ DOMAIN s = 1..Len(s)
      /\ DOMAIN (s \o t) = 1..(Len(s) + Len(t))
      /\ Len(s) \in Nat /\ Len(t) \in Nat
  OBVIOUS
<1>2. QED  BY <1>1 DEF Range

\* A family of logs stays one when a record is added to one of them, when one
\* is extended and when one is started over.
LEMMA LogFamily ==
  ASSUME NEW D, NEW S, NEW g \in [D -> Seq(S)], NEW k \in D,
         NEW x \in S, NEW s \in Seq(S)
  PROVE  /\ [g EXCEPT ![k] = Append(@, x)] \in [D -> Seq(S)]
         /\ [g EXCEPT ![k] = @ \o s] \in [D -> Seq(S)]
         /\ [g EXCEPT ![k] = s] \in [D -> Seq(S)]
<1>1. Append(g[k], x) \in Seq(S) /\ g[k] \o s \in Seq(S)
  OBVIOUS
<1>2. QED  BY <1>1

-----------------------------------------------------------------------------
(* Type correctness, action by action. *)

LEMMA FlushedType == TypeOK => Flushed \in [Files -> Seq(Records)]
  BY DEF TypeOK, Flushed

LEMMA InitType == Init => TypeOK
  BY DEF Init, TypeOK, Today, NothingYet

LEMMA LiveType == TypeOK /\ (Tick \/ LiveOpen \/ LiveAppend \/ LiveStop) => TypeOK'
<1> SUFFICES ASSUME TypeOK  PROVE (Tick \/ LiveOpen \/ LiveAppend \/ LiveStop) => TypeOK'
  OBVIOUS
<1>1. Tick => TypeOK'
  BY DEF TypeOK, Tick, liveVars, runVars
<1>2. LiveOpen => TypeOK'
  BY DEF TypeOK, LiveOpen, liveVars, runVars
<1>3. ASSUME LiveAppend  PROVE TypeOK'
  <2>1. <<"live", now>> \in Records /\ Today \in Days
    BY DEF TypeOK, Records, Today
  <2>2. acked' \in SUBSET Slots
    BY <1>3 DEF TypeOK, LiveAppend, LiveAppendHeld, LiveAppendReopen, LiveAppendCreate, LiveRecord
  <2>3. CASE LiveAppendHeld
    <3>1. content' \in [Files -> Seq(Records)]
      <4>1. liveFd \in Files
        BY <2>3 DEF TypeOK, LiveAppendHeld, HoldsToday
      <4>2. QED  BY <2>1, <2>3, <4>1, LogFamily DEF TypeOK, LiveAppendHeld
    <3>2. QED  BY <2>2, <2>3, <3>1 DEF TypeOK, LiveAppendHeld, LiveRecord, liveVars, runVars
  <2>4. CASE LiveAppendReopen
    <3>1. entry[Today] \in Files
      BY <2>1, <2>4 DEF TypeOK, LiveAppendReopen
    <3>2. content' \in [Files -> Seq(Records)]
      BY <2>1, <2>4, <3>1, LogFamily DEF TypeOK, LiveAppendReopen
    <3>3. liveFd' \in Files /\ liveDay' \in Days /\ UNCHANGED <<now, lock, runVars, entry>>
      BY <2>1, <2>4, <3>1 DEF LiveAppendReopen, LiveRecord
    <3>4. QED  BY <2>2, <3>2, <3>3 DEF TypeOK, runVars
  <2>5. CASE LiveAppendCreate
    <3>1. PICK f \in Files : /\ liveFd' = f
                             /\ entry' = [entry EXCEPT ![Today] = f]
                             /\ content' = [content EXCEPT ![f] = <<<<"live", now>>>>]
      BY <2>5 DEF LiveAppendCreate
    <3>2. content' \in [Files -> Seq(Records)]
      BY <2>1, <3>1 DEF TypeOK
    <3>3. entry' \in [Days -> Files \cup {NoFile}]
      BY <2>1, <3>1 DEF TypeOK
    <3>4. QED  BY <2>1, <2>2, <2>5, <3>1, <3>2, <3>3 DEF TypeOK, LiveAppendCreate, LiveRecord, runVars
  <2>6. QED  BY <1>3, <2>3, <2>4, <2>5 DEF LiveAppend
<1>4. LiveStop => TypeOK'
  BY DEF TypeOK, LiveStop, runVars
<1>5. QED  BY <1>1, <1>2, <1>3, <1>4

LEMMA RunType ==
  TypeOK /\ (RunNew \/ RunSpill \/ RunClose \/ RunCrash) => TypeOK'
<1> SUFFICES ASSUME TypeOK  PROVE (RunNew \/ RunSpill \/ RunClose \/ RunCrash) => TypeOK'
  OBVIOUS
<1>1. Flushed \in [Files -> Seq(Records)]  BY FlushedType
<1>2. RunNew => TypeOK'
  BY DEF TypeOK, RunNew, liveVars, NothingYet
<1>3. RunSpill => TypeOK'
  BY <1>1 DEF TypeOK, RunSpill, liveVars
<1>4. RunClose => TypeOK'
  BY <1>1 DEF TypeOK, RunClose, EndRun, liveVars, NothingYet
<1>5. RunCrash => TypeOK'
  BY DEF TypeOK, RunCrash, EndRun, liveVars, NothingYet
<1>6. QED  BY <1>2, <1>3, <1>4, <1>5

LEMMA AppendType ==
  ASSUME NEW t \in Slots, TypeOK,
         RunAppendSame(t) \/ RunRotate(t) \/ RunCrashRotating(t)
  PROVE  TypeOK'
<1>1. Flushed \in [Files -> Seq(Records)]  BY FlushedType
<1>2. <<"run", t>> \in Records /\ DayOf[t] \in Days  BY DEF Records
<1>3. CASE RunAppendSame(t)
  BY <1>2, <1>3 DEF TypeOK, RunAppendSame, liveVars
<1>4. CASE RunRotate(t)
  <2>0. Rotate(t)
    BY <1>4 DEF RunRotate, RunRotateOnto, RunRotateCreate
  <2>1. /\ touched' \in SUBSET Days /\ replaced' \in SUBSET Days /\ runDay' \in Days
        /\ runBuf' \in Seq(Records) /\ emitted' \in SUBSET Slots /\ own' \in [Days -> Seq(Records)]
        /\ UNCHANGED <<now, lock, liveVars, runs, acked>>
    <3>1. own' \in [Days -> Seq(Records)]
      BY <1>2, <2>0, LogFamily DEF TypeOK, Rotate
    <3>2. runBuf' = <<<<"run", t>>>> /\ runDay' = DayOf[t] /\ emitted' = emitted \cup {t}
      BY <2>0 DEF Rotate
    <3>3. touched' = touched \cup {DayOf[t]} /\ replaced' \in {replaced, replaced \cup {DayOf[t]}}
      BY <2>0 DEF Rotate
    <3>4. UNCHANGED <<now, lock, liveVars, runs, acked>>
      BY <2>0 DEF Rotate
    <3>5. runBuf' \in Seq(Records)
      BY <1>2, <3>2
    <3>6. runDay' \in Days /\ emitted' \in SUBSET Slots
      BY <1>2, <3>2 DEF TypeOK
    <3>7. touched' \in SUBSET Days /\ replaced' \in SUBSET Days
      BY <1>2, <3>3 DEF TypeOK
    <3>8. QED  BY <3>1, <3>4, <3>5, <3>6, <3>7
  <2>2. CASE RunRotateOnto(t)
    BY <1>1, <1>2, <2>1, <2>2 DEF TypeOK, RunRotateOnto, liveVars
  <2>3. CASE RunRotateCreate(t)
    <3>1. PICK f \in Files : /\ runFd' = f
                             /\ entry' = [entry EXCEPT ![DayOf[t]] = f]
                             /\ content' = [Flushed EXCEPT ![f] = <<>>]
      BY <2>3 DEF RunRotateCreate
    <3>2. content' \in [Files -> Seq(Records)]  BY <1>1, <3>1
    <3>3. entry' \in [Days -> Files \cup {NoFile}]  BY <1>2, <3>1 DEF TypeOK
    <3>4. QED  BY <2>1, <3>1, <3>2, <3>3 DEF TypeOK, liveVars
  <2>4. QED  BY <1>4, <2>2, <2>3 DEF RunRotate
<1>5. CASE RunCrashRotating(t)
  BY <1>1, <1>2, <1>5 DEF TypeOK, RunCrashRotating, EndRun, liveVars, NothingYet
<1>6. QED  BY <1>3, <1>4, <1>5

LEMMA NextType == TypeOK /\ [Next]_vars => TypeOK'
<1>1. ASSUME TypeOK, UNCHANGED vars  PROVE TypeOK'
  BY <1>1 DEF TypeOK, vars, liveVars, runVars
<1>2. QED  BY <1>1, LiveType, RunType, AppendType DEF Next

\* Every variable keeps its type: in particular a descriptor and a directory
\* entry are inodes, and every log is a sequence of records.
THEOREM TypeCorrect == Spec => []TypeOK
  BY InitType, NextType, PTL DEF Spec

-----------------------------------------------------------------------------
(* What each step does to the logs a reader sees. These facts are where    *)
(* inodes, descriptors and buffers are left behind: everything after them  *)
(* is about Visible.                                                       *)

\* The log of day d once the run's buffer has reached the disk.
AfterFlush(d) == Visible(d) \o Pending(d)

LEMMA VisibleType ==
  ASSUME TypeOK, NEW d \in Days
  PROVE  Visible(d) \in Seq(Records) /\ Pending(d) \in Seq(Records) /\ AfterFlush(d) \in Seq(Records)
<1>1. Visible(d) \in Seq(Records)  BY DEF TypeOK, Visible
<1>2. Pending(d) \in Seq(Records)  BY DEF TypeOK, Pending
<1>3. QED  BY <1>1, <1>2 DEF AfterFlush

LEMMA VisibleStill ==
  ASSUME UNCHANGED <<entry, content>>, NEW d \in Days
  PROVE  Visible(d)' = Visible(d)
  BY DEF Visible

\* A live record lands at the end of the current day's visible log.
LEMMA VisibleLive ==
  ASSUME IInv, LiveAppend, NEW d \in Days
  PROVE  Visible(d)' = IF d = Today THEN Append(Visible(d), <<"live", now>>) ELSE Visible(d)
<1> USE DEF IInv, TypeOK
<1>1. Today \in Days  BY DEF Today
<1>2. CASE LiveAppendHeld
  <2>1. liveFd \in Files /\ liveDay = Today /\ entry[Today] = liveFd
    BY <1>2 DEF LiveAppendHeld, HoldsToday, NoOrphanFd
  <2>2. entry[d] = liveFd <=> d = Today
    BY <1>1, <2>1 DEF FilesNotShared
  <2>3. /\ content' = [content EXCEPT ![liveFd] = Append(@, <<"live", now>>)]
        /\ entry' = entry
    BY <1>2 DEF LiveAppendHeld
  <2>4. QED  BY <2>1, <2>2, <2>3 DEF Visible
<1>3. CASE LiveAppendReopen
  <2>1. entry[Today] \in Files
    BY <1>1, <1>3 DEF LiveAppendReopen
  <2>2. entry[d] = entry[Today] <=> d = Today
    BY <1>1, <2>1 DEF FilesNotShared
  <2>3. /\ content' = [content EXCEPT ![entry[Today]] = Append(@, <<"live", now>>)]
        /\ entry' = entry
    BY <1>3 DEF LiveAppendReopen
  <2>4. QED  BY <2>1, <2>2, <2>3 DEF Visible
<1>4. CASE LiveAppendCreate
  <2>1. PICK f \in Files \ InUse : /\ entry' = [entry EXCEPT ![Today] = f]
                                   /\ content' = [content EXCEPT ![f] = <<<<"live", now>>>>]
    BY <1>4 DEF LiveAppendCreate
  <2>2. f # entry[d] /\ f # NoFile
    BY <2>1 DEF InUse
  <2>3. entry[Today] = NoFile
    BY <1>4 DEF LiveAppendCreate
  <2>4. CASE d = Today
    BY <1>1, <2>1, <2>2, <2>3, <2>4 DEF Visible
  <2>5. CASE d # Today
    BY <1>1, <2>1, <2>2, <2>5 DEF Visible
  <2>6. QED  BY <2>4, <2>5
<1>5. QED  BY <1>2, <1>3, <1>4 DEF LiveAppend

\* Flushing extends the current log and no other.
LEMMA FlushedIs ==
  ASSUME IInv, NEW d \in Days, entry[d] # NoFile
  PROVE  Flushed[entry[d]] = AfterFlush(d)
<1> USE DEF IInv, TypeOK
<1>1. entry[d] \in Files  OBVIOUS
<1>2. CASE runFd = NoFile
  BY <1>1, <1>2 DEF Flushed, AfterFlush, Visible, Pending
<1>3. CASE runFd # NoFile
  <2>1. runFd \in Files /\ entry[runDay] = runFd
    BY <1>3 DEF NoOrphanFd
  <2>2. entry[d] = runFd <=> d = runDay
    BY <1>1, <2>1 DEF FilesNotShared
  <2>3. Flushed = [content EXCEPT ![runFd] = @ \o runBuf]
    BY <1>3 DEF Flushed
  <2>4. CASE d = runDay
    BY <1>1, <1>3, <2>1, <2>2, <2>3, <2>4 DEF AfterFlush, Visible, Pending
  <2>5. CASE d # runDay
    <3>1. Flushed[entry[d]] = content[entry[d]]
      BY <1>1, <2>1, <2>2, <2>3, <2>5
    <3>2. AfterFlush(d) = content[entry[d]]
      BY <1>1, <2>5 DEF AfterFlush, Visible, Pending
    <3>3. QED  BY <3>1, <3>2
  <2>6. QED  BY <2>4, <2>5
<1>4. QED  BY <1>2, <1>3

\* A day with no entry has nothing pending either.
LEMMA AbsentIs ==
  ASSUME IInv, NEW d \in Days, entry[d] = NoFile
  PROVE  AfterFlush(d) = <<>>
  BY DEF IInv, TypeOK, NoOrphanFd, AfterFlush, Visible, Pending

LEMMA VisibleFlush ==
  ASSUME IInv, content' = Flushed, UNCHANGED entry, NEW d \in Days
  PROVE  Visible(d)' = AfterFlush(d)
  BY FlushedIs, AbsentIs DEF Visible

\* A rotation flushes the log it leaves and starts over the one it enters
\* when that is a closed day not touched before; no other log changes.
LEMMA VisibleRotate ==
  ASSUME IInv, NEW t \in Slots, RunRotate(t) \/ RunCrashRotating(t), NEW d \in Days
  PROVE  Visible(d)' = IF d = DayOf[t] /\ StartsOver(d) THEN <<>> ELSE AfterFlush(d)
<1> USE DEF IInv, TypeOK
<1>1. DayOf[t] \in Days  OBVIOUS
<1>2. Flushed \in [Files -> Seq(Records)]  BY FlushedType
<1>3. CASE RunRotateOnto(t)
  BY <1>3, FlushedIs, AbsentIs DEF RunRotateOnto, Visible
<1>4. CASE RunRotateCreate(t)
  <2>1. PICK f \in Files \ InUse : /\ entry' = [entry EXCEPT ![DayOf[t]] = f]
                                   /\ content' = [Flushed EXCEPT ![f] = <<>>]
    BY <1>4 DEF RunRotateCreate
  <2>2. f # entry[d] /\ f # NoFile
    BY <2>1 DEF InUse
  <2>3. CASE d = DayOf[t]
    <3>1. Visible(d)' = <<>>
      BY <1>1, <1>2, <2>1, <2>2, <2>3 DEF Visible
    <3>2. StartsOver(d) \/ AfterFlush(d) = <<>>
      BY <1>4, <2>3, AbsentIs DEF RunRotateCreate
    <3>3. QED  BY <2>3, <3>1, <3>2
  <2>4. CASE d # DayOf[t]
    <3>1. entry'[d] = entry[d]
      BY <1>1, <2>1, <2>4
    <3>2. entry[d] # NoFile => content'[entry[d]] = Flushed[entry[d]]
      BY <1>2, <2>1, <2>2
    <3>3. QED  BY <2>4, <3>1, <3>2, FlushedIs, AbsentIs DEF Visible
  <2>5. QED  BY <2>3, <2>4
<1>5. CASE RunCrashRotating(t)
  <2>1. content' = Flushed /\ entry' = [entry EXCEPT ![DayOf[t]] = NoFile] /\ StartsOver(DayOf[t])
    BY <1>5 DEF RunCrashRotating
  <2>2. CASE d = DayOf[t]
    BY <1>1, <2>1, <2>2 DEF Visible
  <2>3. CASE d # DayOf[t]
    BY <1>1, <2>1, <2>3, FlushedIs, AbsentIs DEF Visible
  <2>4. QED  BY <2>2, <2>3
<1>6. QED  BY <1>3, <1>4, <1>5 DEF RunRotate

-----------------------------------------------------------------------------
(* The inductive invariant: first the conjuncts about files, descriptors   *)
(* and the lock, then those about what is visible.                         *)

FileInv == FilesNotShared /\ IdleWriters /\ NoOrphanFd

LEMMA FileInvStep == IInv /\ [Next]_vars => FileInv'
<1> SUFFICES ASSUME IInv, [Next]_vars  PROVE FileInv'
  OBVIOUS
<1> USE DEF IInv, TypeOK, FileInv
<1>1. CASE Tick \/ LiveOpen \/ LiveStop \/ RunNew \/ RunSpill \/ RunClose \/ RunCrash \/ UNCHANGED vars
  <2>1. entry' = entry
    BY <1>1 DEF Tick, LiveOpen, LiveStop, RunNew, RunSpill, RunClose, RunCrash, EndRun, vars
  <2>2. FilesNotShared'
    BY <2>1 DEF FilesNotShared
  <2>3. NoOrphanFd'
    BY <1>1, <2>1 DEF NoOrphanFd, Tick, LiveOpen, LiveStop, RunNew, RunSpill, RunClose, RunCrash,
                      EndRun, vars, liveVars, runVars
  <2>4. IdleWriters'
    BY <1>1 DEF IdleWriters, Tick, LiveOpen, LiveStop, RunNew, RunSpill, RunClose, RunCrash,
                EndRun, vars, liveVars, runVars
  <2>5. QED  BY <2>2, <2>3, <2>4
<1>2. CASE LiveAppend
  <2>1. /\ lock = "live" /\ lock' = lock
        /\ UNCHANGED <<runFd, runDay, runBuf, touched, replaced>>
        /\ runFd = NoFile
    BY <1>2 DEF LiveAppend, LiveAppendHeld, LiveAppendReopen, LiveAppendCreate, LiveRecord,
                runVars, IdleWriters
  <2>2. Today \in Days  BY DEF Today
  <2>3. FilesNotShared' /\ (liveFd' # NoFile => entry'[liveDay'] = liveFd')
    <3>1. CASE LiveAppendHeld
      BY <3>1 DEF LiveAppendHeld, FilesNotShared, NoOrphanFd, liveVars
    <3>2. CASE LiveAppendReopen
      BY <3>2 DEF LiveAppendReopen, FilesNotShared
    <3>3. CASE LiveAppendCreate
      <4>1. PICK f \in Files \ InUse : liveFd' = f /\ liveDay' = Today /\ entry' = [entry EXCEPT ![Today] = f]
        BY <3>3 DEF LiveAppendCreate
      <4>2. \A d \in Days : f # entry[d]
        BY <4>1 DEF InUse
      <4>3. QED  BY <2>2, <4>1, <4>2 DEF FilesNotShared
    <3>4. QED  BY <1>2, <3>1, <3>2, <3>3 DEF LiveAppend
  <2>4. QED  BY <2>1, <2>3 DEF IdleWriters, NoOrphanFd
<1>3. ASSUME NEW t \in Slots, RunAppendSame(t)  PROVE FileInv'
  BY <1>3 DEF RunAppendSame, MayEmit, FilesNotShared, NoOrphanFd, IdleWriters, liveVars
<1>4. ASSUME NEW t \in Slots, RunRotate(t)  PROVE FileInv'
  <2>1. Rotate(t)
    BY <1>4 DEF RunRotate, RunRotateOnto, RunRotateCreate
  <2>2. /\ lock = "run" /\ lock' = lock /\ liveFd = NoFile /\ liveFd' = liveFd
        /\ runDay' = DayOf[t] /\ touched' = touched \cup {DayOf[t]} /\ DayOf[t] \in Days
    BY <2>1 DEF Rotate, MayEmit, liveVars, IdleWriters
  <2>3. FilesNotShared' /\ runFd' # NoFile /\ entry'[DayOf[t]] = runFd'
    <3>1. CASE RunRotateOnto(t)
      BY <3>1 DEF RunRotateOnto, FilesNotShared
    <3>2. CASE RunRotateCreate(t)
      <4>1. PICK f \in Files \ InUse : runFd' = f /\ entry' = [entry EXCEPT ![DayOf[t]] = f]
        BY <3>2 DEF RunRotateCreate
      <4>2. \A d \in Days : f # entry[d]
        BY <4>1 DEF InUse
      <4>3. QED  BY <2>2, <4>1, <4>2 DEF FilesNotShared
    <3>3. QED  BY <1>4, <3>1, <3>2 DEF RunRotate
  <2>4. QED  BY <2>2, <2>3 DEF IdleWriters, NoOrphanFd
<1>5. ASSUME NEW t \in Slots, RunCrashRotating(t)  PROVE FileInv'
  <2>1. /\ entry' = [entry EXCEPT ![DayOf[t]] = NoFile]
        /\ lock' = "none" /\ runFd' = NoFile /\ runBuf' = <<>> /\ replaced' = {}
        /\ liveFd = NoFile /\ liveFd' = liveFd
    BY <1>5 DEF RunCrashRotating, EndRun, MayEmit, liveVars, IdleWriters
  <2>2. QED  BY <2>1 DEF FilesNotShared, IdleWriters, NoOrphanFd
<1>6. QED  BY <1>1, <1>2, <1>3, <1>4, <1>5 DEF Next

LEMMA PastStep == IInv /\ [Next]_vars => (AckedPast /\ OwnTouched)'
<1> SUFFICES ASSUME IInv, [Next]_vars  PROVE (AckedPast /\ OwnTouched)'
  OBVIOUS
<1> USE DEF IInv, TypeOK, AckedPast, OwnTouched
<1>1. CASE Tick
  <2>1. now' = now + 1 /\ now' \in Slots /\ UNCHANGED <<acked, touched, own, replaced>>
    BY <1>1 DEF Tick, runVars
  <2>2. Today <= Today'
    BY <2>1, MonotoneAssumption DEF Today
  <2>3. Today \in Int /\ Today' \in Int
    BY <2>1 DEF Today
  <2>4. QED  BY <2>1, <2>2, <2>3
<1>2. CASE LiveOpen \/ LiveStop \/ RunSpill \/ UNCHANGED vars
  <2>1. UNCHANGED <<now, acked, touched, own, replaced>>
    BY <1>2 DEF LiveOpen, LiveStop, RunSpill, vars, runVars
  <2>2. QED  BY <2>1 DEF Today
<1>3. CASE LiveAppend
  <2>1. UNCHANGED <<now, touched, own, replaced>> /\ acked' = acked \cup {now}
    BY <1>3 DEF LiveAppend, LiveAppendHeld, LiveAppendReopen, LiveAppendCreate, LiveRecord, runVars
  <2>2. now <= now  OBVIOUS
  <2>3. QED  BY <2>1, <2>2 DEF Today
<1>4. CASE RunNew \/ RunClose \/ RunCrash \/ \E t \in Slots : RunCrashRotating(t)
  <2>1. UNCHANGED <<now, acked>> /\ touched' = {} /\ replaced' = {} /\ own' = NothingYet
    BY <1>4 DEF RunNew, RunClose, RunCrash, RunCrashRotating, EndRun
  <2>2. QED  BY <2>1 DEF Today, NothingYet
<1>5. ASSUME NEW t \in Slots, RunAppendSame(t)  PROVE (AckedPast /\ OwnTouched)'
  <2>1. DayOf[t] \in touched
    BY <1>5 DEF RunAppendSame, IdleWriters
  <2>2. \A d \in Days : d # DayOf[t] => own'[d] = own[d]
    BY <1>5 DEF RunAppendSame
  <2>3. UNCHANGED <<now, acked, touched, replaced>>
    BY <1>5 DEF RunAppendSame
  <2>4. QED  BY <2>1, <2>2, <2>3 DEF Today
<1>6. ASSUME NEW t \in Slots, RunRotate(t)  PROVE (AckedPast /\ OwnTouched)'
  <2>1. Rotate(t)
    BY <1>6 DEF RunRotate, RunRotateOnto, RunRotateCreate
  <2>2. /\ UNCHANGED <<now, acked>>
        /\ touched' = touched \cup {DayOf[t]}
        /\ replaced' = IF StartsOver(DayOf[t]) THEN replaced \cup {DayOf[t]} ELSE replaced
    BY <2>1 DEF Rotate
  <2>3. \A d \in Days : d # DayOf[t] => own'[d] = own[d]
    BY <2>1 DEF Rotate
  <2>4. QED  BY <2>2, <2>3 DEF Today, StartsOver
<1>7. QED  BY <1>1, <1>2, <1>3, <1>4, <1>5, <1>6 DEF Next

LEMMA RangeOfPrefix ==
  ASSUME NEW S, NEW s \in Seq(S), NEW t \in Seq(S), IsPrefix(s, t)
  PROVE  Range(s) \subseteq Range(t)
<1>1. /\ Len(s) <= Len(t) /\ Len(s) \in Nat /\ Len(t) \in Nat
      /\ DOMAIN s = 1..Len(s) /\ DOMAIN t = 1..Len(t)
      /\ \A i \in 1..Len(s) : s[i] = t[i]
  <2>1. SubSeq(s, 1, Len(s)) = SubSeq(t, 1, Len(s)) /\ Len(s) <= Len(t)
    BY DEF IsPrefix
  <2>2. \A i \in 1..Len(s) : SubSeq(s, 1, Len(s))[i] = s[i] /\ SubSeq(t, 1, Len(s))[i] = t[i]
    BY <2>1
  <2>3. QED  BY <2>1, <2>2
<1>2. QED  BY <1>1 DEF Range

\* The logs of the current and of later days only grow, whoever steps.
LEMMA TailStep ==
  ASSUME IInv, [Next]_vars, NEW d \in Days, d >= Today
  PROVE  IsPrefix(Visible(d), Visible(d)')
<1> USE DEF IInv
<1>1. /\ Visible(d) \in Seq(Records) /\ Pending(d) \in Seq(Records)
      /\ Today \in Int /\ d \in Int
  BY VisibleType DEF TypeOK, Today
<1>2. IsPrefix(Visible(d), Visible(d)) /\ IsPrefix(Visible(d), AfterFlush(d))
  BY <1>1, PrefixReflexive, ConcatIsPrefix DEF AfterFlush
<1>3. CASE Tick \/ LiveOpen \/ LiveStop \/ RunNew \/ RunCrash \/ UNCHANGED vars
           \/ \E t \in Slots : RunAppendSame(t)
  <2>1. UNCHANGED <<entry, content>>
    BY <1>3 DEF Tick, LiveOpen, LiveStop, RunNew, RunCrash, RunAppendSame, vars
  <2>2. QED  BY <1>2, <2>1, VisibleStill
<1>4. CASE LiveAppend
  <2>1. <<"live", now>> \in Records
    BY DEF Records, TypeOK
  <2>2. QED  BY <1>1, <1>2, <1>4, <2>1, VisibleLive, AppendIsPrefix
<1>5. CASE RunSpill \/ RunClose
  <2>1. content' = Flushed /\ UNCHANGED entry
    BY <1>5 DEF RunSpill, RunClose
  <2>2. QED  BY <1>2, <2>1, VisibleFlush
<1>6. ASSUME NEW t \in Slots, RunRotate(t) \/ RunCrashRotating(t)
      PROVE  IsPrefix(Visible(d), Visible(d)')
  <2>1. ~StartsOver(d)
    BY <1>1 DEF StartsOver
  <2>2. QED  BY <1>2, <1>6, <2>1, VisibleRotate
<1>7. QED  BY <1>3, <1>4, <1>5, <1>6 DEF Next

\* No record of the current day is lost by any step, and midnight finds no
\* record of the new day already written.
LEMMA LiveTailStep == IInv /\ [Next]_vars => LiveTailReachable'
<1> SUFFICES ASSUME IInv, [Next]_vars  PROVE LiveTailReachable'
  OBVIOUS
<1> SUFFICES ASSUME NEW t \in acked', NEW d \in Days, d = Today', DayOf[t] = d
             PROVE  <<"live", t>> \in Range(Visible(d)')
  <2>1. TypeOK'  BY NextType DEF IInv
  <2>2. Today' \in Days  BY <2>1 DEF TypeOK, Today
  <2>3. QED  BY <2>2 DEF LiveTailReachable, Visible
<1> USE DEF IInv
<1>1. /\ TypeOK' /\ t \in Slots /\ Today \in Days
      /\ Visible(d) \in Seq(Records) /\ Visible(d)' \in Seq(Records)
  <2>1. TypeOK'  BY NextType
  <2>2. Visible(d)' \in Seq(Records)  BY <2>1 DEF TypeOK, Visible
  <2>3. QED  BY <2>1, <2>2, VisibleType DEF TypeOK, Today
<1>2. CASE t \in acked
  <2>1. t <= now /\ DayOf[t] <= Today
    BY <1>1, <1>2, MonotoneAssumption DEF AckedPast, TypeOK, Today
  <2>2. Today <= d
    <3>1. now \in Slots /\ now' \in Slots /\ now <= now'
      BY <1>1, <1>2 DEF TypeOK, Next, vars, Tick, LiveOpen, LiveStop, LiveAppend, LiveAppendHeld,
         LiveAppendReopen, LiveAppendCreate, LiveRecord, RunNew, RunSpill, RunClose, RunCrash, EndRun,
         RunAppendSame, RunRotate, RunRotateOnto, RunRotateCreate, Rotate, RunCrashRotating
    <3>2. QED  BY <3>1, MonotoneAssumption DEF Today
  <2>3. d = Today
    BY <1>1, <2>1, <2>2
  <2>4. <<"live", t>> \in Range(Visible(d))
    BY <1>2, <2>3 DEF LiveTailReachable
  <2>5. IsPrefix(Visible(d), Visible(d)')
    BY <1>1, <2>3, TailStep
  <2>6. QED  BY <1>1, <2>4, <2>5, RangeOfPrefix
<1>3. CASE t \notin acked
  <2>1. LiveAppend /\ t = now /\ now' = now
    BY <1>3 DEF Next, vars, Tick, LiveOpen, LiveStop, LiveAppend, LiveAppendHeld,
         LiveAppendReopen, LiveAppendCreate, LiveRecord, RunNew, RunSpill, RunClose, RunCrash, EndRun,
         RunAppendSame, RunRotate, RunRotateOnto, RunRotateCreate, Rotate, RunCrashRotating
  <2>2. Visible(d)' = Append(Visible(d), <<"live", now>>)
    BY <2>1, VisibleLive DEF Today
  <2>3. QED  BY <1>1, <2>1, <2>2, RangeOfAppend DEF Records
<1>4. QED  BY <1>2, <1>3

\* What a started-over day shows is what this run produced for it.
LEMMA ReplacedStep == IInv /\ [Next]_vars => ReplacedIsOwnOutput'
<1> SUFFICES ASSUME IInv, [Next]_vars  PROVE ReplacedIsOwnOutput'
  OBVIOUS
<1> USE DEF IInv
<1>1. ASSUME NEW d \in Days
      PROVE  /\ Visible(d) \in Seq(Records) /\ Pending(d) \in Seq(Records)
             /\ own[d] \in Seq(Records) /\ AfterFlush(d) = Visible(d) \o Pending(d)
  BY <1>1, VisibleType DEF AfterFlush, TypeOK
<1>2. CASE Tick \/ LiveOpen \/ LiveStop \/ UNCHANGED vars
  <2>1. UNCHANGED <<entry, content, runFd, runDay, runBuf, replaced, own>>
    BY <1>2 DEF Tick, LiveOpen, LiveStop, vars, runVars
  <2>2. QED  BY <2>1 DEF ReplacedIsOwnOutput, Visible, Pending
<1>3. CASE LiveAppend
  <2>1. replaced' = {}
    BY <1>3 DEF LiveAppend, LiveAppendHeld, LiveAppendReopen, LiveAppendCreate, LiveRecord, runVars, IdleWriters
  <2>2. QED  BY <2>1 DEF ReplacedIsOwnOutput
<1>4. CASE RunNew \/ RunClose \/ RunCrash \/ \E t \in Slots : RunCrashRotating(t)
  <2>1. replaced' = {}
    BY <1>4 DEF RunNew, RunClose, RunCrash, RunCrashRotating, EndRun
  <2>2. QED  BY <2>1 DEF ReplacedIsOwnOutput
<1>5. CASE RunSpill
  <2>1. content' = Flushed /\ runBuf' = <<>> /\ UNCHANGED <<entry, own, replaced>>
    BY <1>5 DEF RunSpill
  <2>2. ASSUME NEW d \in replaced  PROVE Visible(d)' \o Pending(d)' = own[d]
    <3>1. d \in Days  BY DEF TypeOK
    <3>2. Visible(d)' = AfterFlush(d)  BY <2>1, <3>1, VisibleFlush
    <3>3. Pending(d)' = <<>>  BY <2>1 DEF Pending
    <3>4. AfterFlush(d) = own[d]  BY <1>1, <3>1 DEF ReplacedIsOwnOutput
    <3>5. QED  BY <1>1, <3>1, <3>2, <3>3, <3>4
  <2>3. QED  BY <2>1, <2>2 DEF ReplacedIsOwnOutput
<1>6. ASSUME NEW t \in Slots, RunAppendSame(t)  PROVE ReplacedIsOwnOutput'
  <2>1. /\ runFd # NoFile /\ DayOf[t] = runDay /\ runDay \in Days
        /\ runBuf' = Append(runBuf, <<"run", t>>)
        /\ own' = [own EXCEPT ![runDay] = Append(@, <<"run", t>>)]
        /\ UNCHANGED <<entry, content, runFd, runDay, replaced>>
    BY <1>6 DEF RunAppendSame, TypeOK
  <2>2. ASSUME NEW d \in replaced  PROVE Visible(d)' \o Pending(d)' = own'[d]
    <3>1. d \in Days /\ Visible(d)' = Visible(d) /\ Visible(d) \o Pending(d) = own[d]
      BY <2>1, VisibleStill DEF TypeOK, ReplacedIsOwnOutput
    <3>2. CASE d = runDay
      <4>1. Pending(d) = runBuf /\ Pending(d)' = Append(runBuf, <<"run", t>>)
        BY <2>1, <3>2 DEF Pending
      <4>2. own'[d] = Append(own[d], <<"run", t>>)
        BY <2>1, <3>2 DEF TypeOK
      <4>3. <<"run", t>> \in Records  BY DEF Records
      <4>4. Visible(d) \in Seq(Records) /\ runBuf \in Seq(Records)
        BY <1>1, <3>1 DEF TypeOK
      <4>5. Visible(d) \o Append(runBuf, <<"run", t>>) = Append(Visible(d) \o runBuf, <<"run", t>>)
        BY <4>3, <4>4, ConcatAppend
      <4>6. QED  BY <3>1, <4>1, <4>2, <4>5
    <3>3. CASE d # runDay
      BY <2>1, <3>1, <3>3 DEF Pending, TypeOK
    <3>4. QED  BY <3>2, <3>3
  <2>3. QED  BY <2>1, <2>2 DEF ReplacedIsOwnOutput
<1>7. ASSUME NEW t \in Slots, RunRotate(t)  PROVE ReplacedIsOwnOutput'
  <2>1. Rotate(t) /\ runFd' # NoFile
    <3>1. Rotate(t)  BY <1>7 DEF RunRotate, RunRotateOnto, RunRotateCreate
    <3>2. CASE RunRotateOnto(t)  BY <3>1, <3>2 DEF RunRotateOnto
    <3>3. CASE RunRotateCreate(t)
      BY <3>1, <3>3 DEF RunRotateCreate
    <3>4. QED  BY <1>7, <3>1, <3>2, <3>3 DEF RunRotate
  <2>2. /\ runDay' = DayOf[t] /\ runBuf' = <<<<"run", t>>>> /\ DayOf[t] \in Days
        /\ own' = [own EXCEPT ![DayOf[t]] = Append(@, <<"run", t>>)]
        /\ replaced' = IF StartsOver(DayOf[t]) THEN replaced \cup {DayOf[t]} ELSE replaced
        /\ NeedRotate(t)
    BY <2>1 DEF Rotate
  <2>3. ASSUME NEW d \in replaced'  PROVE Visible(d)' \o Pending(d)' = own'[d]
    <3>1. d \in Days
      BY <2>2 DEF TypeOK
    <3>2. CASE d = DayOf[t] /\ StartsOver(d)
      <4>1. Visible(d)' = <<>>  BY <1>7, <3>1, <3>2, VisibleRotate
      <4>2. Pending(d)' = <<<<"run", t>>>>  BY <2>1, <2>2, <3>2 DEF Pending
      <4>3. own'[d] = <<<<"run", t>>>>
        <5>1. own[d] = <<>>  BY <3>1, <3>2 DEF OwnTouched, StartsOver
        <5>2. own'[d] = Append(own[d], <<"run", t>>)  BY <2>2, <3>1, <3>2 DEF TypeOK
        <5>3. QED  BY <5>1, <5>2
      <4>4. QED  BY <4>1, <4>2, <4>3
    <3>3. CASE ~(d = DayOf[t] /\ StartsOver(d))
      <4>1. d \in replaced /\ Visible(d)' = AfterFlush(d) /\ AfterFlush(d) = own[d]
        BY <1>1, <1>7, <2>2, <3>1, <3>3, VisibleRotate DEF ReplacedIsOwnOutput
      <4>2. CASE d = DayOf[t]
        <5>1. Pending(d)' = <<<<"run", t>>>> /\ own'[d] = Append(own[d], <<"run", t>>)
          BY <2>1, <2>2, <3>1, <4>2 DEF Pending, TypeOK
        <5>2. own[d] \in Seq(Records) /\ <<"run", t>> \in Records
          BY <1>1, <3>1 DEF Records
        <5>3. QED  BY <4>1, <5>1, <5>2
      <4>3. CASE d # DayOf[t]
        <5>1. Pending(d)' = <<>> /\ own'[d] = own[d]
          BY <2>2, <3>1, <4>3 DEF Pending, TypeOK
        <5>2. QED  BY <1>1, <3>1, <4>1, <5>1
      <4>4. QED  BY <4>2, <4>3
    <3>4. QED  BY <3>2, <3>3
  <2>4. QED  BY <2>3 DEF ReplacedIsOwnOutput
<1>8. QED  BY <1>2, <1>3, <1>4, <1>5, <1>6, <1>7 DEF Next

LEMMA InitInv == Init => IInv
<1> SUFFICES ASSUME Init  PROVE IInv
  OBVIOUS
<1>1. TypeOK  BY InitType
<1>2. QED  BY <1>1 DEF Init, IInv, FilesNotShared, IdleWriters, OwnTouched, AckedPast, NoOrphanFd,
                     LiveTailReachable, ReplacedIsOwnOutput, NothingYet

THEOREM Inductive == Spec => []IInv
<1>1. IInv /\ [Next]_vars => IInv'
  BY NextType, FileInvStep, PastStep, LiveTailStep, ReplacedStep DEF IInv, FileInv
<1>2. QED  BY <1>1, InitInv, PTL DEF Spec

\* No record the live aggregator has written on the current UTC day is ever
\* missing from that day's shard (sharding.rs:79-87, :139-145).
THEOREM LiveTailSafe == Spec => []LiveTailReachable
<1>1. IInv => LiveTailReachable  BY DEF IInv
<1>2. QED  BY <1>1, Inductive, PTL

\* A rerun converges: a closed day started over shows exactly the run's own
\* records (sharding.rs:66-73, :136-137).
THEOREM RerunConverges == Spec => []ReplacedIsOwnOutput
<1>1. IInv => ReplacedIsOwnOutput  BY DEF IInv
<1>2. QED  BY <1>1, Inductive, PTL

\* Neither writer ever holds a descriptor to an unlinked shard.
THEOREM NoOrphan == Spec => []NoOrphanFd
<1>1. IInv => NoOrphanFd  BY DEF IInv
<1>2. QED  BY <1>1, Inductive, PTL

\* The shard of the current day is never unlinked or rewritten.
THEOREM TailOnlyGrows == Spec => TailAppendOnly
<1>1. IInv /\ [Next]_vars => [\A d \in Days : d >= Today => IsPrefix(Visible(d), Visible(d)')]_vars
  BY TailStep
<1>2. QED  BY <1>1, Inductive, PTL DEF Spec, TailAppendOnly

-----------------------------------------------------------------------------
(* The files-and-locks model implements the abstract log of a day.         *)

LEMMA AbstractInit == Init => Abstract!Init
  BY DEF Init, Abstract!Init, Visible

LEMMA AbstractStep == IInv /\ [Next]_vars => [Abstract!Next]_(Abstract!vars)
<1> SUFFICES ASSUME IInv, [Next]_vars  PROVE [Abstract!Next]_(Abstract!vars)
  OBVIOUS
<1> USE DEF IInv
<1> DEFINE log == [d \in Days |-> Visible(d)]
<1>1. /\ \A d \in Days : Visible(d) \in Seq(Records) /\ Pending(d) \in Seq(Records)
      /\ Today \in Days
  BY VisibleType DEF TypeOK, Today
<1>2. CASE Tick
  <2>1. now' = now + 1 /\ now' \in Slots /\ now' > now /\ UNCHANGED <<entry, content, lock, replaced>>
    BY <1>2 DEF Tick, runVars, TypeOK
  <2>2. log' = log  BY <2>1 DEF Visible
  <2>3. Abstract!Advance  BY <2>1, <2>2 DEF Abstract!Advance
  <2>4. QED  BY <2>3 DEF Abstract!Next
<1>3. CASE LiveOpen
  <2>1. lock = "none" /\ lock' = "live" /\ UNCHANGED <<now, entry, content, replaced>> /\ replaced = {}
    BY <1>3 DEF LiveOpen, runVars, IdleWriters
  <2>2. log' = log  BY <2>1 DEF Visible
  <2>3. Abstract!Acquire("live")  BY <2>1, <2>2 DEF Abstract!Acquire
  <2>4. QED  BY <2>3 DEF Abstract!Next
<1>4. CASE LiveStop
  <2>1. lock' = "none" /\ UNCHANGED <<now, entry, content, replaced>> /\ replaced = {}
    BY <1>4 DEF LiveStop, runVars, IdleWriters
  <2>2. log' = log  BY <2>1 DEF Visible
  <2>3. Abstract!Release  BY <2>1, <2>2 DEF Abstract!Release
  <2>4. QED  BY <2>3 DEF Abstract!Next
<1>5. CASE RunNew
  <2>1. lock = "none" /\ lock' = "run" /\ UNCHANGED <<now, entry, content>> /\ replaced' = {}
    BY <1>5 DEF RunNew
  <2>2. log' = log  BY <2>1 DEF Visible
  <2>3. Abstract!Acquire("run")  BY <2>1, <2>2 DEF Abstract!Acquire
  <2>4. QED  BY <2>3 DEF Abstract!Next
<1>6. CASE RunCrash
  <2>1. lock' = "none" /\ UNCHANGED <<now, entry, content>> /\ replaced' = {}
    BY <1>6 DEF RunCrash, EndRun
  <2>2. log' = log  BY <2>1 DEF Visible
  <2>3. Abstract!Release  BY <2>1, <2>2 DEF Abstract!Release
  <2>4. QED  BY <2>3 DEF Abstract!Next
<1>7. CASE UNCHANGED vars \/ \E t \in Slots : RunAppendSame(t)
  <2>1. UNCHANGED <<now, entry, content, lock, replaced>>
    BY <1>7 DEF RunAppendSame, vars, runVars
  <2>2. log' = log  BY <2>1 DEF Visible
  <2>3. QED  BY <2>1, <2>2 DEF Abstract!vars
<1>8. CASE LiveAppend
  <2>1. lock = "live" /\ UNCHANGED <<now, lock, replaced>>
    BY <1>8 DEF LiveAppend, LiveAppendHeld, LiveAppendReopen, LiveAppendCreate, LiveRecord, runVars
  <2>2. <<"live", now>> \in Records  BY DEF Records, TypeOK
  <2>3. \A d \in Days : Visible(d)' = IF d = Today THEN Append(Visible(d), <<"live", now>>) ELSE Visible(d)
    BY <1>8, VisibleLive
  <2>4. log' = [log EXCEPT ![Today] = Append(@, <<"live", now>>)]
    BY <1>1, <2>3
  <2>5. Abstract!Today = Today  BY DEF Abstract!Today, Today
  <2>6. Abstract!LiveAppend  BY <2>1, <2>2, <2>4, <2>5 DEF Abstract!LiveAppend
  <2>7. QED  BY <2>6 DEF Abstract!Next
<1>9. \A d \in Days : /\ IsPrefix(Visible(d), AfterFlush(d)) /\ AfterFlush(d) \in Seq(Records)
                      /\ d # runDay => AfterFlush(d) = Visible(d)
  <2> SUFFICES ASSUME NEW d \in Days
               PROVE  /\ IsPrefix(Visible(d), AfterFlush(d)) /\ AfterFlush(d) \in Seq(Records)
                      /\ d # runDay => AfterFlush(d) = Visible(d)
    OBVIOUS
  <2>1. Visible(d) \in Seq(Records) /\ Pending(d) \in Seq(Records)  BY <1>1
  <2>2. IsPrefix(Visible(d), AfterFlush(d)) /\ AfterFlush(d) \in Seq(Records)
    BY <2>1, ConcatIsPrefix DEF AfterFlush
  <2>3. d # runDay => AfterFlush(d) = Visible(d)
    BY <2>1 DEF AfterFlush, Pending
  <2>4. QED  BY <2>2, <2>3
<1>10. CASE RunSpill \/ RunClose
  <2>1. /\ lock = "run" /\ lock' \in {"run", "none"} /\ now' = now
        /\ content' = Flushed /\ UNCHANGED entry
        /\ replaced' = IF lock' = "run" THEN replaced ELSE {}
    BY <1>10 DEF RunSpill, RunClose, EndRun
  <2>2. \A d \in Days : Visible(d)' = AfterFlush(d)
    BY <2>1, VisibleFlush
  <2>3. log' \in [Days -> Seq(Records)]  BY <1>9, <2>2
  <2>4. runDay \in Days  BY DEF TypeOK
  <2>5. /\ IsPrefix(log[runDay], log'[runDay])
        /\ \A e \in Days \ ({} \cup {runDay}) : log'[e] = log[e]
    BY <1>9, <2>2, <2>4
  <2> HIDE DEF log
  <2>6. /\ {} \in SUBSET (Abstract!ClosedDays \ replaced)
        /\ \A e \in {} : log'[e] = <<>>
        /\ runDay \notin {} => Abstract!IsPrefix(log[runDay], log'[runDay])
        /\ replaced' = IF lock' = "run" THEN replaced \cup {} ELSE {}
    BY <2>1, <2>5 DEF IsPrefix, Abstract!IsPrefix
  <2>7. lock = "run" /\ lock' \in {"run", "none"} /\ now' = now  BY <2>1
  <2> HIDE DEF IInv
  <2>8. \E over \in SUBSET (Abstract!ClosedDays \ replaced), d \in Days :
          /\ \A e \in over : log'[e] = <<>>
          /\ d \notin over => Abstract!IsPrefix(log[d], log'[d])
          /\ \A e \in Days \ (over \cup {d}) : log'[e] = log[e]
          /\ replaced' = IF lock' = "run" THEN replaced \cup over ELSE {}
    BY <2>4, <2>5, <2>6
  <2>9. Abstract!OfflineWrite  BY <2>3, <2>7, <2>8 DEF Abstract!OfflineWrite, log
  <2>10. QED  BY <2>9 DEF Abstract!Next
<1>11. ASSUME NEW t \in Slots, RunRotate(t) \/ RunCrashRotating(t)
       PROVE  Abstract!OfflineWrite
  <2> DEFINE over == IF StartsOver(DayOf[t]) THEN {DayOf[t]} ELSE {}
  <2>1. lock = "run" /\ lock' \in {"run", "none"} /\ now' = now
    BY <1>11 DEF RunRotate, RunRotateOnto, RunRotateCreate, Rotate, RunCrashRotating, EndRun, MayEmit
  <2>2. replaced' = IF lock' = "run" THEN replaced \cup over ELSE {}
    BY <1>11, <2>1 DEF RunRotate, RunRotateOnto, RunRotateCreate, Rotate, RunCrashRotating, EndRun
  <2>3. \A d \in Days : Visible(d)' = IF d \in over THEN <<>> ELSE AfterFlush(d)
    BY <1>11, VisibleRotate
  <2>4. over \in SUBSET (Abstract!ClosedDays \ replaced) /\ runDay \in Days
    <3>1. DayOf[t] \in Days  OBVIOUS
    <3>2. StartsOver(DayOf[t]) => DayOf[t] < Today /\ DayOf[t] \notin replaced
      BY DEF StartsOver, OwnTouched
    <3>3. QED  BY <3>1, <3>2 DEF Abstract!ClosedDays, Abstract!Today, Today, TypeOK
  <2>5. log' \in [Days -> Seq(Records)]
    <3>1. \A d \in Days : Visible(d)' \in Seq(Records)
      <4> SUFFICES ASSUME NEW d \in Days  PROVE Visible(d)' \in Seq(Records)
        OBVIOUS
      <4>1. CASE d \in over
        <5>1. Visible(d)' = <<>>  BY <2>3, <4>1
        <5>2. <<>> \in Seq(Records)  OBVIOUS
        <5>3. QED  BY <5>1, <5>2
      <4>2. CASE d \notin over
        <5>1. Visible(d)' = AfterFlush(d)  BY <2>3, <4>2
        <5>2. QED  BY <1>9, <5>1
      <4>3. QED  BY <4>1, <4>2
    <3> HIDE DEF over
    <3>2. QED  BY <3>1
  <2>6. /\ \A e \in over : log'[e] = <<>>
        /\ runDay \notin over => IsPrefix(log[runDay], log'[runDay])
        /\ \A e \in Days \ (over \cup {runDay}) : log'[e] = log[e]
    BY <1>9, <2>3, <2>4 DEF Abstract!ClosedDays
  <2> HIDE DEF over, log, IInv
  <2>7. \E ov \in SUBSET (Abstract!ClosedDays \ replaced), d \in Days :
          /\ \A e \in ov : log'[e] = <<>>
          /\ d \notin ov => Abstract!IsPrefix(log[d], log'[d])
          /\ \A e \in Days \ (ov \cup {d}) : log'[e] = log[e]
          /\ replaced' = IF lock' = "run" THEN replaced \cup ov ELSE {}
    BY <2>2, <2>4, <2>6 DEF IsPrefix, Abstract!IsPrefix
  <2>8. QED  BY <2>1, <2>5, <2>7 DEF Abstract!OfflineWrite, log
<1>12. QED
  BY <1>2, <1>3, <1>4, <1>5, <1>6, <1>7, <1>8, <1>10, <1>11 DEF Next, Abstract!Next

\* The shard directory implements one append-only log per day with a single
\* owner: what DayLog promises a reader holds of the files.
THEOREM Refinement == Spec => ImplementsDayLog
  BY AbstractInit, AbstractStep, Inductive, PTL DEF Spec, ImplementsDayLog, Abstract!Spec
=============================================================================
