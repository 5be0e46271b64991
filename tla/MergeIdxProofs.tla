---------------------------- MODULE MergeIdxProofs ----------------------------
(***************************************************************************)
(* Theorems about MergeIdx, for any number of sources, any logs (in order  *)
(* or not), any cycle and any pattern of read errors and crashes.          *)
(***************************************************************************)
EXTENDS MergeIdx, SequenceTheorems, WellFoundedInduction, TLAPS

-----------------------------------------------------------------------------
(* Least and greatest elements; stretches of a sequence; quotients.         *)

Lt == {ss \in Nat \X Nat : ss[1] < ss[2]}

LEMMA LeastNat ==
  ASSUME NEW T, T \subseteq Nat, T # {}
  PROVE  \E n \in T : \A m \in T : n <= m
<1>1. IsWellFoundedOn(Lt, Nat)  BY NatLessThanWellFounded DEF OpToRel, Lt
<1>2. PICK n \in T : \A m \in T : ~ (<<m, n>> \in Lt)  BY <1>1, WFMin
<1>3. \A m \in T : n <= m
  <2> TAKE m \in T
  <2>1. m \in Nat /\ n \in Nat  OBVIOUS
  <2>2. m < n => <<m, n>> \in Lt  BY <2>1 DEF Lt
  <2>3. QED  BY <1>2, <2>1, <2>2
<1>4. QED  BY <1>3

\* Min and Max are what they say on sets of integers with a bound.
LEMMA MinBounded ==
  ASSUME NEW S, S \subseteq Int, S # {}, NEW b \in Int, \A s \in S : b <= s
  PROVE  Min(S) \in S /\ \A s \in S : Min(S) <= s
<1> DEFINE T == {s - b : s \in S}
<1>1. T \subseteq Nat /\ T # {}
  <2>1. \A s \in S : s - b \in Nat  OBVIOUS
  <2>2. QED  BY <2>1
<1>2. PICK n \in T : \A m \in T : n <= m  BY <1>1, LeastNat
<1>3. PICK s \in S : n = s - b  BY <1>2
<1>4. \A r \in S : s <= r
  <2> TAKE r \in S
  <2>1. s - b <= r - b  BY <1>2, <1>3
  <2>2. QED  BY <2>1
<1>5. \E x \in S : \A y \in S : x <= y  BY <1>4
<1>6. QED  BY <1>5 DEF Min

LEMMA MaxBounded ==
  ASSUME NEW S, S \subseteq Int, S # {}, NEW b \in Int, \A s \in S : s <= b
  PROVE  Max(S) \in S /\ \A s \in S : s <= Max(S)
<1> DEFINE T == {b - s : s \in S}
<1>1. T \subseteq Nat /\ T # {}
  <2>1. \A s \in S : b - s \in Nat  OBVIOUS
  <2>2. QED  BY <2>1
<1>2. PICK n \in T : \A m \in T : n <= m  BY <1>1, LeastNat
<1>3. PICK s \in S : n = b - s  BY <1>2
<1>4. \A r \in S : r <= s
  <2> TAKE r \in S
  <2>1. b - s <= b - r  BY <1>2, <1>3
  <2>2. QED  BY <2>1
<1>5. \E x \in S : \A y \in S : x >= y  BY <1>4
<1>6. QED  BY <1>5 DEF Max

LEMMA MinNatural ==
  ASSUME NEW S, S \subseteq Nat, S # {}
  PROVE  Min(S) \in S /\ \A s \in S : Min(S) <= s
<1>1. S \subseteq Int /\ 0 \in Int /\ \A s \in S : 0 <= s  OBVIOUS
<1>2. QED  BY <1>1, MinBounded

\* Among the positions of a sequence there is a first and a last one.
LEMMA Extremes ==
  ASSUME NEW n \in Nat, NEW S, S \subseteq 1..n, S # {}
  PROVE  /\ Min(S) \in S /\ Max(S) \in S
         /\ \A k \in S : Min(S) <= k /\ k <= Max(S)
<1>1. S \subseteq Int /\ 1 \in Int /\ n \in Int /\ \A k \in S : 1 <= k /\ k <= n
  OBVIOUS
<1>2. Min(S) \in S /\ \A k \in S : Min(S) <= k  BY <1>1, MinBounded
<1>3. Max(S) \in S /\ \A k \in S : k <= Max(S)  BY <1>1, MaxBounded
<1>4. QED  BY <1>2, <1>3

\* A stretch that reaches to the end grows with the sequence, and one that does
\* not is left alone.
LEMMA StretchGrows ==
  ASSUME NEW S, NEW s \in Seq(S), NEW c \in S, NEW m \in 1..(Len(s) + 1)
  PROVE  SubSeq(Append(s, c), m, Len(s) + 1) = Append(SubSeq(s, m, Len(s)), c)
<1> DEFINE a == SubSeq(Append(s, c), m, Len(s) + 1)
           b == Append(SubSeq(s, m, Len(s)), c)
<1>1. a \in Seq(S) /\ b \in Seq(S)  OBVIOUS
<1>2. Len(a) = Len(s) + 2 - m /\ Len(b) = Len(s) + 2 - m  OBVIOUS
<1>3. \A i \in 1..(Len(s) + 2 - m) : a[i] = b[i]
  <2> TAKE i \in 1..(Len(s) + 2 - m)
  <2>1. a[i] = Append(s, c)[m + i - 1]  OBVIOUS
  <2>2. CASE i = Len(s) + 2 - m  BY <2>1, <2>2
  <2>3. CASE i \in 1..(Len(s) + 1 - m)  BY <2>1, <2>3
  <2>4. QED  BY <2>2, <2>3
<1> HIDE DEF a, b
<1>4. a = b  BY <1>1, <1>2, <1>3, SeqEqual
<1>5. QED  BY <1>4 DEF a, b

LEMMA OneLong ==
  ASSUME NEW S, NEW s \in Seq(S), NEW i \in 1..Len(s)
  PROVE  SubSeq(s, i, i) = <<s[i]>>
<1> DEFINE a == SubSeq(s, i, i)
           b == <<s[i]>>
<1>1. a \in Seq(S) /\ b \in Seq(S) /\ Len(a) = 1 /\ Len(b) = 1  OBVIOUS
<1>2. \A k \in 1..1 : a[k] = b[k]  OBVIOUS
<1> HIDE DEF a, b
<1>3. a = b  BY <1>1, <1>2, SeqEqual
<1>4. QED  BY <1>3 DEF a, b

LEMMA StretchStays ==
  ASSUME NEW S, NEW s \in Seq(S), NEW c \in S,
         NEW m \in 1..Len(s), NEW n \in 1..Len(s), m <= n
  PROVE  SubSeq(Append(s, c), m, n) = SubSeq(s, m, n)
<1> DEFINE a == SubSeq(Append(s, c), m, n)
           b == SubSeq(s, m, n)
<1>1. a \in Seq(S) /\ b \in Seq(S)  OBVIOUS
<1>2. Len(a) = n + 1 - m /\ Len(b) = n + 1 - m  OBVIOUS
<1>3. \A i \in 1..(n + 1 - m) : a[i] = b[i]  OBVIOUS
<1> HIDE DEF a, b
<1>4. a = b  BY <1>1, <1>2, <1>3, SeqEqual
<1>5. QED  BY <1>4 DEF a, b

\* What a sequence holds after one more element.
LEMMA AppendRange ==
  ASSUME NEW S, NEW s \in Seq(S), NEW c \in S
  PROVE  Range(Append(s, c)) = Range(s) \cup {c}
<1>1. /\ DOMAIN s = 1..Len(s) /\ Len(s) \in Nat
      /\ DOMAIN Append(s, c) = 1..(Len(s) + 1)
      /\ \A k \in 1..Len(s) : Append(s, c)[k] = s[k]
      /\ Append(s, c)[Len(s) + 1] = c
  OBVIOUS
<1>2. \A k : k \in 1..(Len(s) + 1) <=> k \in 1..Len(s) \/ k = Len(s) + 1  BY <1>1
<1> DEFINE t == Append(s, c)
           n == Len(s)
<1> HIDE DEF t, n
<1>3. \A x : x \in Range(t) <=> x \in Range(s) \/ x = c
  BY <1>1, <1>2 DEF Range, t, n
<1>4. Range(t) = Range(s) \cup {c}  BY <1>3
<1>5. QED  BY <1>4 DEF t

\* The arithmetic of the two grids, cycles and days.
LEMMA ProductMonotone ==
  ASSUME NEW c \in Nat, NEW a \in Int, NEW b \in Int, a <= b
  PROVE  c * a <= c * b
  OBVIOUS

LEMMA Quotient ==
  ASSUME NEW x \in Nat, NEW c \in Nat \ {0}
  PROVE  x \div c \in Nat /\ c * (x \div c) <= x /\ x < c * (x \div c) + c
  OBVIOUS

LEMMA QuotientUnique ==
  ASSUME NEW x \in Nat, NEW c \in Nat \ {0}, NEW k \in Nat,
         c * k <= x, x < c * k + c
  PROVE  x \div c = k
<1> DEFINE q == x \div c
<1>1. q \in Nat /\ c * q <= x /\ x < c * q + c  BY Quotient
<1> HIDE DEF q
<1>2. ASSUME q + 1 <= k PROVE FALSE
  <2>1. c * (q + 1) <= c * k  BY <1>1, <1>2, ProductMonotone
  <2>2. c * (q + 1) = c * q + c  BY <1>1
  <2>3. c * q \in Nat /\ c * k \in Nat  BY <1>1
  <2>4. QED  BY <1>1, <2>1, <2>2, <2>3
<1>3. ASSUME k + 1 <= q PROVE FALSE
  <2>1. c * (k + 1) <= c * q  BY <1>1, <1>3, ProductMonotone
  <2>2. c * (k + 1) = c * k + c  OBVIOUS
  <2>3. c * q \in Nat /\ c * k \in Nat  BY <1>1
  <2>4. QED  BY <1>1, <2>1, <2>2, <2>3
<1>4. q = k  BY <1>1, <1>2, <1>3
<1>5. QED  BY <1>4 DEF q

\* Where the cycle of a time ends on a grid that starts at f: at the next point
\* for a time of the last cycle, at an earlier one for an earlier time.
LEMMA GridLast ==
  ASSUME NEW c \in Nat \ {0}, NEW f \in Nat, NEW k \in Nat, NEW t \in Nat,
         f + c * k <= t, t < f + c * (k + 1)
  PROVE  f + c * ((t - f) \div c + 1) = f + c * (k + 1)
<1>1. c * k \in Nat /\ c * (k + 1) = c * k + c  OBVIOUS
<1>2. t - f \in Nat /\ c * k <= t - f /\ t - f < c * k + c  BY <1>1
<1>3. (t - f) \div c = k  BY <1>2, QuotientUnique
<1>4. QED  BY <1>3

LEMMA GridStep ==
  ASSUME NEW c \in Nat \ {0}, NEW f \in Nat, NEW k \in Nat
  PROVE  /\ (f + c * (k + 1)) + c = f + c * ((k + 1) + 1)
         /\ (f + c * (k + 1)) - c = f + c * k
<1>1. c * k \in Nat /\ c * (k + 1) = c * k + c /\ c * ((k + 1) + 1) = c * (k + 1) + c
  OBVIOUS
<1>2. QED  BY <1>1

LEMMA GridEarlier ==
  ASSUME NEW c \in Nat \ {0}, NEW f \in Nat, NEW k \in Nat, NEW t \in Nat,
         f <= t, t < f + c * k
  PROVE  /\ f + c * ((t - f) \div c + 1) \in Nat
         /\ f + c * ((t - f) \div c + 1) <= f + c * k
<1> DEFINE q == (t - f) \div c
<1>1. t - f \in Nat /\ c * k \in Nat  OBVIOUS
<1>2. q \in Nat /\ c * q <= t - f  BY <1>1, Quotient
<1> HIDE DEF q
<1>3. c * q \in Nat /\ c * (q + 1) \in Nat  BY <1>2
<1>4. ASSUME k <= q PROVE FALSE
  <2>1. c * k <= c * q  BY <1>2, <1>4, ProductMonotone
  <2>2. QED  BY <1>1, <1>2, <1>3, <2>1
<1>5. q + 1 <= k  BY <1>2, <1>4
<1>6. c * (q + 1) <= c * k  BY <1>2, <1>5, ProductMonotone
<1>7. f + c * (q + 1) \in Nat /\ f + c * (q + 1) <= f + c * k  BY <1>1, <1>3, <1>6
<1>8. QED  BY <1>7 DEF q

-----------------------------------------------------------------------------
USE SourcesAssumption, LogsAssumption, CycleAssumption, StaleAssumption,
    SeedsAssumption, NoneAssumption, BoundsAssumption

-----------------------------------------------------------------------------
(* Types. *)

LEMMA CompositeType ==
  ASSUME TypeOK, NEW at \in Nat
  PROVE  /\ Composite(at) \in Composites
         /\ Composite(at).at = at
         /\ Composite(at).of = Slots(at)
<1>1. Slots(at) \subseteq Sources \X Nat
  BY DEF TypeOK, Slots
<1>2. QED  BY <1>1 DEF Composite, Composites

\* A tree of shards stays one when a record is added to a day.
LEMMA RoutedType ==
  ASSUME TypeOK, NEW at \in Nat
  PROVE  LET t == Routed(Composite(at)) IN
         /\ DOMAIN t = DOMAIN shards \cup {DayOf(at)}
         /\ DOMAIN t \subseteq Nat
         /\ t \in [DOMAIN t -> Seq(Composites)]
<1> DEFINE c == Composite(at)
           d == DayOf(at)
           old == IF d \in DOMAIN shards /\ (d \in touched \/ d >= Today)
                  THEN shards[d] ELSE <<>>
           t == [e \in DOMAIN shards \cup {d} |-> IF e = d THEN Append(old, c) ELSE shards[e]]
<1>1. c \in Composites /\ c.at = at
  BY CompositeType
<1>2. d \in Nat
  BY DEF DayOf
<1>3. old \in Seq(Composites)
  BY DEF TypeOK
<1>4. Append(old, c) \in Seq(Composites)
  BY <1>1, <1>3
<1>5. \A e \in DOMAIN shards : shards[e] \in Seq(Composites)
  BY DEF TypeOK
<1>6. t \in [DOMAIN shards \cup {d} -> Seq(Composites)]
  BY <1>4, <1>5
<1>7. Routed(c) = t
  BY <1>1 DEF Routed
<1>8. DOMAIN shards \subseteq Nat
  BY DEF TypeOK
<1> HIDE DEF c, d, t
<1>9. QED  BY <1>2, <1>6, <1>7, <1>8 DEF c, d

\* What Emit leaves behind, whether there is something to blend or not.
LEMMA EmitType ==
  ASSUME TypeOK, NEW at, dirty => at \in Nat, Emit(at)
  PROVE  /\ shards' \in [DOMAIN shards' -> Seq(Composites)]
         /\ DOMAIN shards' \subseteq Nat
         /\ touched' \subseteq DOMAIN shards'
         /\ emitted' \in Seq(Composites)
<1>1. CASE dirty /\ Slots(at) # {}
  <2>1. /\ shards' = Routed(Composite(at))
        /\ touched' = touched \cup {DayOf(at)}
        /\ emitted' = Append(emitted, Composite(at))
    BY <1>1 DEF Emit
  <2>0. at \in Nat
    BY <1>1
  <2>2. emitted' \in Seq(Composites)
    BY <2>0, <2>1, CompositeType DEF TypeOK
  <2>3. touched \subseteq DOMAIN shards
    BY DEF TypeOK
  <2>4. QED  BY <2>0, <2>1, <2>2, <2>3, RoutedType
<1>2. CASE ~(dirty /\ Slots(at) # {})
  BY <1>2 DEF Emit, TypeOK
<1>3. QED  BY <1>1, <1>2

\* A boundary is a number once anything was popped.
Anchored == next = None => ~dirty

\* A run that has read nothing.
LEMMA ResetType ==
  ASSUME log \in [Sources -> Seq(Times)]
  PROVE  /\ NoneRead \in [Sources -> Nat]
         /\ \A s \in Sources : NoneRead[s] = 0 /\ NoneRead[s] <= Len(log[s])
<1>1. \A s \in Sources : Len(log[s]) \in Nat
  OBVIOUS
<1>2. QED  BY <1>1 DEF NoneRead

\* What the log of a source and the history hold.
LEMMA TimeType ==
  ASSUME TypeOK
  PROVE  \A s \in Sources : \A i \in 1..Len(log[s]) : log[s][i] \in Nat
<1>1. \A s \in Sources : log[s] \in Seq(Times)
  BY DEF TypeOK
<1>2. \A s \in Sources : \A i \in 1..Len(log[s]) : log[s][i] \in Times
  BY <1>1
<1>3. QED  BY <1>2

LEMMA EmittedType ==
  ASSUME TypeOK
  PROVE  \A k \in DOMAIN emitted : emitted[k].at \in Nat
<1>1. \A k \in DOMAIN emitted : emitted[k] \in Composites
  BY DEF TypeOK
<1>2. QED  BY <1>1 DEF Composites

LEMMA InitType == Init => TypeOK /\ Anchored
<1> SUFFICES ASSUME Init PROVE TypeOK /\ Anchored
  OBVIOUS
<1>1. DOMAIN shards \subseteq Nat /\ shards \in [DOMAIN shards -> Seq(Composites)]
  BY SeedsAssumption DEF Init
<1>3. manifest \in [DOMAIN manifest -> Nat]
  <2>1. \A d \in DOMAIN shards : Len(shards[d]) \in Nat
    BY <1>1
  <2>2. QED  BY <2>1 DEF Init, Counted
<1>4. log \in [Sources -> Seq(Times)]
  BY DEF Init
<1>5. pos \in [Sources -> Nat] /\ \A s \in Sources : pos[s] <= Len(log[s])
  BY <1>4, ResetType DEF Init
<1>7. emitted \in Seq(Composites)
  BY DEF Init
<1>6. runs \in 0..MaxRuns
  BY BoundsAssumption, SMT DEF Init
<1>8. /\ pc \in {"idle", "merging", "closing", "closed"}
      /\ next \in Nat \cup {None} /\ dirty \in BOOLEAN
  BY DEF Init
<1>9. /\ open \subseteq Sources /\ lost \subseteq open
      /\ touched \subseteq DOMAIN shards
  BY DEF Init
<1>10. Anchored
  BY DEF Init, Anchored
<1>11. QED  BY <1>1, <1>3, <1>4, <1>5, <1>6, <1>7, <1>8, <1>9, <1>10 DEF TypeOK

LEMMA TakeType ==
  ASSUME TypeOK, NEW s \in Sources, Take(s)
  PROVE  TypeOK' /\ Anchored'
<1>1. /\ pos[s] \in Nat /\ pos[s] + 1 <= Len(log[s])
      /\ Len(log[s]) \in Nat /\ log[s] \in Seq(Times)
      /\ s \in open
  BY DEF TypeOK, Take, IsTop, Pending
<1>2. HeadTime(s) \in Nat
  <2>1. pos[s] + 1 \in 1..Len(log[s])
    BY <1>1
  <2>2. QED  BY <2>1, TimeType DEF HeadTime
<1>3. next' \in Nat
  BY <1>2 DEF Take, Boundary, TypeOK
<1>4. /\ pos' \in [Sources -> Nat]
      /\ \A t \in Sources : pos'[t] <= Len(log[t])
  BY <1>1 DEF Take, TypeOK
<1>5. lost' \subseteq open
  BY <1>1 DEF Take, TypeOK
<1>6. /\ dirty' = TRUE /\ log' = log /\ shards' = shards /\ manifest' = manifest
      /\ runs' = runs /\ pc' = pc /\ open' = open /\ touched' = touched
      /\ emitted' = emitted
  BY DEF Take, disk
<1>7. QED  BY <1>3, <1>4, <1>5, <1>6 DEF TypeOK, Anchored

LEMMA EmitStepType ==
  ASSUME TypeOK, Anchored, CloseCycle \/ Flush
  PROVE  TypeOK' /\ Anchored'
<1>1. Emit(next)
  BY DEF CloseCycle, Flush
<1>2. dirty => next \in Nat
  BY DEF TypeOK, Anchored
<1>3. /\ shards' \in [DOMAIN shards' -> Seq(Composites)]
      /\ DOMAIN shards' \subseteq Nat
      /\ touched' \subseteq DOMAIN shards'
      /\ emitted' \in Seq(Composites)
  BY <1>1, <1>2, EmitType
<1>4. /\ log' = log /\ manifest' = manifest /\ runs' = runs
      /\ open' = open /\ lost' = lost /\ pos' = pos
  BY DEF CloseCycle, Flush
<1>5. pc' \in {"merging", "closing"}
  BY DEF CloseCycle, Flush
<1>6. /\ next' \in Nat \cup {None} /\ dirty' \in BOOLEAN
      /\ next' = None => ~dirty'
  <2>1. CASE CloseCycle
    <3>1. next # None
      BY <2>1 DEF CloseCycle, Due
    <3>2. next \in Nat
      BY <3>1 DEF TypeOK
    <3>3. next' \in Nat /\ dirty' = FALSE
      BY <2>1, <3>2 DEF CloseCycle
    <3>4. QED  BY <3>3
  <2>2. CASE Flush
    BY <2>2 DEF Flush, TypeOK, Anchored
  <2>3. QED  BY <2>1, <2>2
<1>7. QED  BY <1>3, <1>4, <1>5, <1>6 DEF TypeOK, Anchored

LEMMA CrashType ==
  ASSUME TypeOK, Crash
  PROVE  TypeOK' /\ Anchored'
<1>1. /\ shards' \in [DOMAIN shards' -> Seq(Composites)]
      /\ DOMAIN shards' \subseteq Nat
  <2>1. CASE shards' = shards
    BY <2>1 DEF TypeOK
  <2>2. CASE shards' # shards
    <3> DEFINE d == DayOf(Last(emitted).at)
    <3>1. PICK n \in 0..Len(shards[d]) :
            shards' = [shards EXCEPT ![d] = SubSeq(@, 1, Len(@) - n)]
      BY <2>2 DEF Crash
    <3>2. d \in DOMAIN shards
      BY <2>2, <3>1 DEF TypeOK
    <3>3. shards[d] \in Seq(Composites)
      BY <3>2 DEF TypeOK
    <3>4. SubSeq(shards[d], 1, Len(shards[d]) - n) \in Seq(Composites)
      BY <3>3
    <3> HIDE DEF d
    <3>5. QED  BY <3>1, <3>2, <3>4 DEF TypeOK
  <2>3. QED  BY <2>1, <2>2
<1>2. log' = log /\ log \in [Sources -> Seq(Times)]
  BY DEF Crash, TypeOK
<1>3. pos' \in [Sources -> Nat] /\ \A s \in Sources : pos'[s] <= Len(log[s])
  BY <1>2, ResetType DEF Crash
<1>4. emitted' \in Seq(Composites)
  BY DEF Crash
<1>5. QED  BY <1>1, <1>2, <1>3, <1>4 DEF Crash, TypeOK, Anchored

LEMMA NextType == TypeOK /\ Anchored /\ [Next]_vars => TypeOK' /\ Anchored'
<1> SUFFICES ASSUME TypeOK, Anchored, [Next]_vars
             PROVE  TypeOK' /\ Anchored'
  OBVIOUS
<1>1. CASE Start
  <2>1. log' = log /\ log \in [Sources -> Seq(Times)]
    BY <1>1 DEF Start, TypeOK
  <2>2. pos' \in [Sources -> Nat] /\ \A s \in Sources : pos'[s] <= Len(log[s])
    BY <1>1, <2>1, ResetType DEF Start
  <2>3. emitted' \in Seq(Composites)
    BY <1>1 DEF Start
  <2>4. runs' \in 0..MaxRuns
    BY <1>1 DEF Start, TypeOK
  <2>5. shards' = shards /\ manifest' = manifest
    BY <1>1 DEF Start, disk
  <2>6. QED  BY <1>1, <2>1, <2>2, <2>3, <2>4, <2>5 DEF Start, TypeOK, Anchored
<1>2. CASE CloseCycle \/ Flush
  BY <1>2, EmitStepType
<1>3. CASE \E s \in Sources : Take(s)
  BY <1>3, TakeType
<1>4. CASE Close
  BY <1>4 DEF Close, TypeOK, Anchored, disk
<1>5. CASE WriteManifest
  <2>1. \A d \in DOMAIN shards : Len(shards[d]) \in Nat
    BY DEF TypeOK
  <2>2. Counted \in [DOMAIN Counted -> Nat]
    BY <2>1 DEF Counted
  <2>3. QED  BY <1>5, <2>2 DEF WriteManifest, TypeOK, Anchored
<1>6. CASE Crash
  BY <1>6, CrashType
<1>7. CASE UNCHANGED vars
  BY <1>7 DEF vars, disk, TypeOK, Anchored
<1>8. QED  BY <1>1, <1>2, <1>3, <1>4, <1>5, <1>6, <1>7 DEF Next, Merge

\* Every variable keeps its type: in particular the loop never reads past the
\* end of a log, and every day the writer has touched has a shard.
THEOREM MergeType == Spec => []TypeOK
<1>1. Spec => [](TypeOK /\ Anchored)
  BY InitType, NextType, PTL DEF Spec
<1>2. QED  BY <1>1, PTL

-----------------------------------------------------------------------------
(* Boundaries.                                                             *)

\* Everything popped is stamped before the boundary the loop is heading for,
\* and everything emitted has a boundary the loop has left behind. This is
\* what the order of the heap is not needed for.
IInv ==
  /\ TypeOK /\ Anchored
  /\ next = None => emitted = <<>> /\ \A s \in Sources : pos[s] = 0
  /\ next # None => \A s \in Sources : \A i \in 1..pos[s] : log[s][i] < next
  /\ pc = "merging" => \A k \in DOMAIN emitted : emitted[k].at < next
  /\ NoLookAhead
  /\ StrictlyIncreasing

LEMMA InitInv == Init => IInv
<1>1. Init => TypeOK /\ Anchored
  BY InitType
<1>2. QED  BY <1>1 DEF Init, IInv, NoneRead, NoLookAhead, StrictlyIncreasing

\* The last record of a source is stamped before the boundary.
LEMMA SlotsBefore ==
  ASSUME IInv, next # None
  PROVE  \A r \in Slots(next) : TimeOf(r) < next
<1> SUFFICES ASSUME NEW s \in Sources, pos[s] > 0
             PROVE  log[s][pos[s]] < next
  BY DEF Slots, TimeOf
<1>1. pos[s] \in 1..pos[s]
  BY DEF IInv, TypeOK
<1>2. QED  BY <1>1 DEF IInv

\* One more composite, at the boundary.
LEMMA EmitInv ==
  ASSUME IInv, pc = "merging", Emit(next), UNCHANGED <<log, pos>>
  PROVE  /\ NoLookAhead' /\ StrictlyIncreasing'
         /\ next # None => \A k \in DOMAIN emitted' : emitted'[k].at <= next
         /\ next = None => emitted' = emitted
<1> USE DEF IInv
<1>1. CASE dirty /\ Slots(next) # {}
  <2>1. next \in Nat
    BY <1>1 DEF TypeOK, Anchored
  <2>2. next # None
    BY <2>1
  <2> DEFINE c == Composite(next)
  <2>3. /\ c \in Composites /\ c.at = next /\ c.of = Slots(next)
    BY <2>1, CompositeType
  <2> HIDE DEF c
  <2>4. emitted' = Append(emitted, c) /\ emitted \in Seq(Composites)
    BY <1>1 DEF Emit, TypeOK, c
  <2>5. /\ DOMAIN emitted = 1..Len(emitted) /\ Len(emitted) \in Nat
        /\ DOMAIN emitted' = 1..(Len(emitted) + 1)
        /\ \A k \in DOMAIN emitted : emitted'[k] = emitted[k]
        /\ emitted'[Len(emitted) + 1] = c
    BY <2>3, <2>4
  <2>6. \A k \in DOMAIN emitted : emitted[k] \in Composites /\ emitted[k].at < next
    BY <2>4
  <2>7. \A k \in DOMAIN emitted' : k \in DOMAIN emitted \/ k = Len(emitted) + 1
    BY <2>5
  <2>8. NoLookAhead'
    <3> SUFFICES ASSUME NEW k \in DOMAIN emitted', NEW r \in emitted'[k].of
                 PROVE  TimeOf(r) < emitted'[k].at
      BY DEF NoLookAhead, TimeOf
    <3>1. CASE k \in DOMAIN emitted
      BY <3>1, <2>5 DEF NoLookAhead
    <3>2. CASE k = Len(emitted) + 1
      BY <3>2, <2>2, <2>3, <2>5, SlotsBefore
    <3>3. QED  BY <3>1, <3>2, <2>7
  <2>9. StrictlyIncreasing'
    <3> SUFFICES ASSUME NEW j \in DOMAIN emitted', NEW k \in DOMAIN emitted', j < k
                 PROVE  emitted'[j].at < emitted'[k].at
      BY DEF StrictlyIncreasing
    <3>1. j \in DOMAIN emitted
      BY <2>5
    <3>2. CASE k \in DOMAIN emitted
      BY <3>1, <3>2, <2>5 DEF StrictlyIncreasing
    <3>3. CASE k = Len(emitted) + 1
      BY <3>1, <3>3, <2>3, <2>5, <2>6
    <3>4. QED  BY <3>2, <3>3, <2>7
  <2>10. \A k \in DOMAIN emitted' : emitted'[k].at <= next
    BY <2>1, <2>3, <2>5, <2>6, <2>7 DEF Composites
  <2>11. QED  BY <2>2, <2>8, <2>9, <2>10
<1>2. CASE ~(dirty /\ Slots(next) # {})
  <2>1. emitted' = emitted
    BY <1>2 DEF Emit
  <2>2. NoLookAhead' /\ StrictlyIncreasing'
    BY <2>1 DEF NoLookAhead, StrictlyIncreasing, TimeOf
  <2>3. \A k \in DOMAIN emitted : emitted[k].at \in Nat /\ emitted[k].at < next
    BY EmittedType
  <2>4. next # None => \A k \in DOMAIN emitted' : emitted'[k].at <= next
    BY <2>1, <2>3 DEF TypeOK
  <2>5. QED  BY <2>1, <2>2, <2>4
<1>3. QED  BY <1>1, <1>2

LEMMA CloseCycleInv == IInv /\ CloseCycle => IInv'
<1> SUFFICES ASSUME IInv, CloseCycle PROVE IInv'
  OBVIOUS
<1>1. TypeOK' /\ Anchored'
  BY EmitStepType DEF IInv
<1>2. next # None /\ next \in Nat /\ next' = next + Cycle
  BY DEF IInv, TypeOK, CloseCycle, Due
<1>3. next' \in Nat /\ next' # None /\ next < next'
  BY <1>2
<1>4. log' = log /\ pos' = pos /\ pc = "merging" /\ Emit(next)
  BY DEF CloseCycle
<1>5. /\ NoLookAhead' /\ StrictlyIncreasing'
      /\ \A k \in DOMAIN emitted' : emitted'[k].at <= next
  BY <1>2, <1>4, EmitInv
<1>6. \A k \in DOMAIN emitted' : emitted'[k].at < next'
  <2>1. \A k \in DOMAIN emitted' : emitted'[k] \in Composites
    BY <1>1 DEF TypeOK
  <2>2. \A k \in DOMAIN emitted' : emitted'[k].at \in Nat
    BY <2>1 DEF Composites
  <2>3. QED  BY <1>2, <1>3, <1>5, <2>2
<1>7. \A s \in Sources : \A i \in 1..pos[s] : log[s][i] < next'
  <2>1. \A s \in Sources : \A i \in 1..pos[s] : log[s][i] \in Nat
    BY DEF IInv, TypeOK
  <2>2. QED  BY <1>2, <1>3, <2>1 DEF IInv
<1>8. QED  BY <1>1, <1>3, <1>4, <1>5, <1>6, <1>7 DEF IInv

LEMMA FlushInv == IInv /\ Flush => IInv'
<1> SUFFICES ASSUME IInv, Flush PROVE IInv'
  OBVIOUS
<1>1. TypeOK' /\ Anchored'
  BY EmitStepType DEF IInv
<1>2. /\ log' = log /\ pos' = pos /\ next' = next
      /\ pc = "merging" /\ pc' = "closing" /\ Emit(next)
  BY DEF Flush
<1>3. /\ NoLookAhead' /\ StrictlyIncreasing'
      /\ next = None => emitted' = emitted
  BY <1>2, EmitInv
<1>4. QED  BY <1>1, <1>2, <1>3 DEF IInv

LEMMA TakeInv ==
  ASSUME IInv, NEW s \in Sources, Take(s)
  PROVE  IInv'
<1>1. TypeOK' /\ Anchored'
  BY TakeType DEF IInv
<1>2. /\ log' = log /\ emitted' = emitted /\ pc' = pc
      /\ pos' = [pos EXCEPT ![s] = @ + 1]
      /\ next' = Boundary(s) /\ ~Due(s)
  BY DEF Take
<1>3. /\ pos[s] \in Nat /\ pos[s] + 1 <= Len(log[s]) /\ Len(log[s]) \in Nat
      /\ log[s] \in Seq(Times)
  BY DEF IInv, TypeOK, Take, IsTop, Pending
<1>4. HeadTime(s) \in Nat /\ HeadTime(s) = log[s][pos[s] + 1]
  <2>1. pos[s] + 1 \in 1..Len(log[s])
    BY <1>3
  <2>2. QED  BY <2>1, TimeType DEF HeadTime, IInv
<1>5. next' \in Nat /\ next' # None /\ HeadTime(s) < next'
  <2>1. CASE next = None
    <3>1. next' = HeadTime(s) + Cycle
      BY <1>2, <2>1 DEF Boundary
    <3>2. next' \in Nat /\ HeadTime(s) < next'
      BY <3>1, <1>4, CycleAssumption
    <3>3. QED  BY <3>2, NoneAssumption
  <2>2. CASE next # None
    <3>1. next' = next /\ ~(HeadTime(s) >= next)
      BY <1>2, <2>2 DEF Boundary, Due
    <3>2. next \in Nat
      BY <2>2 DEF IInv, TypeOK
    <3>3. QED  BY <3>1, <3>2, <1>4, <2>2
  <2>3. QED  BY <2>1, <2>2
<1>6. next # None => next' = next
  BY <1>2 DEF Boundary
<1>7. \A t \in Sources : \A i \in 1..pos'[t] : log[t][i] < next'
  <2> SUFFICES ASSUME NEW t \in Sources, NEW i \in 1..pos'[t]
               PROVE  log[t][i] < next'
    OBVIOUS
  <2>1. CASE t = s /\ i = pos[s] + 1
    BY <2>1, <1>4, <1>5
  <2>2. CASE i \in 1..pos[t]
    <3>1. next # None
      BY <2>2 DEF IInv
    <3>2. QED  BY <2>2, <3>1, <1>6 DEF IInv
  <2>3. (t = s /\ i = pos[s] + 1) \/ i \in 1..pos[t]
    BY <1>2, <1>3 DEF IInv, TypeOK
  <2>4. QED  BY <2>1, <2>2, <2>3
<1>8. \A k \in DOMAIN emitted : pc = "merging" => emitted[k].at < next'
  BY <1>6 DEF IInv
<1>9. NoLookAhead' /\ StrictlyIncreasing'
  BY <1>2 DEF IInv, NoLookAhead, StrictlyIncreasing, TimeOf
<1>10. QED  BY <1>1, <1>2, <1>5, <1>7, <1>8, <1>9 DEF IInv

LEMMA StepInv == IInv /\ [Next]_vars => IInv'
<1> SUFFICES ASSUME IInv, [Next]_vars PROVE IInv'
  OBVIOUS
<1>1. TypeOK' /\ Anchored'
  BY NextType DEF IInv
<1>2. CASE Start \/ Crash
  <2>1. next' = None /\ pos' = NoneRead /\ emitted' = <<>>
    BY <1>2 DEF Start, Crash
  <2>2. \A s \in Sources : pos'[s] = 0
    BY <2>1 DEF NoneRead
  <2>3. DOMAIN emitted' = {}
    BY <2>1
  <2>4. NoLookAhead' /\ StrictlyIncreasing'
    BY <2>3 DEF NoLookAhead, StrictlyIncreasing
  <2>5. QED  BY <1>1, <2>1, <2>2, <2>3, <2>4 DEF IInv
<1>3. CASE CloseCycle
  BY <1>3, CloseCycleInv
<1>4. CASE \E s \in Sources : Take(s)
  BY <1>4, TakeInv
<1>5. CASE Flush
  BY <1>5, FlushInv
<1>6. CASE Close \/ WriteManifest \/ UNCHANGED vars
  <2>1. /\ log' = log /\ pos' = pos /\ next' = next /\ emitted' = emitted
        /\ pc' = "merging" => pc = "merging"
    BY <1>6 DEF Close, WriteManifest, vars
  <2>2. NoLookAhead' /\ StrictlyIncreasing'
    BY <2>1 DEF IInv, NoLookAhead, StrictlyIncreasing, TimeOf
  <2>3. QED  BY <1>1, <2>1, <2>2 DEF IInv
<1>7. QED  BY <1>2, <1>3, <1>4, <1>5, <1>6 DEF Next, Merge

\* The inductive invariant of the merge loop.
THEOREM MergeInductive == Spec => []IInv
  BY InitInv, StepInv, PTL DEF Spec

\* No composite blends a record stamped on its boundary or later.
THEOREM MergeLooksBack == Spec => []NoLookAhead
<1>1. IInv => NoLookAhead  BY DEF IInv
<1>2. QED  BY <1>1, MergeInductive, PTL

\* The composites of a run are in strictly increasing order of time, be the
\* logs in order or not.
THEOREM MergeIncreases == Spec => []StrictlyIncreasing
<1>1. IInv => StrictlyIncreasing  BY DEF IInv
<1>2. QED  BY <1>1, MergeInductive, PTL

\* What lies between two times of a day is of that day.
LEMMA DayBetween ==
  ASSUME NEW x \in Nat, NEW y \in Nat, NEW z \in Nat, x <= y, y <= z,
         DayOf(x) = DayOf(z)
  PROVE  DayOf(y) = DayOf(x)
<1> DEFINE q == x \div DayMs
<1>1. q \in Nat /\ DayMs * q <= x  BY Quotient
<1>2. z \div DayMs = q  BY DEF DayOf
<1>3. z < DayMs * (z \div DayMs) + DayMs  BY Quotient
<1>4. z < DayMs * q + DayMs  BY <1>2, <1>3
<1> HIDE DEF q
<1>5. DayMs * q \in Nat  BY <1>1
<1>6. DayMs * q <= y /\ y < DayMs * q + DayMs  BY <1>1, <1>4, <1>5
<1>7. y \div DayMs = q  BY <1>1, <1>6, QuotientUnique
<1>8. QED  BY <1>7 DEF DayOf, q

-----------------------------------------------------------------------------
(* The shards of the days of a run.                                        *)

OnDay(d) == {k \in DOMAIN emitted : DayOf(emitted[k].at) = d}

\* The days the writer has touched are those of the output.
Touches ==
  /\ \A k \in DOMAIN emitted : DayOf(emitted[k].at) \in touched
  /\ \A d \in touched : OnDay(d) # {}

SInv == IInv /\ Touches /\ ShardsAreOutput

\* Where the stretch of a day begins and ends.
LEMMA OnDayBounds ==
  ASSUME TypeOK, NEW d, OnDay(d) # {}
  PROVE  /\ Min(OnDay(d)) \in OnDay(d) /\ Max(OnDay(d)) \in OnDay(d)
         /\ \A k \in OnDay(d) : Min(OnDay(d)) <= k /\ k <= Max(OnDay(d))
<1>1. DOMAIN emitted = 1..Len(emitted) /\ Len(emitted) \in Nat  BY DEF TypeOK
<1>2. OnDay(d) \subseteq 1..Len(emitted)
  BY <1>1 DEF OnDay
<1>3. QED  BY <1>1, <1>2, Extremes

\* Emit adds to the stretch of the day of the boundary, and to its shard.
LEMMA EmitShards ==
  ASSUME SInv, pc = "merging", Emit(next)
  PROVE  Touches' /\ ShardsAreOutput'
<1> DEFINE L == Len(emitted)
<1>0. TypeOK  BY DEF SInv, IInv
<1>1. CASE ~(dirty /\ Slots(next) # {})
  <2>1. UNCHANGED <<shards, touched, emitted>>  BY <1>1 DEF Emit
  <2>2. QED  BY <2>1 DEF SInv, Touches, OnDay, ShardsAreOutput, OfDay
<1>2. CASE dirty /\ Slots(next) # {}
  <2>1. next \in Nat /\ next # None
    BY <1>2, NoneAssumption DEF SInv, IInv, TypeOK, Anchored
  <2>0. PICK e : e = DayOf(next)  OBVIOUS
  <2> DEFINE c == Composite(next)
             old == IF e \in DOMAIN shards /\ (e \in touched \/ e >= Today)
                    THEN shards[e] ELSE <<>>
  <2>2. c \in Composites /\ c.at = next  BY <1>0, <2>1, CompositeType
  <2>3. e \in Nat  BY <2>0, <2>1 DEF DayOf
  <2>4. /\ shards' = [d \in DOMAIN shards \cup {e} |-> IF d = e THEN Append(old, c) ELSE shards[d]]
        /\ touched' = touched \cup {e}
        /\ emitted' = Append(emitted, c)
    BY <1>2, <2>0, <2>2 DEF Emit, Routed
  <2>5. /\ \A d \in DOMAIN shards : d # e => shards'[d] = shards[d]
        /\ shards'[e] = Append(old, c)
    BY <2>4
  <2>6. old \in Seq(Composites)  BY <1>0 DEF TypeOK
  <2>7. e \in touched => old = shards[e] /\ e \in DOMAIN shards  BY <1>0 DEF TypeOK
  <2>8. e \notin touched /\ e < Today => old = <<>>  BY <2>3
  <2> HIDE DEF c, old
  <2>9. emitted \in Seq(Composites) /\ L \in Nat /\ DOMAIN emitted = 1..L
    BY <1>0 DEF TypeOK
  <2>10. /\ emitted' \in Seq(Composites) /\ DOMAIN emitted' = 1..(L + 1)
         /\ \A k \in 1..L : emitted'[k] = emitted[k]
         /\ emitted'[L + 1] = c
    BY <2>2, <2>4, <2>9
  <2>11. /\ \A d : d # e => OnDay(d)' = OnDay(d)
         /\ OnDay(e)' = OnDay(e) \cup {L + 1}
    <3>1. DayOf(emitted'[L + 1].at) = e  BY <2>0, <2>2, <2>10
    <3>2. \A k : k \in 1..(L + 1) <=> k \in 1..L \/ k = L + 1  BY <2>9
    <3>3. L + 1 \notin 1..L  BY <2>9
    <3>4. \A d : OnDay(d) = {k \in 1..L : DayOf(emitted[k].at) = d}
      BY <2>9 DEF OnDay
    <3>5. \A d : OnDay(d)' = {k \in 1..(L + 1) : DayOf(emitted'[k].at) = d}
      BY <2>10 DEF OnDay
    <3> HIDE DEF L
    <3>6. QED  BY <3>1, <3>2, <3>3, <3>4, <3>5, <2>10
  <2>12. Touches'
    <3>1. \A k \in DOMAIN emitted' : DayOf(emitted'[k].at) \in touched'
      <4> TAKE k \in DOMAIN emitted'
      <4>1. CASE k = L + 1  BY <4>1, <2>0, <2>2, <2>4, <2>10
      <4>2. CASE k \in 1..L
        BY <4>2, <2>4, <2>9, <2>10 DEF SInv, Touches
      <4>3. QED  BY <4>1, <4>2, <2>9, <2>10
    <3>2. \A d \in touched' : OnDay(d)' # {}
      <4> TAKE d \in touched'
      <4>1. CASE d = e  BY <4>1, <2>11
      <4>2. CASE d # e
        <5>1. OnDay(d) # {}  BY <4>2, <2>4 DEF SInv, Touches
        <5>2. QED  BY <5>1, <4>2, <2>11
      <4>3. QED  BY <4>1, <4>2
    <3>3. QED  BY <3>1, <3>2 DEF Touches
  <2>13. ShardsAreOutput'
    <3> SUFFICES ASSUME NEW d \in touched'
                 PROVE  \E n \in 0..Len(shards'[d]) :
                          /\ OfDay(d)' = SubSeq(shards'[d], n + 1, Len(shards'[d]))
                          /\ d < Today => n = 0
      BY DEF ShardsAreOutput
    <3>0. /\ OfDay(d) = SubSeq(emitted, Min(OnDay(d)), Max(OnDay(d)))
          /\ OfDay(d)' = SubSeq(emitted', Min(OnDay(d)'), Max(OnDay(d)'))
      BY DEF OfDay, OnDay
    <3>1. CASE d # e
      <4>1. d \in touched /\ d \in DOMAIN shards  BY <1>0, <3>1, <2>4 DEF TypeOK
      <4>2. shards'[d] = shards[d]  BY <3>1, <4>1, <2>5
      <4>3. OfDay(d)' = OfDay(d)
        <5>1. OnDay(d) # {}  BY <4>1 DEF SInv, Touches
        <5> DEFINE m == Min(OnDay(d))
                   n == Max(OnDay(d))
        <5>2. m \in OnDay(d) /\ n \in OnDay(d) /\ m <= n  BY <1>0, <5>1, OnDayBounds
        <5>3. m \in 1..L /\ n \in 1..L  BY <5>2, <2>9 DEF OnDay
        <5> HIDE DEF m, n
        <5>4. SubSeq(Append(emitted, c), m, n) = SubSeq(emitted, m, n)
          BY <5>2, <5>3, <2>2, <2>9, StretchStays, SMTT(30)
        <5>5. QED  BY <3>0, <3>1, <5>4, <2>4, <2>11 DEF m, n
      <4>4. QED  BY <4>1, <4>2, <4>3 DEF SInv, ShardsAreOutput
    <3>2. CASE d = e /\ e \in touched
      <4>1. OnDay(e) # {}  BY <3>2 DEF SInv, Touches
      <4> DEFINE m == Min(OnDay(e))
      <4>2. m \in OnDay(e) /\ \A k \in OnDay(e) : m <= k  BY <1>0, <4>1, OnDayBounds
      <4>3. m \in 1..L /\ DayOf(emitted[m].at) = e  BY <4>2, <2>9 DEF OnDay
      <4> HIDE DEF m
      <4>4. L \in OnDay(e)
        <5>1. L \in 1..L  BY <4>3, <2>9
        <5>2. emitted[m].at \in Nat /\ emitted[L].at \in Nat
          BY <1>0, <4>3, <5>1, <2>9, EmittedType
        <5>3. emitted[m].at <= emitted[L].at
          <6>1. m < L => emitted[m].at < emitted[L].at
            BY <4>3, <5>1, <2>9 DEF SInv, IInv, StrictlyIncreasing
          <6>2. m = L => emitted[m].at = emitted[L].at  OBVIOUS
          <6>3. m < L \/ m = L  BY <4>3, <2>9
          <6>4. QED  BY <6>1, <6>2, <6>3, <5>2
        <5>4. emitted[L].at <= next
          BY <5>1, <5>2, <2>1, <2>9 DEF SInv, IInv
        <5>5. DayOf(emitted[L].at) = e
          BY <4>3, <5>2, <5>3, <5>4, <2>0, <2>1, DayBetween
        <5>6. QED  BY <5>1, <5>5, <2>9 DEF OnDay
      <4>5. Max(OnDay(e)) = L
        <5>1. /\ Max(OnDay(e)) \in OnDay(e) /\ L <= Max(OnDay(e))
          BY <1>0, <4>1, <4>4, OnDayBounds
        <5>2. Max(OnDay(e)) \in 1..L  BY <5>1, <2>9 DEF OnDay
        <5>3. QED  BY <5>1, <5>2, <2>9
      <4>6. Min(OnDay(e)') = m /\ Max(OnDay(e)') = L + 1
        <5> DEFINE T == OnDay(e) \cup {L + 1}
        <5>1. T \subseteq 1..(L + 1) /\ T # {} /\ L + 1 \in Nat
          BY <2>9 DEF OnDay
        <5>2. /\ Min(T) \in T /\ \A k \in T : Min(T) <= k
              /\ Max(T) \in T /\ \A k \in T : k <= Max(T)
          <6> HIDE DEF T
          <6>1. QED  BY <5>1, Extremes
        <5>3. m \in T /\ \A k \in T : m <= k
          BY <4>2, <4>3, <2>9
        <5>4. L + 1 \in T /\ \A k \in T : k <= L + 1  BY <5>1
        <5> HIDE DEF T
        <5>5. Min(T) = m /\ Max(T) = L + 1
          BY <5>1, <5>2, <5>3, <5>4, <4>3, <2>9
        <5>6. QED  BY <5>5, <2>11 DEF T
      <4>7. OfDay(e)' = Append(OfDay(e), c)
        <5>1. OfDay(e) = SubSeq(emitted, m, L)  BY <3>0, <3>2, <4>5 DEF m
        <5>2. OfDay(e)' = SubSeq(Append(emitted, c), m, L + 1)
          BY <3>0, <3>2, <4>6, <2>4
        <5>3. m \in 1..(L + 1)  BY <4>3, <2>9
        <5>4. SubSeq(Append(emitted, c), m, L + 1) = Append(SubSeq(emitted, m, L), c)
          BY <5>3, <2>2, <2>9, StretchGrows
        <5>5. QED  BY <5>1, <5>2, <5>4
      <4> DEFINE s == shards[e]
      <4>8. s \in Seq(Composites) /\ shards'[e] = Append(s, c)
        BY <3>2, <2>5, <2>6, <2>7
      <4>9. PICK n \in 0..Len(s) :
              /\ OfDay(e) = SubSeq(s, n + 1, Len(s))
              /\ e < Today => n = 0
        BY <3>2 DEF SInv, ShardsAreOutput
      <4> HIDE DEF s
      <4>10. Len(s) \in Nat /\ Len(Append(s, c)) = Len(s) + 1  BY <4>8, <2>2
      <4>11. SubSeq(Append(s, c), n + 1, Len(s) + 1) = Append(SubSeq(s, n + 1, Len(s)), c)
        <5>1. n + 1 \in 1..(Len(s) + 1)  BY <4>10
        <5>2. QED  BY <5>1, <4>8, <2>2, StretchGrows
      <4>12. n \in 0..(Len(s) + 1)  BY <4>10
      <4>13. OfDay(e)' = SubSeq(shards'[e], n + 1, Len(shards'[e]))
        BY <4>7, <4>8, <4>9, <4>10, <4>11
      <4>14. QED  BY <3>2, <4>8, <4>9, <4>10, <4>12, <4>13
    <3>3. CASE d = e /\ e \notin touched
      <4>1. OnDay(e) = {}  BY <3>3, <2>9 DEF SInv, Touches, OnDay
      <4>2. OnDay(e)' = {L + 1}  BY <4>1, <2>11
      <4>3. Min({L + 1}) = L + 1 /\ Max({L + 1}) = L + 1
        <5>1. L + 1 \in Nat /\ {L + 1} \subseteq 1..(L + 1) /\ {L + 1} # {}  BY <2>9
        <5>2. Min({L + 1}) \in {L + 1} /\ Max({L + 1}) \in {L + 1}
          BY <5>1, Extremes
        <5>3. QED  BY <5>2
      <4>4. OfDay(e)' = <<c>>
        <5>1. SubSeq(emitted', L + 1, L + 1) = <<c>>
          BY <2>10, OneLong
        <5>2. QED  BY <5>1, <3>0, <3>3, <4>2, <4>3
      <4>5. Len(old) \in Nat /\ Len(Append(old, c)) = Len(old) + 1  BY <2>2, <2>6
      <4>6. SubSeq(Append(old, c), Len(old) + 1, Len(old) + 1) = <<c>>
        <5>1. /\ Append(old, c) \in Seq(Composites) /\ Len(old) + 1 \in 1..Len(Append(old, c))
              /\ Append(old, c)[Len(old) + 1] = c
          BY <2>2, <2>6, <4>5
        <5>2. QED  BY <5>1, OneLong
      <4>7. e < Today => Len(old) = 0  BY <3>3, <2>8
      <4>8. Len(old) \in 0..(Len(old) + 1)  BY <4>5
      <4>9. OfDay(e)' = SubSeq(shards'[e], Len(old) + 1, Len(shards'[e]))
        BY <4>4, <4>5, <4>6, <2>5
      <4>10. QED  BY <3>3, <4>5, <4>7, <4>8, <4>9, <2>5
    <3>4. QED  BY <3>1, <3>2, <3>3
  <2>14. QED  BY <2>12, <2>13
<1>3. QED  BY <1>1, <1>2

LEMMA StepShards == SInv /\ [Next]_vars => SInv'
<1> SUFFICES ASSUME SInv, [Next]_vars PROVE SInv'
  OBVIOUS
<1>1. IInv'  BY StepInv DEF SInv
<1>2. CASE Start \/ Crash
  <2>1. touched' = {} /\ emitted' = <<>>  BY <1>2 DEF Start, Crash
  <2>2. Touches' /\ ShardsAreOutput'
    BY <2>1 DEF Touches, ShardsAreOutput
  <2>3. QED  BY <1>1, <2>2 DEF SInv
<1>3. CASE CloseCycle \/ Flush
  <2>1. pc = "merging" /\ Emit(next)  BY <1>3 DEF CloseCycle, Flush
  <2>2. QED  BY <1>1, <2>1, EmitShards DEF SInv
<1>4. CASE \/ \E s \in Sources : Take(s)
           \/ Close \/ WriteManifest \/ UNCHANGED vars
  <2>1. UNCHANGED <<shards, touched, emitted>>
    BY <1>4 DEF Take, Close, WriteManifest, vars, disk
  <2>2. Touches' /\ ShardsAreOutput'
    BY <2>1 DEF SInv, Touches, OnDay, ShardsAreOutput, OfDay
  <2>3. QED  BY <1>1, <2>2 DEF SInv
<1>5. QED  BY <1>2, <1>3, <1>4 DEF Next, Merge

\* Whatever the shards held at the start, and wherever an earlier run was
\* killed: the shard of a closed day holds exactly the composites this run has
\* emitted for it, and the shard of the current day ends with them.
THEOREM MergeOwnsItsDays == Spec => []ShardsAreOutput
<1>1. Init => SInv
  <2>1. Init => IInv  BY InitInv
  <2>2. Init => touched = {} /\ emitted = <<>>  BY DEF Init
  <2>3. QED  BY <2>1, <2>2 DEF SInv, Touches, ShardsAreOutput
<1>2. SInv => ShardsAreOutput  BY DEF SInv
<1>3. QED  BY <1>1, <1>2, StepShards, PTL DEF Spec
-----------------------------------------------------------------------------
(* The reference definition. Its cycles are counted from the first record,  *)
(* the loop's from one boundary to the next.                                *)

\* Only a source that could be opened is read.
Opened == \A s \in Sources : pos[s] > 0 => s \in open

\* The output ends when the logs do.
ReadOut ==
  pc \in {"closing", "closed"} => \A s \in open \ lost : pos[s] = Len(log[s])

\* The boundary is on the grid of the first record.
OnGrid ==
  next # None => Popped # {} /\ \E k \in Nat : next = First + Cycle * (k + 1)

\* What is still to be read is stamped after all that has been, and after the
\* last boundary.
HeadsAfter ==
  \A t \in Sources : Pending(t) =>
    /\ \A r \in Popped : TimeOf(r) <= HeadTime(t)
    /\ next # None => next - Cycle <= HeadTime(t)

\* The open cycle is dirty when a record is stamped in it.
DirtyIs == next # None => (dirty <=> \E r \in Popped : next - Cycle <= TimeOf(r))

Ends == {End(TimeOf(r)) : r \in Popped}

Blended(at) == [at |-> at, of |-> Blend(at)]

\* All cycles but the open one are out.
Done == Range(emitted) =
          {Blended(e) : e \in {x \in Ends : ~(pc = "merging" /\ dirty /\ x = next)}}

Loop == Sorted => Done /\ (pc = "merging" => OnGrid /\ HeadsAfter /\ DirtyIs)

MInv == IInv /\ Opened /\ ReadOut /\ Loop

LEMMA PoppedIs ==
  ASSUME TypeOK
  PROVE  \A r : r \in Popped <=> \E s \in Sources : \E i \in 1..pos[s] : r = <<s, i>>
  BY DEF Popped

LEMMA PoppedTime ==
  ASSUME TypeOK, NEW s \in Sources, NEW i \in 1..pos[s]
  PROVE  <<s, i>> \in Popped /\ TimeOf(<<s, i>>) = log[s][i] /\ log[s][i] \in Nat
<1>1. i \in 1..Len(log[s])  BY DEF TypeOK
<1>2. log[s][i] \in Nat  BY <1>1, TimeType
<1>3. QED  BY <1>2, PoppedIs DEF TimeOf

LEMMA HeadTimeType ==
  ASSUME TypeOK, NEW s \in Sources, Pending(s)
  PROVE  HeadTime(s) \in Nat /\ pos[s] \in Nat /\ pos[s] + 1 \in 1..Len(log[s])
<1>1. pos[s] \in Nat /\ pos[s] + 1 \in 1..Len(log[s])  BY DEF TypeOK, Pending
<1>2. QED  BY <1>1, TimeType DEF HeadTime

LEMMA PoppedBefore ==
  ASSUME IInv, next # None, NEW r \in Popped
  PROVE  TimeOf(r) < next
<1>1. PICK s \in Sources : \E i \in 1..pos[s] : r = <<s, i>>  BY PoppedIs DEF IInv
<1>2. PICK i \in 1..pos[s] : r = <<s, i>>  BY <1>1
<1>3. QED  BY <1>2 DEF IInv, TimeOf

LEMMA TimeOfType ==
  ASSUME TypeOK
  PROVE  \A r \in Popped : TimeOf(r) \in Nat
<1> TAKE r \in Popped
<1>1. PICK s \in Sources : \E i \in 1..pos[s] : r = <<s, i>>  BY PoppedIs
<1>2. PICK i \in 1..pos[s] : r = <<s, i>>  BY <1>1
<1>3. QED  BY <1>2, PoppedTime

LEMMA FirstIs ==
  ASSUME TypeOK, Popped # {}
  PROVE  /\ First \in Nat
         /\ \E r \in Popped : First = TimeOf(r)
         /\ \A r \in Popped : First <= TimeOf(r)
<1> DEFINE T == {TimeOf(r) : r \in Popped}
<1>1. T \subseteq Nat /\ T # {}  BY TimeOfType
<1>2. Min(T) \in T /\ \A t \in T : Min(T) <= t
  <2> HIDE DEF T
  <2>1. QED  BY <1>1, MinNatural
<1>3. First = Min(T)  BY DEF First
<1>4. QED  BY <1>2, <1>3, TimeOfType

\* The cycle of a record ends at the boundary or at an earlier one, and it is
\* the boundary exactly for the records of the open cycle.
LEMMA EndIs ==
  ASSUME IInv, OnGrid, next # None, NEW r \in Popped
  PROVE  IF next - Cycle <= TimeOf(r)
         THEN End(TimeOf(r)) = next
         ELSE End(TimeOf(r)) \in Nat /\ End(TimeOf(r)) <= next - Cycle
<1> DEFINE t == TimeOf(r)
<1>0. TypeOK  BY DEF IInv
<1>1. PICK k \in Nat : next = First + Cycle * (k + 1)  BY DEF OnGrid
<1>2. First \in Nat /\ First <= t /\ t \in Nat  BY <1>0, FirstIs, TimeOfType
<1>3. t < next  BY PoppedBefore
<1>4. Cycle * k \in Nat /\ Cycle * (k + 1) = Cycle * k + Cycle  OBVIOUS
<1> HIDE DEF t
<1>5. next - Cycle = First + Cycle * k  BY <1>1, <1>2, <1>4
<1>6. CASE next - Cycle <= t
  <2>1. First + Cycle * ((t - First) \div Cycle + 1) = First + Cycle * (k + 1)
    BY <1>1, <1>2, <1>3, <1>5, <1>6, GridLast
  <2>2. QED  BY <1>1, <1>6, <2>1 DEF End, t
<1>7. CASE ~(next - Cycle <= t)
  <2>1. t < First + Cycle * k  BY <1>2, <1>4, <1>5, <1>7
  <2>2. /\ First + Cycle * ((t - First) \div Cycle + 1) \in Nat
        /\ First + Cycle * ((t - First) \div Cycle + 1) <= First + Cycle * k
    BY <1>2, <2>1, GridEarlier
  <2>3. QED  BY <1>5, <1>7, <2>2 DEF End, t
<1>8. QED  BY <1>6, <1>7 DEF t

-----------------------------------------------------------------------------
(* The slots of the loop are the blend of the definition.                  *)

LEMMA SortedAt ==
  ASSUME Sorted, NEW s \in Sources,
         NEW i \in 1..Len(log[s]), NEW j \in 1..Len(log[s]), i <= j
  PROVE  log[s][i] <= log[s][j]
  BY DEF Sorted

\* On logs that are in order the clock of a slot is the time of its record.
LEMMA SeenIs ==
  ASSUME TypeOK, Opened, Sorted, NEW t \in Sources, pos[t] > 0
  PROVE  SeenAt(t) = log[t][pos[t]] /\ log[t][pos[t]] \in Nat
<1> DEFINE T == {log[s][1] : s \in {u \in open : log[u] # <<>>}}
           x == log[t][pos[t]]
<1>1. /\ open \subseteq Sources /\ t \in open /\ pos[t] \in Nat
      /\ \A s \in Sources : log[s] \in Seq(Times)
      /\ pos[t] <= Len(log[t])
  BY DEF TypeOK, Opened
<1>2. \A s \in open : log[s] # <<>> => log[s][1] \in Nat
  <2> TAKE s \in open
  <2>1. log[s] # <<>> => 1 \in 1..Len(log[s])  BY <1>1
  <2>2. QED  BY <1>1, <2>1, TimeType
<1>3. 1 \in 1..Len(log[t]) /\ pos[t] \in 1..Len(log[t]) /\ log[t] # <<>>  BY <1>1
<1>4. T \subseteq Nat /\ log[t][1] \in T
  <2>1. T \subseteq Nat  BY <1>2
  <2>2. t \in {u \in open : log[u] # <<>>}  BY <1>1, <1>3
  <2>3. QED  BY <2>1, <2>2
<1>5. Anchor = Min(T)  BY DEF Anchor
<1>6. x \in Nat /\ log[t][1] \in Nat  BY <1>3, TimeType
<1>7. log[t][1] <= x
  <2>1. 1 <= pos[t]  BY <1>1, <1>3
  <2>2. QED  BY <1>3, <2>1, SortedAt
<1>8. SeenAt(t) = Max({Anchor, x})  BY DEF SeenAt
<1> HIDE DEF T, x
<1>9. Anchor \in T /\ Anchor <= log[t][1]
  <2>1. Min(T) \in T /\ \A y \in T : Min(T) <= y  BY <1>4, MinNatural
  <2>2. QED  BY <1>4, <1>5, <2>1
<1>10. Anchor \in Int /\ Anchor <= x  BY <1>4, <1>6, <1>7, <1>9
<1>11. {Anchor, x} \subseteq Int /\ {Anchor, x} # {} /\ \A y \in {Anchor, x} : y <= x
  BY <1>6, <1>10
<1>12. Max({Anchor, x}) \in {Anchor, x} /\ \A y \in {Anchor, x} : y <= Max({Anchor, x})
  BY <1>6, <1>11, MaxBounded
<1>13. Max({Anchor, x}) = x  BY <1>6, <1>10, <1>12
<1>14. QED  BY <1>6, <1>8, <1>13 DEF x

\* All that was popped is before the boundary.
LEMMA BeforeNext ==
  ASSUME IInv, next # None, NEW s \in Sources
  PROVE  /\ Before(s, next) = 1..pos[s]
         /\ pos[s] > 0 => Max(Before(s, next)) = pos[s]
<1>1. pos[s] \in Nat  BY DEF IInv, TypeOK
<1>2. Before(s, next) = 1..pos[s]  BY DEF Before, IInv
<1>3. ASSUME pos[s] > 0 PROVE Max(1..pos[s]) = pos[s]
  <2>1. 1..pos[s] \subseteq 1..pos[s] /\ 1..pos[s] # {} /\ pos[s] \in 1..pos[s]
    BY <1>1, <1>3
  <2>2. /\ Max(1..pos[s]) \in 1..pos[s]
        /\ \A k \in 1..pos[s] : k <= Max(1..pos[s])
    BY <1>1, <2>1, Extremes
  <2>3. QED  BY <1>1, <2>1, <2>2
<1>4. QED  BY <1>2, <1>3

LEMMA SlotsAreBlend ==
  ASSUME IInv, Opened, Sorted, next # None
  PROVE  Slots(next) = Blend(next)
<1>0. TypeOK  BY DEF IInv
<1>1. \A s \in Sources : pos[s] \in Nat  BY <1>0 DEF TypeOK
<1>2. \A s \in Sources : Before(s, next) # {} <=> pos[s] > 0
  <2> TAKE s \in Sources
  <2>1. Before(s, next) = 1..pos[s]  BY BeforeNext
  <2>2. 1..pos[s] # {} <=> pos[s] > 0  BY <1>1
  <2>3. QED  BY <2>1, <2>2
<1>3. \A s \in Sources : pos[s] > 0 =>
        /\ Max(Before(s, next)) = pos[s]
        /\ SeenAt(s) = TimeOf(<<s, pos[s]>>)
  BY <1>0, BeforeNext, SeenIs DEF TimeOf
<1>4. \A r : r \in Slots(next) <=>
        \E s \in Sources : pos[s] > 0 /\ next - SeenAt(s) <= Stale /\ r = <<s, pos[s]>>
  BY DEF Slots
<1>5. \A r : r \in Blend(next) <=>
        /\ \E s \in Sources : Before(s, next) # {} /\ r = <<s, Max(Before(s, next))>>
        /\ next - TimeOf(r) <= Stale
  BY DEF Blend
<1>6. \A r : r \in Slots(next) <=> r \in Blend(next)  BY <1>2, <1>3, <1>4, <1>5
<1>7. QED  BY <1>6

\* A record of the open cycle leaves something to blend: a cycle is no longer
\* than a record stays fresh.
LEMMA SlotsFull ==
  ASSUME IInv, Opened, Sorted, next # None,
         NEW r \in Popped, next - Cycle <= TimeOf(r)
  PROVE  Slots(next) # {}
<1>0. TypeOK  BY DEF IInv
<1>1. PICK s \in Sources : \E i \in 1..pos[s] : r = <<s, i>>  BY <1>0, PoppedIs
<1>2. PICK i \in 1..pos[s] : r = <<s, i>>  BY <1>1
<1>3. pos[s] \in Nat /\ i \in 1..Len(log[s]) /\ pos[s] \in 1..Len(log[s]) /\ i <= pos[s]
  BY <1>0 DEF TypeOK
<1>4. log[s][i] <= log[s][pos[s]]  BY <1>3, SortedAt
<1>5. SeenAt(s) = log[s][pos[s]] /\ log[s][pos[s]] \in Nat
  BY <1>0, <1>3, SeenIs
<1>6. TimeOf(r) = log[s][i] /\ log[s][i] \in Nat  BY <1>0, <1>2, PoppedTime
<1>7. next \in Nat  BY <1>0 DEF TypeOK
<1>8. next - SeenAt(s) <= Stale  BY <1>4, <1>5, <1>6, <1>7, StaleAssumption, CycleAssumption
<1>9. <<s, pos[s]>> \in Slots(next)  BY <1>3, <1>8 DEF Slots
<1>10. QED  BY <1>9

-----------------------------------------------------------------------------
(* The steps.                                                              *)

\* At the end of a cycle its composite is out, if there is one.
LEMMA EmitDone ==
  ASSUME MInv, Sorted, pc = "merging", Emit(next)
  PROVE  Range(emitted') = {Blended(e) : e \in Ends}
<1>0. /\ IInv /\ TypeOK /\ Opened /\ OnGrid /\ DirtyIs
      /\ Range(emitted) = {Blended(e) : e \in {x \in Ends : ~(dirty /\ x = next)}}
  BY DEF MInv, IInv, Loop, Done
<1>1. CASE ~dirty
  <2>1. emitted' = emitted  BY <1>1 DEF Emit
  <2>2. QED  BY <1>0, <1>1, <2>1
<1>2. CASE dirty
  <2>1. next # None /\ next \in Nat  BY <1>0, <1>2 DEF TypeOK, IInv, Anchored
  <2>2. PICK r \in Popped : next - Cycle <= TimeOf(r)  BY <1>0, <1>2, <2>1 DEF DirtyIs
  <2>3. next \in Ends  BY <1>0, <2>1, <2>2, EndIs DEF Ends
  <2>4. Slots(next) # {} /\ Slots(next) = Blend(next)
    BY <1>0, <2>1, <2>2, SlotsFull, SlotsAreBlend
  <2>5. emitted' = Append(emitted, Composite(next))  BY <1>2, <2>4 DEF Emit
  <2>6. Composite(next) = Blended(next) /\ Composite(next) \in Composites
    BY <1>0, <2>1, <2>4, CompositeType DEF Composite, Blended
  <2>7. Range(emitted') = Range(emitted) \cup {Blended(next)}
    <3>1. emitted \in Seq(Composites)  BY <1>0 DEF TypeOK
    <3>2. QED  BY <3>1, <2>5, <2>6, AppendRange
  <2>8. Range(emitted) = {Blended(e) : e \in Ends \ {next}}  BY <1>0, <1>2
  <2>9. QED  BY <2>3, <2>7, <2>8
<1>3. QED  BY <1>1, <1>2

LEMMA SameRecords ==
  ASSUME UNCHANGED <<log, pos>>
  PROVE  /\ Popped' = Popped /\ Ends' = Ends /\ First' = First
         /\ \A r : TimeOf(r)' = TimeOf(r)
         /\ \A e : Blended(e)' = Blended(e)
         /\ Sorted' = Sorted
  BY DEF Popped, Ends, End, First, TimeOf, Blended, Blend, Before, Sorted

LEMMA CloseCycleLoop ==
  ASSUME MInv, Sorted, CloseCycle
  PROVE  Done' /\ OnGrid' /\ HeadsAfter' /\ DirtyIs'
<1>0. IInv /\ TypeOK /\ OnGrid /\ HeadsAfter /\ pc = "merging"
  BY DEF MInv, IInv, Loop, CloseCycle
<1>1. UNCHANGED <<log, pos, open, lost, pc>> /\ dirty' = FALSE /\ next' = next + Cycle
  BY DEF CloseCycle
<1>2. PICK s \in Sources : IsTop(s) /\ Due(s)  BY DEF CloseCycle
<1>3. next # None /\ next \in Nat /\ next' \in Nat /\ next' # None
  BY <1>0, <1>1, <1>2, NoneAssumption DEF Due, TypeOK
<1>4. Done'
  <2>1. Range(emitted') = {Blended(e) : e \in Ends}  BY <1>0, EmitDone DEF CloseCycle
  <2>2. Ends' = Ends /\ \A e : Blended(e)' = Blended(e)  BY <1>1, SameRecords
  <2>3. QED  BY <1>1, <2>1, <2>2 DEF Done
<1>5. OnGrid'
  <2>1. PICK k \in Nat : next = First + Cycle * (k + 1)  BY <1>0, <1>3 DEF OnGrid
  <2>2. Popped # {} /\ First \in Nat  BY <1>0, <1>3, FirstIs DEF OnGrid
  <2>3. First + Cycle * (k + 1) + Cycle = First + Cycle * ((k + 1) + 1)
    BY <2>2, CycleAssumption, GridStep
  <2>4. k + 1 \in Nat /\ next' = First + Cycle * ((k + 1) + 1)
    BY <1>1, <2>1, <2>3
  <2>5. Popped' = Popped /\ First' = First  BY <1>1, SameRecords
  <2>6. QED  BY <2>2, <2>4, <2>5 DEF OnGrid
<1>6. HeadsAfter'
  <2> SUFFICES ASSUME NEW t \in Sources, Pending(t)'
               PROVE  /\ \A r \in Popped' : TimeOf(r)' <= HeadTime(t)'
                      /\ next' - Cycle <= HeadTime(t)'
    BY DEF HeadsAfter
  <2>1. Pending(t) /\ HeadTime(t)' = HeadTime(t)  BY <1>1 DEF Pending, HeadTime
  <2>2. \A r \in Popped' : TimeOf(r)' <= HeadTime(t)'
    BY <1>0, <1>1, <2>1, SameRecords DEF HeadsAfter
  <2>3. HeadTime(s) \in Nat /\ HeadTime(t) \in Nat
    BY <1>0, <1>2, <2>1, HeadTimeType DEF IsTop
  <2>4. next <= HeadTime(s)  BY <1>2, <1>3, <2>3 DEF Due
  <2>5. HeadTime(s) <= HeadTime(t)  BY <1>2, <2>1, <2>3 DEF IsTop
  <2>6. QED  BY <1>1, <1>3, <2>1, <2>2, <2>3, <2>4, <2>5
<1>7. DirtyIs'
  <2>1. \A r \in Popped : TimeOf(r) < next  BY <1>0, <1>3, PoppedBefore
  <2>2. \A r \in Popped : TimeOf(r) \in Nat  BY <1>0, TimeOfType
  <2>3. \A r \in Popped' : ~(next' - Cycle <= TimeOf(r)')
    BY <1>1, <1>3, <2>1, <2>2, SameRecords
  <2>4. QED  BY <1>1, <2>3 DEF DirtyIs
<1>8. QED  BY <1>4, <1>5, <1>6, <1>7

\* The records popped by Take.
LEMMA TakePopped ==
  ASSUME TypeOK, NEW s \in Sources, Take(s)
  PROVE  /\ pos[s] \in Nat /\ pos[s] + 1 \in 1..Len(log[s]) /\ HeadTime(s) \in Nat
         /\ Popped' = Popped \cup {<<s, pos[s] + 1>>}
         /\ \A r : TimeOf(r)' = TimeOf(r)
         /\ TimeOf(<<s, pos[s] + 1>>) = HeadTime(s)
         /\ Pending(s)
<1>1. pos' = [pos EXCEPT ![s] = @ + 1] /\ log' = log /\ Pending(s)
  BY DEF Take, IsTop
<1>2. pos[s] \in Nat /\ pos[s] + 1 \in 1..Len(log[s]) /\ pos \in [Sources -> Nat]
  BY <1>1 DEF TypeOK, Pending
<1>3. \A t \in Sources : 1..pos'[t] =
        1..pos[t] \cup (IF t = s THEN {pos[s] + 1} ELSE {})
  BY <1>1, <1>2
<1>4. \A r : r \in Popped' <=> \E t \in Sources : \E i \in 1..pos'[t] : r = <<t, i>>
  BY DEF Popped
<1>5. \A r : r \in Popped <=> \E t \in Sources : \E i \in 1..pos[t] : r = <<t, i>>
  BY DEF Popped
<1>6. \A r : r \in Popped' <=> r \in Popped \/ r = <<s, pos[s] + 1>>
  BY <1>3, <1>4, <1>5
<1>7. QED  BY <1>1, <1>2, <1>6, HeadTimeType DEF TimeOf, HeadTime


\* What is still to be read after Take is not earlier than what it read.
LEMMA TakeHeads ==
  ASSUME TypeOK, Sorted, NEW s \in Sources, Take(s),
         NEW t \in Sources, Pending(t)'
  PROVE  /\ Pending(t) /\ HeadTime(t) \in Nat /\ HeadTime(t)' \in Nat
         /\ HeadTime(s) <= HeadTime(t)' /\ HeadTime(t) <= HeadTime(t)'
<1>1. /\ pos' = [pos EXCEPT ![s] = @ + 1] /\ log' = log /\ open' = open
      /\ lost \subseteq lost' /\ IsTop(s)
  BY DEF Take
<1>2. pos[s] \in Nat /\ pos[s] + 1 \in 1..Len(log[s]) /\ HeadTime(s) \in Nat
  BY TakePopped
<1>3. pos \in [Sources -> Nat] /\ pos[t] \in Nat /\ Len(log[t]) \in Nat
  BY DEF TypeOK
<1>4. t \in open \ lost /\ pos'[t] < Len(log[t])  BY <1>1 DEF Pending
<1>5. CASE t = s
  <2>1. pos'[s] = pos[s] + 1  BY <1>1, <1>3
  <2>2. pos[s] + 2 \in 1..Len(log[s])  BY <1>2, <1>3, <1>4, <1>5, <2>1
  <2>3. Pending(s)  BY <1>2, <1>4, <1>5 DEF Pending
  <2>4. HeadTime(s)' = log[s][pos[s] + 2] /\ HeadTime(s) = log[s][pos[s] + 1]
    BY <1>1, <1>2, <2>1 DEF HeadTime
  <2>5. log[s][pos[s] + 1] <= log[s][pos[s] + 2]
    <3>1. pos[s] + 1 <= pos[s] + 2  BY <1>2
    <3>2. QED  BY <1>2, <2>2, <3>1, SortedAt
  <2>6. log[s][pos[s] + 2] \in Nat  BY <2>2, TimeType
  <2>7. QED  BY <1>2, <1>5, <2>3, <2>4, <2>5, <2>6
<1>6. CASE t # s
  <2>1. pos'[t] = pos[t]  BY <1>1, <1>3, <1>6
  <2>2. Pending(t) /\ HeadTime(t)' = HeadTime(t)
    BY <1>1, <1>4, <2>1 DEF Pending, HeadTime
  <2>3. HeadTime(t) \in Nat  BY <2>2, HeadTimeType
  <2>4. HeadTime(s) <= HeadTime(t)  BY <1>1, <1>2, <2>2, <2>3 DEF IsTop
  <2>5. QED  BY <2>2, <2>3, <2>4
<1>7. QED  BY <1>5, <1>6

\* The first record opens the first cycle of the grid.
LEMMA FirstTakeLoop ==
  ASSUME MInv, Sorted, NEW s \in Sources, Take(s), next = None
  PROVE  Done' /\ OnGrid' /\ HeadsAfter' /\ DirtyIs'
<1>15. PICK q : q = <<s, pos[s] + 1>>  OBVIOUS
<1>0. IInv /\ TypeOK  BY DEF MInv, IInv
<1>1. PICK h \in Nat : h = HeadTime(s)  BY <1>0, TakePopped
<1>2. next' = h + Cycle /\ next' \in Nat /\ dirty' = TRUE /\ pc' = "merging"
      /\ emitted' = emitted
  BY <1>1 DEF Take, Boundary
<1>3. emitted = <<>> /\ Popped = {}  BY <1>0, PoppedIs DEF IInv
<1>4. Popped' = {q} /\ TimeOf(q) = h /\ \A r : TimeOf(r)' = TimeOf(r)
  BY <1>15, <1>0, <1>1, <1>3, TakePopped
<1>5. First' = h
  <2>1. First' = Min({TimeOf(r)' : r \in Popped'})  BY DEF First
  <2>2. {TimeOf(r)' : r \in Popped'} = {h}  BY <1>4
  <2>3. {h} \subseteq Nat /\ {h} # {}  OBVIOUS
  <2>4. Min({h}) \in {h}  BY <2>3, MinNatural
  <2>5. QED  BY <2>1, <2>2, <2>4
<1>6. Cycle * (0 + 1) = Cycle /\ Cycle * 0 = 0  OBVIOUS
<1>7. h + Cycle * ((h - h) \div Cycle + 1) = h + Cycle
  <2>1. h + Cycle * 0 <= h /\ h < h + Cycle * (0 + 1)  BY <1>6
  <2>2. h + Cycle * ((h - h) \div Cycle + 1) = h + Cycle * (0 + 1)  BY <2>1, GridLast
  <2>3. QED  BY <2>2, <1>6
<1>8. Ends' = {next'}
  <2>1. Ends' = {End(TimeOf(r))' : r \in Popped'}  BY DEF Ends
  <2>2. End(TimeOf(q))' = next'  BY <1>2, <1>4, <1>5, <1>7 DEF End
  <2>3. QED  BY <1>4, <2>1, <2>2
<1>9. Done'
  <2>1. Range(emitted') = {}  BY <1>2, <1>3 DEF Range
  <2>2. {x \in Ends' : ~(pc' = "merging" /\ dirty' /\ x = next')} = {}  BY <1>2, <1>8
  <2>3. QED  BY <2>1, <2>2 DEF Done
<1>10. OnGrid'
  <2>1. next' = First' + Cycle * (0 + 1)  BY <1>2, <1>5, <1>6
  <2>2. 0 \in Nat /\ Popped' # {}  BY <1>4
  <2>3. QED  BY <2>1, <2>2 DEF OnGrid
<1>11. HeadsAfter'
  <2> SUFFICES ASSUME NEW t \in Sources, Pending(t)'
               PROVE  /\ \A r \in Popped' : TimeOf(r)' <= HeadTime(t)'
                      /\ next' - Cycle <= HeadTime(t)'
    BY DEF HeadsAfter
  <2>1. h <= HeadTime(t)' /\ HeadTime(t)' \in Nat  BY <1>0, <1>1, TakeHeads
  <2>2. QED  BY <1>2, <1>4, <2>1
<1>12. DirtyIs'
  <2>1. next' - Cycle <= TimeOf(q)' /\ q \in Popped'  BY <1>2, <1>4
  <2>2. QED  BY <1>2, <2>1 DEF DirtyIs
<1>13. QED  BY <1>9, <1>10, <1>11, <1>12

\* A later record falls into the open cycle: nothing that is out changes.
LEMMA LaterTakeLoop ==
  ASSUME MInv, Sorted, NEW s \in Sources, Take(s), next # None
  PROVE  Done' /\ OnGrid' /\ HeadsAfter' /\ DirtyIs'
<1>15. PICK q : q = <<s, pos[s] + 1>>  OBVIOUS
<1>0. IInv /\ TypeOK /\ pc = "merging" /\ OnGrid /\ HeadsAfter /\ DirtyIs /\ Done
  BY DEF MInv, IInv, Take, Loop
<1>1. PICK h \in Nat : h = HeadTime(s)  BY <1>0, TakePopped
<1>2. next \in Nat  BY <1>0 DEF TypeOK
<1>3. /\ next' = next /\ dirty' = TRUE /\ pc' = "merging" /\ emitted' = emitted
      /\ log' = log /\ pos' = [pos EXCEPT ![s] = @ + 1] /\ h < next
  BY <1>0, <1>1, <1>2 DEF Take, Boundary, Due
<1>4. /\ Popped' = Popped \cup {q} /\ TimeOf(q) = h /\ \A r : TimeOf(r)' = TimeOf(r)
      /\ Pending(s) /\ pos[s] \in Nat
  BY <1>15, <1>0, <1>1, TakePopped
<1>5. /\ \A r \in Popped : TimeOf(r) <= h
      /\ next - Cycle <= h
  BY <1>0, <1>1, <1>4 DEF HeadsAfter
<1>6. First' = First
  <2> DEFINE T == {TimeOf(r) : r \in Popped'}
  <2>1. /\ Popped # {} /\ First \in Nat /\ \A r \in Popped : First <= TimeOf(r)
        /\ \E r \in Popped : First = TimeOf(r)
    BY <1>0, FirstIs DEF OnGrid
  <2>2. First <= h  BY <1>0, <1>5, <2>1, TimeOfType
  <2>3. \A x \in T : x \in Int /\ First <= x  BY <1>0, <1>4, <2>1, <2>2, TimeOfType
  <2>4. First \in T  BY <1>4, <2>1
  <2>5. First' = Min(T)  BY <1>4 DEF First
  <2> HIDE DEF T
  <2>6. T \subseteq Int /\ T # {} /\ First \in Int  BY <2>1, <2>3, <2>4
  <2>7. Min(T) \in T /\ \A x \in T : Min(T) <= x  BY <2>3, <2>6, MinBounded
  <2>8. QED  BY <2>1, <2>3, <2>4, <2>5, <2>6, <2>7
<1>7. Ends' = Ends \cup {next}
  <2>1. PICK k \in Nat : next = First + Cycle * (k + 1)  BY <1>0 DEF OnGrid
  <2>2. First \in Nat /\ First <= h
    <3>1. Popped # {}  BY <1>0 DEF OnGrid
    <3>2. QED  BY <3>1, <1>0, <1>5, FirstIs, TimeOfType
  <2>3. (First + Cycle * (k + 1)) - Cycle = First + Cycle * k
    BY <2>2, CycleAssumption, GridStep
  <2>4. next - Cycle = First + Cycle * k  BY <2>1, <2>3, Zenon
  <2>11. First + Cycle * k <= h  BY <1>5, <2>4, Zenon
  <2>5. First + Cycle * ((h - First) \div Cycle + 1) = First + Cycle * (k + 1)
    BY <1>3, <2>1, <2>2, <2>11, GridLast
  <2>6. End(h) = next  BY <2>1, <2>5 DEF End
  <2>7. \A r : End(TimeOf(r))' = End(TimeOf(r))  BY <1>4, <1>6 DEF End
  <2>8. Ends' = {End(TimeOf(r)) : r \in Popped'}  BY <2>7 DEF Ends
  <2>9. QED  BY <1>4, <2>6, <2>8 DEF Ends
<1>8. \A e \in Ends : e = next \/ (e \in Nat /\ e <= next - Cycle)
  BY <1>0, EndIs DEF Ends
<1>9. ~dirty => next \notin Ends
  <2> SUFFICES ASSUME ~dirty, NEW r \in Popped PROVE End(TimeOf(r)) # next
    BY DEF Ends
  <2>1. ~(next - Cycle <= TimeOf(r))  BY <1>0 DEF DirtyIs
  <2>2. End(TimeOf(r)) \in Nat /\ End(TimeOf(r)) <= next - Cycle  BY <1>0, <2>1, EndIs
  <2>3. QED  BY <1>2, <2>2
<1>10. Done'
  <2>1. {x \in Ends' : ~(pc' = "merging" /\ dirty' /\ x = next')} = Ends \ {next}
    BY <1>3, <1>7
  <2>2. {x \in Ends : ~(pc = "merging" /\ dirty /\ x = next)} = Ends \ {next}
    BY <1>0, <1>9 DEF TypeOK
  <2>3. \A e \in Ends \ {next} : Blended(e)' = Blended(e)
    <3> TAKE e \in Ends \ {next}
    <3>1. e \in Nat /\ e <= h  BY <1>1, <1>2, <1>5, <1>8
    <3>2. \A t \in Sources : Before(t, e)' = Before(t, e)
      <4> TAKE t \in Sources
      <4>1. Before(t, e)' = {i \in 1..pos'[t] : log[t][i] < e}  BY <1>3 DEF Before
      <4>2. CASE t = s
        <5>1. pos'[s] = pos[s] + 1  BY <1>0, <1>3 DEF TypeOK
        <5>2. log[s][pos[s] + 1] = h  BY <1>1 DEF HeadTime
        <5>3. \A i : i \in 1..(pos[s] + 1) <=> i \in 1..pos[s] \/ i = pos[s] + 1
          BY <1>4
        <5>4. ~(log[s][pos[s] + 1] < e)  BY <3>1, <5>2
        <5>5. QED  BY <4>1, <4>2, <5>1, <5>3, <5>4 DEF Before
      <4>3. CASE t # s
        <5>1. pos'[t] = pos[t]  BY <1>0, <1>3, <4>3 DEF TypeOK
        <5>2. QED  BY <4>1, <5>1 DEF Before
      <4>4. QED  BY <4>2, <4>3
    <3>3. Blend(e)' = Blend(e)  BY <1>4, <3>2 DEF Blend
    <3>4. QED  BY <3>3 DEF Blended
  <2>4. Range(emitted) = {Blended(e) : e \in Ends \ {next}}  BY <1>0, <2>2 DEF Done
  <2>5. {Blended(e)' : e \in Ends \ {next}} = {Blended(e) : e \in Ends \ {next}}
    BY <2>3
  <2>6. QED  BY <1>3, <2>1, <2>4, <2>5 DEF Done
<1>11. OnGrid'
  <2>1. Popped' # {}  BY <1>4
  <2>2. QED  BY <1>0, <1>3, <1>6, <2>1 DEF OnGrid
<1>12. HeadsAfter'
  <2> SUFFICES ASSUME NEW t \in Sources, Pending(t)'
               PROVE  /\ \A r \in Popped' : TimeOf(r)' <= HeadTime(t)'
                      /\ next' - Cycle <= HeadTime(t)'
    BY DEF HeadsAfter
  <2>1. /\ Pending(t) /\ HeadTime(t) \in Nat /\ HeadTime(t)' \in Nat
        /\ h <= HeadTime(t)' /\ HeadTime(t) <= HeadTime(t)'
    BY <1>0, <1>1, TakeHeads
  <2>2. \A r \in Popped : TimeOf(r) \in Nat /\ TimeOf(r) <= HeadTime(t)
    BY <1>0, <2>1, TimeOfType DEF HeadsAfter
  <2>3. next - Cycle <= HeadTime(t)  BY <1>0, <2>1 DEF HeadsAfter
  <2>4. \A r \in Popped' : TimeOf(r) <= HeadTime(t)'  BY <1>4, <2>1, <2>2
  <2>5. QED  BY <1>2, <1>3, <1>4, <2>1, <2>3, <2>4
<1>13. DirtyIs'
  <2>1. next' - Cycle <= TimeOf(q)' /\ q \in Popped'  BY <1>3, <1>4, <1>5
  <2>2. QED  BY <1>3, <2>1 DEF DirtyIs
<1>14. QED  BY <1>10, <1>11, <1>12, <1>13

LEMMA StepLoop ==
  ASSUME MInv, [Next]_vars
  PROVE  Loop'
<1> SUFFICES ASSUME Sorted'
             PROVE  Done' /\ (pc' = "merging" => OnGrid' /\ HeadsAfter' /\ DirtyIs')
  BY DEF Loop
<1>0. Sorted
  BY DEF Next, Merge, Start, Take, CloseCycle, Flush, Close, WriteManifest, Crash, vars, Sorted
<1>1. CASE Start \/ Crash
  <2>1. next' = None /\ pos' = NoneRead /\ emitted' = <<>>  BY <1>1 DEF Start, Crash
  <2>2. \A t \in Sources : 1..pos'[t] = {}  BY <2>1 DEF NoneRead
  <2>3. Popped' = {}  BY <2>2 DEF Popped
  <2>4. Ends' = {} /\ Range(emitted') = {}  BY <2>1, <2>3 DEF Ends, Range
  <2>5. Done'  BY <2>4 DEF Done
  <2>6. OnGrid' /\ HeadsAfter' /\ DirtyIs'
    BY <2>1, <2>3 DEF OnGrid, HeadsAfter, DirtyIs
  <2>7. QED  BY <2>5, <2>6
<1>2. CASE CloseCycle
  BY <1>0, <1>2, CloseCycleLoop
<1>3. CASE \E s \in Sources : Take(s)
  BY <1>0, <1>3, FirstTakeLoop, LaterTakeLoop
<1>4. CASE Flush
  <2>1. /\ Range(emitted') = {Blended(e) : e \in Ends}
        /\ UNCHANGED <<log, pos>> /\ pc' = "closing"
    BY <1>0, <1>4, EmitDone DEF Flush
  <2>2. Ends' = Ends /\ \A e : Blended(e)' = Blended(e)  BY <2>1, SameRecords
  <2>3. {x \in Ends' : ~(pc' = "merging" /\ dirty' /\ x = next')} = Ends
    BY <2>1, <2>2
  <2>4. QED  BY <2>1, <2>2, <2>3 DEF Done
<1>5. CASE Close \/ WriteManifest
  <2>1. UNCHANGED <<log, pos, emitted>> /\ pc # "merging" /\ pc' # "merging"
    BY <1>5 DEF Close, WriteManifest
  <2>2. Ends' = Ends /\ \A e : Blended(e)' = Blended(e)  BY <2>1, SameRecords
  <2>3. Done  BY <1>0 DEF MInv, Loop
  <2>4. QED  BY <2>1, <2>2, <2>3 DEF Done
<1>6. CASE UNCHANGED vars
  <2>1. UNCHANGED <<log, pos, emitted, pc, open, lost, next, dirty>>  BY <1>6 DEF vars
  <2>2. /\ Popped' = Popped /\ Ends' = Ends /\ First' = First
        /\ \A r : TimeOf(r)' = TimeOf(r)
        /\ \A e : Blended(e)' = Blended(e)
    BY <2>1, SameRecords
  <2>3. Done /\ (pc = "merging" => OnGrid /\ HeadsAfter /\ DirtyIs)
    BY <1>0 DEF MInv, Loop
  <2>4. Done'  BY <2>1, <2>2, <2>3 DEF Done
  <2>5. OnGrid => OnGrid'  BY <2>1, <2>2 DEF OnGrid
  <2>6. HeadsAfter => HeadsAfter'
    BY <2>1, <2>2 DEF HeadsAfter, Pending, HeadTime
  <2>7. DirtyIs => DirtyIs'  BY <2>1, <2>2 DEF DirtyIs
  <2>8. QED  BY <2>1, <2>3, <2>4, <2>5, <2>6, <2>7
<1>7. QED  BY <1>1, <1>2, <1>3, <1>4, <1>5, <1>6 DEF Next, Merge

LEMMA StepReading ==
  ASSUME MInv, [Next]_vars
  PROVE  Opened' /\ ReadOut'
<1>0. TypeOK /\ Opened /\ ReadOut  BY DEF MInv, IInv
<1>1. CASE Start \/ Crash
  <2>1. pos' = NoneRead /\ pc' \in {"idle", "merging"}  BY <1>1 DEF Start, Crash
  <2>2. QED  BY <2>1 DEF Opened, ReadOut, NoneRead
<1>2. ASSUME NEW s \in Sources, Take(s) PROVE Opened' /\ ReadOut'
  <2>1. /\ s \in open /\ open' = open /\ pc' = "merging"
        /\ pos' = [pos EXCEPT ![s] = @ + 1] /\ pos \in [Sources -> Nat]
    BY <1>0, <1>2 DEF Take, IsTop, Pending, TypeOK
  <2>2. QED  BY <1>0, <2>1 DEF Opened, ReadOut
<1>3. CASE Flush
  <2>1. /\ UNCHANGED <<log, open, lost, pos>>
        /\ \A s \in Sources : ~Pending(s)
    BY <1>3 DEF Flush
  <2>2. \A s \in open \ lost : s \in Sources /\ ~(pos[s] < Len(log[s]))
    BY <1>0, <2>1 DEF Pending, TypeOK
  <2>3. \A s \in Sources : pos[s] \in Nat /\ Len(log[s]) \in Nat /\ pos[s] <= Len(log[s])
    BY <1>0 DEF TypeOK
  <2>4. \A s \in open \ lost : pos[s] = Len(log[s])  BY <2>2, <2>3
  <2>5. QED  BY <1>0, <2>1, <2>4 DEF Opened, ReadOut
<1>4. CASE CloseCycle \/ Close \/ WriteManifest \/ UNCHANGED vars
  <2>1. /\ UNCHANGED <<log, open, lost, pos>>
        /\ pc' \in {"closing", "closed"} => pc \in {"closing", "closed"}
    BY <1>4 DEF CloseCycle, Close, WriteManifest, vars
  <2>2. QED  BY <1>0, <2>1 DEF Opened, ReadOut
<1>5. QED  BY <1>1, <1>2, <1>3, <1>4 DEF Next, Merge

LEMMA InitLoop == Init => MInv
<1> SUFFICES ASSUME Init PROVE MInv
  OBVIOUS
<1>1. IInv  BY InitInv
<1>2. pos = NoneRead /\ emitted = <<>> /\ pc = "idle"  BY DEF Init
<1>3. Opened /\ ReadOut  BY <1>2 DEF Opened, ReadOut, NoneRead
<1>4. \A t \in Sources : 1..pos[t] = {}  BY <1>2 DEF NoneRead
<1>5. Popped = {}  BY <1>4 DEF Popped
<1>6. Ends = {} /\ Range(emitted) = {}  BY <1>2, <1>5 DEF Ends, Range
<1>7. Done  BY <1>6 DEF Done
<1>8. QED  BY <1>1, <1>2, <1>3, <1>7 DEF MInv, Loop

\* On logs that are in order, whatever the sources and their number, the cycle
\* and the staleness: at every moment of every run the output is the reference
\* definition over the records read so far, less the cycle that is still open,
\* in the order of time.
THEOREM MergeIsReference == Spec => []MatchesReference
<1>1. MInv => MatchesReference
  <2> SUFFICES ASSUME MInv PROVE MatchesReference
    OBVIOUS
  <2>1. Reference = {Blended(e) : e \in Ends}
    <3>1. Reference = {Blended(e) : e \in {End(TimeOf(r)) : r \in Popped}}
      BY DEF Reference, Blended
    <3>2. QED  BY <3>1 DEF Ends
  <2>2. \A e : Blended(e).at = e  BY DEF Blended
  <2>3. {c \in Reference : ~(pc = "merging" /\ dirty /\ c.at = next)} =
          {Blended(e) : e \in {x \in Ends : ~(pc = "merging" /\ dirty /\ x = next)}}
    BY <2>1, <2>2
  <2>4. StrictlyIncreasing /\ ReadOut /\ (Sorted => Done)  BY DEF MInv, IInv, Loop
  <2>5. QED  BY <2>3, <2>4 DEF Done, ReadOut, MatchesReference
<1>2. MInv /\ [Next]_vars => MInv'
  BY StepInv, StepReading, StepLoop DEF MInv
<1>3. QED  BY <1>1, <1>2, InitLoop, PTL DEF Spec
=============================================================================
