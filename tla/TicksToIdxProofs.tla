--------------------------- MODULE TicksToIdxProofs ---------------------------
(***************************************************************************)
(* Theorems about TicksToIdx, for any files (in order or not), any cycle   *)
(* and any pattern of failures.                                            *)
(***************************************************************************)
EXTENDS TicksToIdx, TLAPS

-----------------------------------------------------------------------------
(* Quotients.                                                              *)

\* The arithmetic of the grid of cycles.
LEMMA ProductMonotone ==
  ASSUME NEW c \in Nat, NEW a \in Int, NEW b \in Int, a <= b
  PROVE  c * a <= c * b
  OBVIOUS

LEMMA Quotient ==
  ASSUME NEW x \in Nat, NEW c \in Nat \ {0}
  PROVE  x \div c \in Nat /\ c * (x \div c) <= x /\ x < c * (x \div c) + c
  OBVIOUS

LEMMA QuotientUnique ==
  ASSUME NEW x \in Nat, NEW c \in Nat \ {0}, NEW k \in Nat,
         c * k <= x, x < c * k + c
  PROVE  x \div c = k
<1> DEFINE q == x \div c
<1>1. q \in Nat /\ c * q <= x /\ x < c * q + c  BY Quotient
<1> HIDE DEF q
<1>2. ASSUME q + 1 <= k PROVE FALSE
  <2>1. c * (q + 1) <= c * k  BY <1>1, <1>2, ProductMonotone
  <2>2. c * (q + 1) = c * q + c  BY <1>1
  <2>3. c * q \in Nat /\ c * k \in Nat  BY <1>1
  <2>4. QED  BY <1>1, <2>1, <2>2, <2>3
<1>3. ASSUME k + 1 <= q PROVE FALSE
  <2>1. c * (k + 1) <= c * q  BY <1>1, <1>3, ProductMonotone
  <2>2. c * (k + 1) = c * k + c  OBVIOUS
  <2>3. c * q \in Nat /\ c * k \in Nat  BY <1>1
  <2>4. QED  BY <1>1, <2>1, <2>2, <2>3
<1>4. q = k  BY <1>1, <1>2, <1>3
<1>5. QED  BY <1>4 DEF q

\* Where the cycle of a time ends on a grid that starts at f: at the next point
\* for a time of the last cycle, at an earlier one for an earlier time.
LEMMA GridLast ==
  ASSUME NEW c \in Nat \ {0}, NEW f \in Nat, NEW k \in Nat, NEW t \in Nat,
         f + c * k <= t, t < f + c * (k + 1)
  PROVE  f + c * ((t - f) \div c + 1) = f + c * (k + 1)
<1>1. c * k \in Nat /\ c * (k + 1) = c * k + c  OBVIOUS
<1>2. t - f \in Nat /\ c * k <= t - f /\ t - f < c * k + c  BY <1>1
<1>3. (t - f) \div c = k  BY <1>2, QuotientUnique
<1>4. QED  BY <1>3

LEMMA GridStep ==
  ASSUME NEW c \in Nat \ {0}, NEW f \in Nat, NEW k \in Nat
  PROVE  /\ (f + c * (k + 1)) + c = f + c * ((k + 1) + 1)
         /\ (f + c * (k + 1)) - c = f + c * k
<1>1. c * k \in Nat /\ c * (k + 1) = c * k + c /\ c * ((k + 1) + 1) = c * (k + 1) + c
  OBVIOUS
<1>2. QED  BY <1>1

LEMMA GridEarlier ==
  ASSUME NEW c \in Nat \ {0}, NEW f \in Nat, NEW k \in Nat, NEW t \in Nat,
         f <= t, t < f + c * k
  PROVE  /\ f + c * ((t - f) \div c + 1) \in Nat
         /\ f + c * ((t - f) \div c + 1) <= f + c * k
<1> DEFINE q == (t - f) \div c
<1>1. t - f \in Nat /\ c * k \in Nat  OBVIOUS
<1>2. q \in Nat /\ c * q <= t - f  BY <1>1, Quotient
<1> HIDE DEF q
<1>3. c * q \in Nat /\ c * (q + 1) \in Nat  BY <1>2
<1>4. ASSUME k <= q PROVE FALSE
  <2>1. c * k <= c * q  BY <1>2, <1>4, ProductMonotone
  <2>2. QED  BY <1>1, <1>2, <1>3, <2>1
<1>5. q + 1 <= k  BY <1>2, <1>4
<1>6. c * (q + 1) <= c * k  BY <1>2, <1>5, ProductMonotone
<1>7. f + c * (q + 1) \in Nat /\ f + c * (q + 1) <= f + c * k  BY <1>1, <1>3, <1>6
<1>8. QED  BY <1>7 DEF q

-----------------------------------------------------------------------------
USE TimesAssumption, InputsAssumption, CycleAssumption, NoneAssumption

-----------------------------------------------------------------------------
(* Sequences of records.                                                   *)

In(s) == UNION {s[i].of : i \in 1..Len(s)}

\* EachTickOnce and StampedAfter as statements about any sequence s, the ticks
\* a that are open and those d that were dropped.
Once(s, a, d) ==
  /\ \A i, j \in 1..Len(s) : i # j => s[i].of \cap s[j].of = {}
  /\ a \cap In(s) = {} /\ d \cap (a \cup In(s)) = {}
Stamped(s) == \A i \in 1..Len(s) : \A n \in s[i].of : TickOf(n).at < s[i].at

LEMMA Appended ==
  ASSUME NEW s \in Seq(Records), NEW r \in Records
  PROVE  /\ Append(s, r) \in Seq(Records) /\ Len(Append(s, r)) = Len(s) + 1
         /\ Len(s) \in Nat
         /\ \A i \in 1..Len(s) : Append(s, r)[i] = s[i]
         /\ Append(s, r)[Len(s) + 1] = r
         /\ In(Append(s, r)) = In(s) \cup r.of
<1> DEFINE t == Append(s, r)
<1>1. /\ t \in Seq(Records) /\ Len(t) = Len(s) + 1 /\ Len(s) \in Nat
      /\ \A i \in 1..Len(s) : t[i] = s[i]
      /\ t[Len(s) + 1] = r
  OBVIOUS
<1>2. 1..Len(t) = 1..Len(s) \cup {Len(s) + 1}
  BY <1>1
<1> HIDE DEF t
<1>3. In(t) = In(s) \cup r.of
  <2>1. ASSUME NEW n \in In(t) PROVE n \in In(s) \cup r.of
    <3>1. PICK i \in 1..Len(t) : n \in t[i].of
      BY <2>1 DEF In
    <3>2. QED  BY <3>1, <1>1, <1>2 DEF In
  <2>2. ASSUME NEW n \in In(s) PROVE n \in In(t)
    <3>1. PICK i \in 1..Len(s) : n \in s[i].of
      BY <2>2 DEF In
    <3>2. t[i].of = s[i].of /\ i \in 1..Len(t)
      BY <3>1, <1>1, <1>2
    <3>3. QED  BY <3>1, <3>2 DEF In
  <2>3. ASSUME NEW n \in r.of PROVE n \in In(t)
    <3>1. Len(s) + 1 \in 1..Len(t)
      BY <1>1
    <3>2. QED  BY <3>1, <2>3, <1>1 DEF In
  <2>4. QED  BY <2>1, <2>2, <2>3
<1>4. QED  BY <1>1, <1>3 DEF t

LEMMA Cut ==
  ASSUME NEW s \in Seq(Records), NEW n \in 0..Len(s)
  PROVE  /\ SubSeq(s, 1, n) \in Seq(Records) /\ Len(SubSeq(s, 1, n)) = n
         /\ \A i \in 1..n : SubSeq(s, 1, n)[i] = s[i] /\ i \in 1..Len(s)
         /\ In(SubSeq(s, 1, n)) \subseteq In(s)
<1> DEFINE t == SubSeq(s, 1, n)
<1>1. Len(s) \in Nat /\ n \in Nat /\ n <= Len(s)
  OBVIOUS
<1>2. /\ t \in Seq(Records) /\ Len(t) = n
      /\ \A i \in 1..n : t[i] = s[i] /\ i \in 1..Len(s)
  BY <1>1
<1> HIDE DEF t
<1>3. In(t) \subseteq In(s)
  BY <1>2 DEF In
<1>4. QED  BY <1>2, <1>3 DEF t

\* The open ticks become a record.
LEMMA OnceAppended ==
  ASSUME NEW s \in Seq(Records), NEW r \in Records, NEW d, Once(s, r.of, d)
  PROVE  Once(Append(s, r), {}, d)
<1> DEFINE t == Append(s, r)
<1>1. /\ Len(t) = Len(s) + 1 /\ Len(s) \in Nat
      /\ \A i \in 1..Len(s) : t[i] = s[i]
      /\ t[Len(s) + 1] = r
      /\ In(t) = In(s) \cup r.of
  BY Appended
<1> HIDE DEF t
<1>2. ASSUME NEW i \in 1..Len(t), NEW j \in 1..Len(t), i # j
      PROVE  t[i].of \cap t[j].of = {}
  <2>1. CASE i \in 1..Len(s) /\ j \in 1..Len(s)
    <3>1. t[i] = s[i] /\ t[j] = s[j]
      BY <2>1, <1>1
    <3>2. QED  BY <3>1, <2>1, <1>2 DEF Once
  <2>2. CASE i \in 1..Len(s) /\ j = Len(s) + 1
    <3>1. t[i] = s[i] /\ t[j] = r /\ s[i].of \subseteq In(s)
      BY <2>2, <1>1 DEF In
    <3>2. QED  BY <3>1 DEF Once
  <2>3. CASE i = Len(s) + 1 /\ j \in 1..Len(s)
    <3>1. t[j] = s[j] /\ t[i] = r /\ s[j].of \subseteq In(s)
      BY <2>3, <1>1 DEF In
    <3>2. QED  BY <3>1 DEF Once
  <2>4. QED  BY <2>1, <2>2, <2>3, <1>1, <1>2
<1>3. QED  BY <1>1, <1>2 DEF Once, t

LEMMA OnceCut ==
  ASSUME NEW s \in Seq(Records), NEW n \in 0..Len(s), NEW d, Once(s, {}, d)
  PROVE  Once(SubSeq(s, 1, n), {}, d)
<1> DEFINE t == SubSeq(s, 1, n)
<1>1. /\ Len(t) = n /\ \A i \in 1..n : t[i] = s[i] /\ i \in 1..Len(s)
      /\ In(t) \subseteq In(s)
  BY Cut
<1> HIDE DEF t
<1>2. QED  BY <1>1 DEF Once, t

LEMMA StampedAppended ==
  ASSUME NEW s \in Seq(Records), NEW r \in Records, Stamped(s),
         \A n \in r.of : TickOf(n).at < r.at
  PROVE  Stamped(Append(s, r))
<1> DEFINE t == Append(s, r)
<1>1. /\ Len(t) = Len(s) + 1 /\ Len(s) \in Nat
      /\ \A i \in 1..Len(s) : t[i] = s[i]
      /\ t[Len(s) + 1] = r
  BY Appended
<1> HIDE DEF t
<1>2. ASSUME NEW i \in 1..Len(t) PROVE \A n \in t[i].of : TickOf(n).at < t[i].at
  <2>1. CASE i \in 1..Len(s)
    BY <2>1, <1>1 DEF Stamped
  <2>2. CASE i = Len(s) + 1
    BY <2>2, <1>1
  <2>3. QED  BY <2>1, <2>2, <1>1
<1>3. QED  BY <1>2 DEF Stamped, t

LEMMA StampedCut ==
  ASSUME NEW s \in Seq(Records), NEW n \in 0..Len(s), Stamped(s)
  PROVE  Stamped(SubSeq(s, 1, n))
  BY Cut DEF Stamped

-----------------------------------------------------------------------------
(* The inductive invariant.                                                *)

\* Every tick taken is behind the cursor: none is taken a second time.
Behind ==
  \A n \in taken :
    n[1] <= month /\ (n[1] = month => n[2] <= file /\ (n[2] = file => n[3] <= pos))

\* Every tick taken has a time.
Timed == \A n \in taken : TickOf(n).at \in Nat

\* The boundary is ahead of what is open, and nothing is open between two runs.
OpenBefore ==
  /\ acc # {} => next # None /\ \A n \in acc : TickOf(n).at < next
  /\ pc # "folding" => acc = {}

IInv == TypeOK /\ Behind /\ Timed /\ OpenBefore /\ EachTickOnce /\ StampedAfter

\* What a name is made of, and where the cursor is.
LEMMA Named ==
  ASSUME TypeOK, NEW n \in taken
  PROVE  n[1] \in Nat /\ n[2] \in Nat /\ n[3] \in Nat
  BY DEF TypeOK, Names

LEMMA FilesType ==
  ASSUME TypeOK, pc = "folding"
  PROVE  /\ Files \in Seq(Seq(Ticks)) /\ Len(Files) \in Nat /\ Len(log) \in Nat
         /\ month \in Nat /\ file \in Nat /\ pos \in Nat
<1>1. /\ input \in Seq(Seq(Seq(Ticks))) /\ Len(input) \in Nat /\ month \in 1..Len(input)
      /\ file \in Nat /\ pos \in Nat /\ log \in Seq(Records)
  BY DEF TypeOK
<1>2. Files \in Seq(Seq(Ticks))
  BY <1>1 DEF Files
<1>3. QED  BY <1>1, <1>2

LEMMA Parts ==
  /\ EachTickOnce <=> /\ Once(log, acc, dropped)
                      /\ pc # "down" => taken = In(log) \cup acc \cup dropped
  /\ StampedAfter <=> Stamped(log)
  BY DEF EachTickOnce, StampedAfter, Recorded, Once, Stamped, In

\* The frame under the cursor.
LEMMA FrameType ==
  ASSUME TypeOK, Streaming, pos < Len(Files[file])
  PROVE  /\ Files[file] \in Seq(Ticks) /\ Len(Files) \in Nat /\ Len(Files[file]) \in Nat
         /\ file \in 1..Len(Files) /\ pos + 1 \in 1..Len(Files[file])
         /\ Frame(file, pos + 1) \in Ticks
         /\ Name(file, pos + 1) \in Names
         /\ TickOf(Name(file, pos + 1)) = Frame(file, pos + 1)
         /\ Now \in Nat
<1>1. /\ input \in Seq(Seq(Seq(Ticks))) /\ Len(input) \in Nat /\ month \in 1..Len(input)
      /\ file \in Nat \ {0} /\ pos \in Nat
  BY DEF TypeOK, Streaming
<1>2. Files \in Seq(Seq(Ticks)) /\ Len(Files) \in Nat
  BY <1>1 DEF Files
<1>3. file \in 1..Len(Files)
  BY <1>1, <1>2 DEF Streaming
<1>4. Files[file] \in Seq(Ticks) /\ Len(Files[file]) \in Nat
  BY <1>2, <1>3
<1>5. pos + 1 \in 1..Len(Files[file])
  BY <1>1, <1>4
<1>6. Frame(file, pos + 1) \in Ticks
  BY <1>4, <1>5 DEF Frame
<1>7. Now \in Nat
  BY <1>6 DEF Now, Ticks
<1>8. Name(file, pos + 1) \in Names /\ TickOf(Name(file, pos + 1)) = Frame(file, pos + 1)
  BY <1>1 DEF Name, Names, TickOf, Frame, Files
<1>9. QED  BY <1>2, <1>3, <1>4, <1>5, <1>6, <1>7, <1>8

\* The log with the record of what is open, stamped e.
LEMMA Extended ==
  ASSUME IInv, NEW e \in Nat, \A n \in acc : TickOf(n).at < e,
         NEW s, s = IF acc = {} THEN log ELSE Append(log, [at |-> e, of |-> acc])
  PROVE  /\ s \in Seq(Records) /\ Len(s) \in Nat /\ synced \in Nat /\ synced <= Len(s)
         /\ Once(s, {}, dropped) /\ Stamped(s) /\ In(s) = In(log) \cup acc
<1>1. /\ log \in Seq(Records) /\ Len(log) \in Nat /\ synced \in 0..Len(log)
      /\ acc \in SUBSET Names
  BY DEF IInv, TypeOK
<1>2. Once(log, acc, dropped) /\ Stamped(log)
  BY Parts DEF IInv
<1>3. CASE acc = {}
  BY <1>1, <1>2, <1>3 DEF Once
<1>4. CASE acc # {}
  <2> DEFINE r == [at |-> e, of |-> acc]
  <2>1. r \in Records /\ r.of = acc /\ r.at = e /\ s = Append(log, r)
    BY <1>1, <1>4 DEF Records
  <2> HIDE DEF r
  <2>2. /\ s \in Seq(Records) /\ Len(s) = Len(log) + 1 /\ In(s) = In(log) \cup acc
    BY <1>1, <2>1, Appended
  <2>3. Once(s, {}, dropped)
    BY <1>1, <1>2, <2>1, OnceAppended
  <2>4. Stamped(s)
    BY <1>1, <1>2, <2>1, StampedAppended
  <2>5. QED  BY <1>1, <2>2, <2>3, <2>4
<1>5. QED  BY <1>3, <1>4

LEMMA InitInv == Init => IInv
<1> SUFFICES ASSUME Init PROVE IInv
  OBVIOUS
<1>1. input \in Seq(Seq(Seq(Ticks))) /\ Len(input) \in Nat
  BY DEF Init
<1>2. TypeOK
  BY <1>1 DEF Init, TypeOK
<1>3. Behind /\ Timed /\ OpenBefore
  BY DEF Init, Behind, Timed, OpenBefore
<1>4. In(log) = {} /\ Len(log) = 0
  BY DEF Init, In
<1>5. EachTickOnce /\ StampedAfter
  BY <1>4, Parts DEF Init, Once, Stamped
<1>6. QED  BY <1>2, <1>3, <1>5 DEF IInv

LEMMA StartStep == IInv /\ Start => IInv'
<1> SUFFICES ASSUME IInv, Start PROVE IInv'
  OBVIOUS
<1>1. /\ month \in Nat /\ Len(input) \in Nat /\ month + 1 \in 1..Len(input) /\ month' = month + 1
      /\ input' = input /\ log' = log /\ dropped' = dropped /\ taken' = taken
      /\ synced' = synced /\ acc' = {} /\ acc = {} /\ pc = "idle" /\ pc' \in {"idle", "folding"}
      /\ remove' = remove /\ next' = None /\ last' = 0 /\ pos' = 0
  BY DEF IInv, TypeOK, Start, history, OpenBefore
<1>2. /\ input[month + 1] \in Seq(Seq(Ticks)) /\ Len(input[month + 1]) \in Nat
  BY <1>1 DEF IInv, TypeOK
<1>3. /\ file' \in 1..(Len(input[month + 1]) + 1) /\ raw' = 1..Len(input[month + 1])
      /\ Files' = input[month + 1]
  BY <1>1 DEF Start, Files
<1>4. file' <= Len(Files') => Len(Files'[file']) \in Nat
  BY <1>2, <1>3
<1>5. TypeOK'
  BY <1>1, <1>2, <1>3, <1>4 DEF IInv, TypeOK
<1>6. Behind'
  BY <1>1 DEF IInv, Behind, TypeOK, Names
<1>7. OpenBefore'
  BY <1>1 DEF OpenBefore
<1>8. Timed' /\ EachTickOnce' /\ StampedAfter'
  BY <1>1 DEF IInv, Timed, EachTickOnce, StampedAfter, Recorded, TickOf
<1>9. QED  BY <1>5, <1>6, <1>7, <1>8 DEF IInv

LEMMA SkipStep == IInv /\ Skip => IInv'
<1> SUFFICES ASSUME IInv, Skip PROVE IInv'
  OBVIOUS
<1>1. /\ pos' = pos + 1 /\ Files' = Files /\ pc = "folding" /\ pc' = pc
      /\ file' = file /\ log' = log /\ input' = input /\ month' = month
      /\ UNCHANGED <<remove, raw, synced, acc, next, last, taken, dropped>>
      /\ Streaming /\ pos < Len(Files[file])
  BY DEF Skip, disk, clock, history, Files, Streaming
<1>2. pos \in Nat /\ Len(Files[file]) \in Nat /\ pos + 1 <= Len(Files[file])
  <2>1. pos \in Nat /\ Len(Files[file]) \in Nat
    BY <1>1, FrameType DEF IInv, TypeOK
  <2>2. QED  BY <2>1, <1>1
<1>3. TypeOK'
  BY <1>1, <1>2 DEF IInv, TypeOK
<1>4. Behind'
  <2>1. ASSUME NEW n \in taken
        PROVE  n[1] <= month /\ (n[1] = month => n[2] <= file /\ (n[2] = file => n[3] <= pos'))
    <3>1. /\ n[3] \in Nat /\ n[1] <= month
          /\ n[1] = month => n[2] <= file /\ (n[2] = file => n[3] <= pos)
      BY Named DEF IInv, Behind
    <3>2. QED  BY <3>1, <1>1, <1>2
  <2>2. QED  BY <2>1, <1>1 DEF Behind
<1>5. Timed' /\ OpenBefore' /\ EachTickOnce' /\ StampedAfter'
  BY <1>1 DEF IInv, Timed, OpenBefore, EachTickOnce, StampedAfter, Recorded, TickOf
<1>6. QED  BY <1>3, <1>4, <1>5 DEF IInv

LEMMA CloseCycleStep == IInv /\ CloseCycle => IInv'
<1> SUFFICES ASSUME IInv, CloseCycle PROVE IInv'
  OBVIOUS
<1>1. /\ UNCHANGED <<input, month, remove, raw, synced, pc, file, pos, last, first, taken, dropped>>
      /\ acc' = {} /\ next' = next + Cycle /\ pc = "folding" /\ next # None
      /\ log' = IF acc = {} THEN log ELSE Append(log, [at |-> next, of |-> acc])
  BY DEF CloseCycle, history, AtTick, Streaming, Due, Boundary
<1>2. next \in Nat
  BY <1>1 DEF IInv, TypeOK
<1>3. \A n \in acc : TickOf(n).at < next
  BY DEF IInv, OpenBefore
<1>4. /\ log' \in Seq(Records) /\ Len(log') \in Nat /\ synced \in Nat /\ synced <= Len(log')
      /\ Once(log', {}, dropped) /\ Stamped(log') /\ In(log') = In(log) \cup acc
  BY <1>1, <1>2, <1>3, Extended
<1>5. Files' = Files /\ Recorded(Len(log))' = In(log')
  BY <1>1 DEF Files, Recorded, In
<1>6. TypeOK'
  BY <1>1, <1>2, <1>4, <1>5 DEF IInv, TypeOK
<1>7. Behind' /\ Timed' /\ OpenBefore'
  BY <1>1 DEF IInv, Behind, Timed, TickOf, OpenBefore
<1>8. taken = In(log) \cup acc \cup dropped
  BY <1>1, Parts DEF IInv
<1>9. EachTickOnce' /\ StampedAfter'
  BY <1>1, <1>4, <1>5, <1>8 DEF EachTickOnce, StampedAfter, Once, Stamped, TickOf, In
<1>10. QED  BY <1>6, <1>7, <1>9 DEF IInv

LEMMA CloseCycleFailsStep == IInv /\ CloseCycleFails => IInv'
<1> SUFFICES ASSUME IInv, CloseCycleFails PROVE IInv'
  OBVIOUS
<1>1. /\ UNCHANGED <<input, month, remove, raw, log, synced, pc, next, last, first, taken>>
      /\ acc' = {} /\ dropped' = dropped \cup acc /\ pc = "folding"
      /\ file' \in (file + 1)..(Len(Files) + 1) /\ pos' = 0 /\ Files' = Files
  BY DEF CloseCycleFails, clock, disk, AtTick, Streaming, NextFile, Files
<1>2. /\ Len(Files) \in Nat /\ month \in Nat /\ file \in Nat /\ pos \in Nat
      /\ Files \in Seq(Seq(Ticks))
  BY <1>1, FilesType DEF IInv
<1>3. /\ file' \in Nat \ {0} /\ file < file' /\ file' <= Len(Files) + 1
      /\ file' <= Len(Files) => Len(Files[file']) \in Nat
  BY <1>1, <1>2
<1>4. TypeOK'
  BY <1>1, <1>2, <1>3 DEF IInv, TypeOK
<1>5. Behind'
  <2>1. ASSUME NEW n \in taken
        PROVE  n[1] <= month /\ (n[1] = month => n[2] <= file' /\ n[2] # file')
    <3>1. n[2] \in Nat /\ n[1] <= month /\ (n[1] = month => n[2] <= file)
      BY Named DEF IInv, Behind
    <3>2. QED  BY <3>1, <1>2, <1>3
  <2>2. QED  BY <2>1, <1>1 DEF Behind
<1>6. OpenBefore'
  BY <1>1 DEF OpenBefore
<1>7. Timed' /\ EachTickOnce' /\ StampedAfter'
  BY <1>1 DEF IInv, Timed, EachTickOnce, StampedAfter, Recorded, TickOf
<1>8. QED  BY <1>4, <1>5, <1>6, <1>7 DEF IInv

LEMMA IngestStep == IInv /\ Ingest => IInv'
<1> SUFFICES ASSUME IInv, Ingest PROVE IInv'
  OBVIOUS
<1> DEFINE n == Name(file, pos + 1)
<1>1. /\ UNCHANGED <<input, month, remove, raw, log, synced, pc, file, dropped>>
      /\ pc = "folding" /\ Files' = Files /\ pos' = pos + 1
      /\ next' = IF next = None THEN Now + Cycle ELSE next
      /\ \/ acc' = acc \cup {n} /\ taken' = taken \cup {n} /\ last' = Now
         \/ UNCHANGED <<acc, taken, last>>
  BY DEF Ingest, disk, AtTick, Streaming, Files
<1>2. /\ Len(Files) \in Nat /\ Len(Files[file]) \in Nat /\ pos + 1 \in 1..Len(Files[file])
      /\ n \in Names /\ TickOf(n).at = Now /\ Now \in Nat
      /\ n[1] = month /\ n[2] = file /\ n[3] = pos + 1 /\ pos \in Nat
  BY FrameType DEF IInv, Ingest, AtTick, Now, Name, TypeOK
<1>3. n \notin taken
  BY <1>2 DEF IInv, Behind
<1> HIDE DEF n
<1>4. next' \in Nat /\ next' # None /\ Now < next' /\ (next # None => next' = next)
  <2>1. CASE next = None
    <3>1. next' = Now + Cycle
      BY <1>1, <2>1
    <3>2. next' \in Nat /\ Now < next'
      BY <3>1, <1>2
    <3>3. QED  BY <3>2, <2>1
  <2>2. CASE next # None
    <3>1. next \in Nat /\ next' = next /\ ~(Now >= next)
      BY <1>1, <2>2 DEF IInv, TypeOK, Ingest, Due
    <3>2. QED  BY <3>1, <1>2, <2>2
  <2>3. QED  BY <2>1, <2>2
<1>5. TypeOK'
  <2>1. acc' \subseteq taken' /\ taken' \subseteq Names /\ dropped' \subseteq taken' /\ last' \in Nat
    BY <1>1, <1>2 DEF IInv, TypeOK
  <2>2. QED  BY <2>1, <1>1, <1>2, <1>4 DEF IInv, TypeOK
<1>6. Behind' /\ Timed'
  <2>1. ASSUME NEW m \in taken'
        PROVE  /\ m[1] <= month /\ (m[1] = month => m[2] <= file /\ (m[2] = file => m[3] <= pos'))
               /\ TickOf(m).at \in Nat
    <3>1. CASE m \in taken
      <4>1. /\ m[3] \in Nat /\ m[1] <= month /\ TickOf(m).at \in Nat
            /\ m[1] = month => m[2] <= file /\ (m[2] = file => m[3] <= pos)
        BY <3>1, Named DEF IInv, Behind, Timed
      <4>2. QED  BY <4>1, <1>1, <1>2
    <3>2. CASE m = n
      <4>1. month \in Nat /\ file \in Nat
        BY DEF IInv, TypeOK
      <4>2. QED  BY <3>2, <4>1, <1>1, <1>2
    <3>3. QED  BY <2>1, <3>1, <3>2, <1>1
  <2>2. QED  BY <2>1, <1>1 DEF Behind, Timed, TickOf
<1>7. OpenBefore'
  <2>1. \A m \in acc' : TickOf(m).at < next'
    <3>1. \A m \in acc : TickOf(m).at < next'
      BY <1>4 DEF IInv, OpenBefore
    <3>2. QED  BY <3>1, <1>1, <1>2, <1>4
  <2>2. QED  BY <2>1, <1>1, <1>4 DEF OpenBefore, TickOf
<1>8. EachTickOnce'
  <2>1. taken = Recorded(Len(log)) \cup acc \cup dropped
    BY <1>1 DEF IInv, EachTickOnce
  <2>2. Recorded(Len(log))' = Recorded(Len(log)) /\ Len(log') = Len(log)
    BY <1>1 DEF Recorded
  <2>3. /\ acc' \cap Recorded(Len(log)) = {}
        /\ dropped \cap (acc' \cup Recorded(Len(log))) = {}
        /\ taken' = Recorded(Len(log)) \cup acc' \cup dropped
    BY <1>1, <1>3, <2>1 DEF IInv, EachTickOnce
  <2>4. QED  BY <1>1, <2>2, <2>3 DEF IInv, EachTickOnce
<1>9. StampedAfter'
  BY <1>1 DEF IInv, StampedAfter, TickOf
<1>10. QED  BY <1>5, <1>6, <1>7, <1>8, <1>9 DEF IInv

LEMMA FileFoldedStep == IInv /\ FileFolded => IInv'
<1> SUFFICES ASSUME IInv, FileFolded PROVE IInv'
  OBVIOUS
<1>1. /\ UNCHANGED <<input, month, remove, log, pc, acc, next, last, taken, dropped>>
      /\ pc = "folding" /\ Files' = Files
      /\ synced' \in {synced, Len(log)} /\ raw' \subseteq raw
      /\ file' \in (file + 1)..(Len(Files) + 1) /\ pos' = 0
  BY DEF FileFolded, clock, history, Streaming, NextFile, Files
<1>2. /\ Len(Files) \in Nat /\ month \in Nat /\ file \in Nat /\ pos \in Nat
      /\ Files \in Seq(Seq(Ticks)) /\ Len(log) \in Nat
  BY <1>1, FilesType DEF IInv
<1>3. /\ file' \in Nat \ {0} /\ file < file' /\ file' <= Len(Files) + 1
      /\ file' <= Len(Files) => Len(Files[file']) \in Nat
  BY <1>1, <1>2
<1>4. TypeOK'
  BY <1>1, <1>2, <1>3 DEF IInv, TypeOK
<1>5. Behind'
  <2>1. ASSUME NEW n \in taken
        PROVE  n[1] <= month /\ (n[1] = month => n[2] <= file' /\ n[2] # file')
    <3>1. n[2] \in Nat /\ n[1] <= month /\ (n[1] = month => n[2] <= file)
      BY Named DEF IInv, Behind
    <3>2. QED  BY <3>1, <1>2, <1>3
  <2>2. QED  BY <2>1, <1>1 DEF Behind
<1>6. Timed' /\ OpenBefore' /\ EachTickOnce' /\ StampedAfter'
  BY <1>1 DEF IInv, Timed, OpenBefore, EachTickOnce, StampedAfter, Recorded, TickOf
<1>7. QED  BY <1>4, <1>5, <1>6 DEF IInv

\* The last record is stamped after its ticks.
LEMMA EndedOK ==
  ASSUME IInv
  PROVE  /\ Ended \in Seq(Records) /\ Len(Ended) \in Nat /\ synced \in Nat /\ synced <= Len(Ended)
         /\ Once(Ended, {}, dropped) /\ Stamped(Ended) /\ In(Ended) = In(log) \cup acc
<1>1. CASE acc = {}
  BY <1>1, Extended DEF Ended
<1>2. CASE acc # {}
  <2> DEFINE e == IF next < last THEN last ELSE next
  <2>1. next \in Nat /\ last \in Nat /\ \A n \in acc : TickOf(n).at < next
    BY <1>2 DEF IInv, TypeOK, OpenBefore
  <2>2. \A n \in acc : TickOf(n).at \in Nat
    BY DEF IInv, TypeOK, Timed
  <2>3. e \in Nat /\ next <= e
    BY <2>1
  <2>4. Ended = IF acc = {} THEN log ELSE Append(log, [at |-> e, of |-> acc])
    BY DEF Ended
  <2> HIDE DEF e
  <2>5. \A n \in acc : TickOf(n).at < e
    BY <2>1, <2>2, <2>3
  <2>6. QED  BY <2>3, <2>4, <2>5, Extended
<1>3. QED  BY <1>1, <1>2

LEMMA FinishStep == IInv /\ Finish => IInv'
<1> SUFFICES ASSUME IInv, Finish PROVE IInv'
  OBVIOUS
<1>1. /\ UNCHANGED <<input, month, remove, raw, file, pos, next, last, taken, dropped>>
      /\ log' = Ended /\ synced' = Len(Ended) /\ acc' = {}
      /\ pc = "folding" /\ pc' = "idle" /\ Files' = Files
  BY DEF Finish, clock, history, Files
<1>2. /\ log' \in Seq(Records) /\ Len(log') \in Nat
      /\ Once(log', {}, dropped) /\ Stamped(log') /\ In(log') = In(log) \cup acc
  BY <1>1, EndedOK
<1>3. taken = In(log) \cup acc \cup dropped
  BY <1>1, Parts DEF IInv
<1>4. Recorded(Len(log))' = In(log')
  BY DEF Recorded, In
<1>5. TypeOK'
  BY <1>1, <1>2 DEF IInv, TypeOK
<1>6. Behind' /\ Timed' /\ OpenBefore'
  BY <1>1 DEF IInv, Behind, Timed, TickOf, OpenBefore
<1>7. EachTickOnce' /\ StampedAfter'
  BY <1>1, <1>2, <1>3, <1>4 DEF EachTickOnce, StampedAfter, Once, Stamped, TickOf, In
<1>8. QED  BY <1>5, <1>6, <1>7 DEF IInv

\* The job is dead: the log is a beginning of what it was going to be.
LEMMA DownStep ==
  ASSUME IInv, pc = "folding", pc' = "down", acc' = {},
         UNCHANGED <<input, month, remove, raw, synced, file, pos, next, last, taken, dropped>>,
         NEW s \in Seq(Records), NEW n \in synced..Len(s), log' = SubSeq(s, 1, n),
         Once(s, {}, dropped), Stamped(s)
  PROVE  IInv'
<1>1. Len(s) \in Nat /\ synced \in Nat /\ n \in 0..Len(s) /\ synced <= n
  BY DEF IInv, TypeOK
<1>2. log' \in Seq(Records) /\ Len(log') = n
  BY <1>1, Cut
<1>3. Once(log', {}, dropped) /\ Stamped(log')
  BY <1>1, OnceCut, StampedCut
<1>4. TypeOK'
  BY <1>1, <1>2 DEF IInv, TypeOK
<1>5. Behind' /\ Timed' /\ OpenBefore'
  BY DEF IInv, Behind, Timed, TickOf, OpenBefore
<1>6. Recorded(Len(log))' = In(log')
  BY DEF Recorded, In
<1>7. EachTickOnce' /\ StampedAfter'
  BY <1>3, <1>6 DEF EachTickOnce, StampedAfter, Once, Stamped, TickOf, In
<1>8. QED  BY <1>4, <1>5, <1>7 DEF IInv

LEMMA FinishFailsStep == IInv /\ FinishFails => IInv'
<1> SUFFICES ASSUME IInv, FinishFails PROVE IInv'
  OBVIOUS
<1>1. PICK n \in synced..Len(Ended) : log' = SubSeq(Ended, 1, n)
  BY DEF FinishFails
<1>2. /\ pc = "folding" /\ pc' = "down" /\ acc' = {}
      /\ UNCHANGED <<input, month, remove, raw, synced, file, pos, next, last, taken, dropped>>
  BY DEF FinishFails, clock, history
<1>3. Ended \in Seq(Records) /\ Once(Ended, {}, dropped) /\ Stamped(Ended)
  BY EndedOK
<1>4. QED  BY <1>1, <1>2, <1>3, DownStep

LEMMA CrashStep == IInv /\ Crash => IInv'
<1> SUFFICES ASSUME IInv, Crash PROVE IInv'
  OBVIOUS
<1>1. PICK n \in synced..Len(log) : log' = SubSeq(log, 1, n)
  BY DEF Crash
<1>2. /\ pc = "folding" /\ pc' = "down" /\ acc' = {}
      /\ UNCHANGED <<input, month, remove, raw, synced, file, pos, next, last, taken, dropped>>
  BY DEF Crash, clock, history
<1>3. log \in Seq(Records)
  BY DEF IInv, TypeOK
<1>4. Once(log, acc, dropped) /\ Stamped(log)
  BY Parts DEF IInv
<1>5. Once(log, {}, dropped)
  BY <1>4 DEF Once
<1>6. QED  BY <1>1, <1>2, <1>3, <1>4, <1>5, DownStep

LEMMA StutterStep == IInv /\ UNCHANGED vars => IInv'
  BY DEF IInv, TypeOK, Files, Behind, Timed, TickOf, OpenBefore, EachTickOnce, Recorded,
         StampedAfter, vars, disk, clock, history

LEMMA StepInv == IInv /\ [Next]_vars => IInv'
  BY StartStep, SkipStep, CloseCycleStep, CloseCycleFailsStep, IngestStep, FileFoldedStep,
     FinishStep, FinishFailsStep, CrashStep, StutterStep DEF Next, Fold

-----------------------------------------------------------------------------
\* The variables keep their types, whatever the files hold and whatever fails:
\* the cursor never leaves the files of the month, no record on disk is lost.
THEOREM FoldType == Spec => []TypeOK
<1>1. IInv => TypeOK
  BY DEF IInv
<1>2. QED  BY InitInv, StepInv, <1>1, PTL DEF Spec

\* The strengthening: every tick taken is behind the cursor, and the boundary is
\* ahead of every tick that is open.
THEOREM FoldInductive == Spec => []IInv
  BY InitInv, StepInv, PTL DEF Spec

\* The fold counts no tick twice and loses none it does not report lost: over
\* all the months, whatever fails and wherever the job is killed.
THEOREM FoldOnce == Spec => []EachTickOnce
<1>1. IInv => EachTickOnce
  BY DEF IInv
<1>2. QED  BY InitInv, StepInv, <1>1, PTL DEF Spec

\* No record is stamped before a tick it holds, also where the files go back in
\* time and where the last cycle is ended by the last tick.
THEOREM FoldStamped == Spec => []StampedAfter
<1>1. IInv => StampedAfter
  BY DEF IInv
<1>2. QED  BY InitInv, StepInv, <1>1, PTL DEF Spec
-----------------------------------------------------------------------------
(* What a removed file leaves behind. On files in order the boundary is at *)
(* most a cycle ahead of the frames to come, so what is open when a file   *)
(* is removed lies within the last cycle of the file.                      *)

\* Frame i of file f is still to be streamed.
ToCome(f, i) ==
  /\ f \in file..Len(Files) /\ i \in 1..Len(Files[f])
  /\ f = file => pos < i

\* The boundary and the frames around it.
Clock ==
  /\ \A f, i \in Nat : ToCome(f, i) /\ next # None => next - Cycle <= Frame(f, i).at
  /\ file <= Len(Files) =>
       \A i \in 1..pos : Frame(file, i).sane => next # None /\ Frame(file, i).at < next
  /\ \A n \in acc : n[1] = month /\ next - Cycle <= TickOf(n).at

\* No file is removed before it was streamed to its end.
Kept ==
  /\ file..Len(Files) \subseteq raw
  /\ \A n \in dropped : n[1] = month => n[2] < file

\* The ticks of file f come within a cycle of tick n.
Within(n, f) == \A u \in Range(Files[f]) : u.sane => u.at - TickOf(n).at < Cycle

Removed(n) ==
  n[1] = month /\ n[2] \in (1..Len(Files)) \ raw => n \in Recorded(synced) \/ Within(n, n[2])

ROf ==
  /\ pc = "folding" => Clock /\ Kept
  /\ month > 0 => \A n \in taken : Removed(n)

RInv == Ordered => ROf

LEMMA RemovedParts == RInv => RemovedIsSynced
  BY DEF RInv, ROf, Removed, Within, RemovedIsSynced

\* The frames of a month are in order.
LEMMA InOrder ==
  ASSUME TypeOK, Ordered, pc = "folding",
         NEW g \in 1..Len(Files), NEW j \in 1..Len(Files[g]),
         NEW f \in 1..Len(Files), NEW i \in 1..Len(Files[f]),
         g < f \/ (g = f /\ j <= i)
  PROVE  Frame(g, j).at \in Nat /\ Frame(f, i).at \in Nat /\ Frame(g, j).at <= Frame(f, i).at
<1>1. Files \in Seq(Seq(Ticks)) /\ month \in 1..Len(input)
  BY FilesType DEF TypeOK
<1>2. Files[g] \in Seq(Ticks) /\ Files[f] \in Seq(Ticks)
  BY <1>1
<1>3. Frame(g, j) \in Ticks /\ Frame(f, i) \in Ticks
  BY <1>2 DEF Frame
<1>4. Frame(g, j).at \in Nat /\ Frame(f, i).at \in Nat
  BY <1>3 DEF Ticks
<1>5. Frame(g, j).at <= Frame(f, i).at
  BY <1>1 DEF Ordered, Files, Frame
<1>6. QED  BY <1>4, <1>5

LEMMA OrderedKept ==
  ASSUME input' = input, Ordered'
  PROVE  Ordered
<1> SUFFICES ASSUME NEW m \in 1..Len(input), NEW k \in 1..Len(input),
                    NEW f \in 1..Len(input[m]), NEW g \in 1..Len(input[k]),
                    NEW i \in 1..Len(input[m][f]), NEW j \in 1..Len(input[k][g])
             PROVE  /\ k < m => input[k][g][j].at < input[m][f][i].at
                    /\ k = m /\ (g < f \/ (g = f /\ j <= i)) =>
                         input[k][g][j].at <= input[m][f][i].at
  BY DEF Ordered
<1>1. QED  BY DEF Ordered

LEMMA InitR == Init => RInv
  BY DEF Init, RInv, ROf

LEMMA StartR == IInv /\ RInv /\ Start => RInv'
<1> SUFFICES ASSUME IInv, RInv, Start, Ordered' PROVE ROf'
  BY DEF RInv
<1>1. /\ month \in Nat /\ month' = month + 1 /\ taken' = taken /\ dropped' = dropped
      /\ acc' = {} /\ next' = None /\ pos' = 0 /\ file' \in Nat /\ file' >= 1
      /\ Files' = input[month + 1] /\ raw' = 1..Len(Files')
  BY DEF IInv, TypeOK, Start, history, Files
<1>2. \A n \in taken : n[1] # month'
  <2>1. \A n \in taken : n[1] \in Nat /\ n[1] <= month
    BY Named DEF IInv, Behind
  <2>2. QED  BY <2>1, <1>1
<1>3. \A n \in taken' : Removed(n)'
  BY <1>1, <1>2 DEF Removed
<1>4. Clock'
  BY <1>1 DEF Clock
<1>5. Kept'
  <2>1. dropped \subseteq taken
    BY DEF IInv, TypeOK
  <2>2. Len(Files') \in Nat
    BY <1>1 DEF IInv, TypeOK, Start
  <2>3. file'..Len(Files') \subseteq raw'
    BY <1>1, <2>2
  <2>4. QED  BY <1>1, <1>2, <2>1, <2>3 DEF Kept
<1>6. QED  BY <1>3, <1>4, <1>5 DEF ROf

\* What one step of the fold keeps of a removed file: the records on disk and
\* the files of the month.
LEMMA RemovedKept ==
  ASSUME IInv, ROf, month > 0, NEW n \in taken,
         UNCHANGED <<input, month, raw>>,
         synced' \in Nat, synced <= synced',
         \A i \in 1..synced : log'[i] = log[i]
  PROVE  Removed(n)'
<1>1. Removed(n)
  BY DEF ROf
<1>2. Files' = Files
  BY DEF Files
<1>3. synced \in Nat
  BY DEF IInv, TypeOK
<1>4. Recorded(synced) \subseteq Recorded(synced)'
  BY <1>3 DEF Recorded
<1>5. Within(n, n[2]) => Within(n, n[2])'
  BY <1>2 DEF Within, TickOf
<1>6. QED  BY <1>1, <1>2, <1>4, <1>5 DEF Removed

LEMMA DownR ==
  ASSUME IInv, RInv, pc = "folding", pc' = "down",
         UNCHANGED <<input, month, raw, synced, taken>>,
         NEW s \in Seq(Records), NEW n \in synced..Len(s), log' = SubSeq(s, 1, n),
         \A i \in 1..synced : s[i] = log[i]
  PROVE  RInv'
<1> SUFFICES ASSUME Ordered' PROVE ROf'
  BY DEF RInv
<1>1. Ordered
  BY OrderedKept
<1>2. ROf
  BY <1>1 DEF RInv
<1>3. Len(s) \in Nat /\ synced \in Nat /\ n \in 0..Len(s) /\ synced <= n
  BY DEF IInv, TypeOK
<1>4. \A i \in 1..synced : log'[i] = log[i]
  <2>1. \A i \in 1..n : log'[i] = s[i]
    BY <1>3, Cut
  <2>2. 1..synced \subseteq 1..n
    BY <1>3
  <2>3. QED  BY <2>1, <2>2
<1>5. ASSUME month > 0, NEW m \in taken PROVE Removed(m)'
  BY <1>2, <1>3, <1>4, <1>5, RemovedKept
<1>6. QED  BY <1>5 DEF ROf

\* The records on disk are the first ones of the log that ends.
LEMMA EndedKeeps ==
  ASSUME IInv
  PROVE  Ended \in Seq(Records) /\ \A i \in 1..synced : Ended[i] = log[i]
<1>1. /\ log \in Seq(Records) /\ Len(log) \in Nat /\ synced \in 0..Len(log)
      /\ acc \in SUBSET Names
  BY DEF IInv, TypeOK
<1>2. CASE acc = {}
  BY <1>1, <1>2 DEF Ended
<1>3. CASE acc # {}
  <2> DEFINE r == [at |-> IF next < last THEN last ELSE next, of |-> acc]
  <2>1. next \in Nat /\ last \in Nat
    BY <1>3 DEF IInv, TypeOK, OpenBefore
  <2>2. r \in Records
    BY <1>1, <2>1 DEF Records
  <2>3. Ended = Append(log, r)
    BY <1>3 DEF Ended
  <2> HIDE DEF r
  <2>4. \A i \in 1..Len(log) : Ended[i] = log[i]
    BY <1>1, <2>2, <2>3, Appended
  <2>5. QED  BY <1>1, <2>4, EndedOK
<1>4. QED  BY <1>2, <1>3

LEMMA FinishFailsR == IInv /\ RInv /\ FinishFails => RInv'
<1> SUFFICES ASSUME IInv, RInv, FinishFails PROVE RInv'
  OBVIOUS
<1>1. PICK n \in synced..Len(Ended) : log' = SubSeq(Ended, 1, n)
  BY DEF FinishFails
<1>2. /\ pc = "folding" /\ pc' = "down"
      /\ UNCHANGED <<input, month, raw, synced, taken>>
  BY DEF FinishFails, clock, history
<1>3. QED  BY <1>1, <1>2, EndedKeeps, DownR

LEMMA CrashR == IInv /\ RInv /\ Crash => RInv'
<1> SUFFICES ASSUME IInv, RInv, Crash PROVE RInv'
  OBVIOUS
<1>1. PICK n \in synced..Len(log) : log' = SubSeq(log, 1, n)
  BY DEF Crash
<1>2. /\ pc = "folding" /\ pc' = "down" /\ log \in Seq(Records)
      /\ UNCHANGED <<input, month, raw, synced, taken>>
  BY DEF Crash, clock, history, IInv, TypeOK
<1>3. QED  BY <1>1, <1>2, DownR

LEMMA FinishR == IInv /\ RInv /\ Finish => RInv'
<1> SUFFICES ASSUME IInv, RInv, Finish, Ordered' PROVE ROf'
  BY DEF RInv
<1>1. /\ UNCHANGED <<input, month, raw, taken>> /\ pc' = "idle"
      /\ log' = Ended /\ synced' = Len(Ended)
  BY DEF Finish, clock, history
<1>2. ROf
  BY <1>1, OrderedKept DEF RInv
<1>3. synced' \in Nat /\ synced <= synced' /\ \A i \in 1..synced : log'[i] = log[i]
  BY <1>1, EndedOK, EndedKeeps
<1>4. ASSUME month > 0, NEW m \in taken PROVE Removed(m)'
  BY <1>1, <1>2, <1>3, <1>4, RemovedKept
<1>5. QED  BY <1>1, <1>4 DEF ROf

LEMMA SkipR == IInv /\ RInv /\ Skip => RInv'
<1> SUFFICES ASSUME IInv, RInv, Skip, Ordered' PROVE ROf'
  BY DEF RInv
<1>1. /\ UNCHANGED <<input, month, raw, log, synced, pc, file, acc, next, taken, dropped>>
      /\ pc = "folding" /\ Files' = Files /\ pos' = pos + 1
      /\ Streaming /\ pos < Len(Files[file]) /\ ~Frame(file, pos + 1).sane
  BY DEF Skip, disk, clock, history, Streaming, Files
<1>2. ROf
  BY <1>1, OrderedKept DEF RInv
<1>3. /\ Len(Files) \in Nat /\ file \in Nat /\ pos \in Nat /\ month \in Nat
  BY <1>1, FilesType DEF IInv
<1>4. Clock'
  <2>1. ASSUME NEW f \in Nat, NEW i \in Nat, ToCome(f, i)'
        PROVE  ToCome(f, i) /\ Frame(f, i)' = Frame(f, i)
    BY <2>1, <1>1, <1>3 DEF ToCome, Frame
  <2>2. ASSUME NEW i \in 1..pos', Frame(file, i).sane
        PROVE  i \in 1..pos
    BY <2>2, <1>1, <1>3
  <2>3. \A i : Frame(file, i)' = Frame(file, i)
    BY <1>1 DEF Frame
  <2>4. \A n : TickOf(n)' = TickOf(n)
    BY <1>1 DEF TickOf
  <2>5. QED  BY <1>1, <1>2, <2>1, <2>2, <2>3, <2>4 DEF ROf, Clock
<1>5. Kept'
  BY <1>1, <1>2 DEF ROf, Kept
<1>6. synced \in Nat
  BY DEF IInv, TypeOK
<1>7. ASSUME month > 0, NEW m \in taken PROVE Removed(m)'
  BY <1>1, <1>2, <1>6, <1>7, RemovedKept
<1>8. QED  BY <1>1, <1>4, <1>5, <1>7 DEF ROf

LEMMA CloseCycleR == IInv /\ RInv /\ CloseCycle => RInv'
<1> SUFFICES ASSUME IInv, RInv, CloseCycle, Ordered' PROVE ROf'
  BY DEF RInv
<1>1. /\ UNCHANGED <<input, month, raw, synced, pc, file, pos, taken, dropped>>
      /\ acc' = {} /\ next' = next + Cycle /\ pc = "folding" /\ next # None /\ Files' = Files
      /\ log' = IF acc = {} THEN log ELSE Append(log, [at |-> next, of |-> acc])
      /\ Streaming /\ pos < Len(Files[file]) /\ Now >= next
  BY DEF CloseCycle, history, AtTick, Streaming, Due, Boundary, Files
<1>2. ROf /\ Ordered
  BY <1>1, OrderedKept DEF RInv
<1>3. /\ Len(Files) \in Nat /\ Len(Files[file]) \in Nat /\ file \in 1..Len(Files) /\ pos \in Nat
      /\ pos + 1 \in 1..Len(Files[file]) /\ Now \in Nat /\ next \in Nat /\ month \in Nat
      /\ log \in Seq(Records) /\ Len(log) \in Nat /\ synced \in 0..Len(log) /\ acc \in SUBSET Names
  <2>1. TypeOK /\ month \in Nat /\ next \in Nat /\ pos \in Nat
    BY <1>1 DEF IInv, TypeOK
  <2>2. log \in Seq(Records) /\ Len(log) \in Nat /\ synced \in 0..Len(log) /\ acc \in SUBSET Names
    BY DEF IInv, TypeOK
  <2>3. QED  BY <1>1, <2>1, <2>2, FrameType
<1>4. next' \in Nat /\ next' # None /\ next < next' /\ next' - Cycle = next
  <2>1. next' \in Nat /\ next < next' /\ next' - Cycle = next
    BY <1>1, <1>3
  <2>2. QED  BY <2>1
<1>5. Clock'
  <2>1. ASSUME NEW f \in Nat, NEW i \in Nat, ToCome(f, i)'
        PROVE  next' - Cycle <= Frame(f, i)'.at
    <3>1. /\ f \in 1..Len(Files) /\ i \in 1..Len(Files[f])
          /\ file < f \/ (file = f /\ pos + 1 <= i)
      BY <2>1, <1>1, <1>3 DEF ToCome
    <3>2. Now <= Frame(f, i).at /\ Frame(f, i).at \in Nat
      BY <3>1, <1>1, <1>2, <1>3, InOrder DEF IInv, Now
    <3>3. Frame(f, i)' = Frame(f, i)
      BY <1>1 DEF Frame
    <3>4. QED  BY <3>2, <3>3, <1>1, <1>3, <1>4
  <2>2. ASSUME NEW i \in 1..pos, Frame(file, i).sane
        PROVE  Frame(file, i)'.at < next'
    <3>1. Frame(file, i)' = Frame(file, i)
      BY <1>1 DEF Frame
    <3>2. Frame(file, i).at < next
      BY <2>2, <1>1, <1>2, <1>3 DEF ROf, Clock
    <3>3. i \in 1..Len(Files[file])
      BY <1>3
    <3>4. Frame(file, i).at \in Nat
      BY <3>3, <1>1, <1>2, <1>3, InOrder DEF IInv
    <3>5. QED  BY <3>1, <3>2, <3>4, <1>3, <1>4
  <2>3. \A i : Frame(file, i)' = Frame(file, i)
    BY <1>1 DEF Frame
  <2>4. QED  BY <1>1, <1>4, <2>1, <2>2, <2>3 DEF Clock
<1>6. Kept'
  BY <1>1, <1>2 DEF ROf, Kept
<1>7. \A i \in 1..synced : log'[i] = log[i]
  <2>1. CASE acc = {}
    BY <2>1, <1>1
  <2>2. CASE acc # {}
    <3> DEFINE r == [at |-> next, of |-> acc]
    <3>1. r \in Records
      BY <1>3 DEF Records
    <3>2. log' = Append(log, r)
      BY <2>2, <1>1
    <3> HIDE DEF r
    <3>3. \A i \in 1..Len(log) : log'[i] = log[i]
      BY <1>3, <3>1, <3>2, Appended
    <3>4. QED  BY <3>3, <1>3
  <2>3. QED  BY <2>1, <2>2
<1>8. ASSUME month > 0, NEW m \in taken PROVE Removed(m)'
  BY <1>1, <1>2, <1>3, <1>7, <1>8, RemovedKept
<1>9. QED  BY <1>1, <1>5, <1>6, <1>8 DEF ROf

\* On to a later file, on the same clock.
LEMMA ClockKept ==
  ASSUME IInv, ROf, pc = "folding", UNCHANGED <<input, month, next>>, acc' \subseteq acc,
         NextFile
  PROVE  Clock' /\ file' \in Nat /\ file < file' /\ file \in Nat
<1>1. /\ Len(Files) \in Nat /\ file \in Nat /\ pos \in Nat /\ Files' = Files
      /\ file' \in (file + 1)..(Len(Files) + 1) /\ pos' = 0
  BY FilesType DEF IInv, NextFile, Files
<1>2. file' \in Nat /\ file < file'
  BY <1>1
<1>3. ASSUME NEW f \in Nat, NEW i \in Nat, ToCome(f, i)'
      PROVE  ToCome(f, i) /\ Frame(f, i)' = Frame(f, i)
  BY <1>3, <1>1, <1>2 DEF ToCome, Frame
<1>4. \A n : TickOf(n)' = TickOf(n)
  BY DEF TickOf
<1>5. QED  BY <1>1, <1>2, <1>3, <1>4 DEF ROf, Clock

LEMMA CloseCycleFailsR == IInv /\ RInv /\ CloseCycleFails => RInv'
<1> SUFFICES ASSUME IInv, RInv, CloseCycleFails, Ordered' PROVE ROf'
  BY DEF RInv
<1>1. /\ UNCHANGED <<input, month, raw, log, synced, pc, next, taken>>
      /\ acc' = {} /\ dropped' = dropped \cup acc /\ pc = "folding" /\ NextFile /\ Files' = Files
  BY DEF CloseCycleFails, clock, disk, AtTick, Streaming, Files
<1>2. ROf
  BY <1>1, OrderedKept DEF RInv
<1>3. Clock' /\ file' \in Nat /\ file < file' /\ file \in Nat
  BY <1>1, <1>2, ClockKept
<1>4. Kept'
  <2>1. file'..Len(Files') \subseteq raw'
    <3>1. Len(Files) \in Nat
      BY <1>1, FilesType DEF IInv
    <3>2. QED  BY <3>1, <1>1, <1>2, <1>3 DEF ROf, Kept
  <2>2. ASSUME NEW n \in dropped', n[1] = month PROVE n[2] < file'
    <3>1. n \in taken
      BY <1>1, <2>2 DEF IInv, TypeOK
    <3>2. n[2] \in Nat /\ n[2] <= file
      BY <3>1, <2>2, Named DEF IInv, Behind
    <3>3. QED  BY <3>2, <1>3
  <2>3. QED  BY <1>1, <2>1, <2>2 DEF Kept
<1>5. synced \in Nat
  BY DEF IInv, TypeOK
<1>6. ASSUME month > 0, NEW m \in taken PROVE Removed(m)'
  BY <1>1, <1>2, <1>5, <1>6, RemovedKept
<1>7. QED  BY <1>1, <1>3, <1>4, <1>6 DEF ROf

LEMMA IngestR == IInv /\ RInv /\ Ingest => RInv'
<1> SUFFICES ASSUME IInv, RInv, Ingest, Ordered' PROVE ROf'
  BY DEF RInv
<1> DEFINE n == Name(file, pos + 1)
<1>1. /\ UNCHANGED <<input, month, raw, log, synced, pc, file, dropped>>
      /\ pc = "folding" /\ Files' = Files /\ pos' = pos + 1
      /\ next' = IF next = None THEN Now + Cycle ELSE next
      /\ acc' \subseteq acc \cup {n} /\ taken' \subseteq taken \cup {n}
      /\ Streaming /\ pos < Len(Files[file]) /\ ~Due
  BY DEF Ingest, disk, AtTick, Streaming, Files
<1>2. ROf /\ Ordered
  BY <1>1, OrderedKept DEF RInv
<1>3. /\ Len(Files) \in Nat /\ Len(Files[file]) \in Nat /\ file \in 1..Len(Files) /\ pos \in Nat
      /\ pos + 1 \in 1..Len(Files[file]) /\ Now \in Nat
      /\ n[1] = month /\ n[2] = file /\ TickOf(n).at = Now
      /\ Now = Frame(file, pos + 1).at
  BY <1>1, FrameType DEF IInv, TypeOK, Name, Now
<1> HIDE DEF n
<1>4. /\ next' \in Nat /\ next' # None /\ Now < next' /\ (next # None => next' = next)
      /\ next' - Cycle <= Now
  <2>1. CASE next = None
    <3>1. next' = Now + Cycle
      BY <1>1, <2>1
    <3>2. next' \in Nat /\ Now < next' /\ next' - Cycle <= Now
      BY <3>1, <1>3
    <3>3. QED  BY <3>2, <2>1
  <2>2. CASE next # None
    <3>1. next \in Nat /\ next' = next /\ ~(Now >= next)
      BY <1>1, <2>2 DEF IInv, TypeOK, Due
    <3>2. file \in Nat /\ pos + 1 \in Nat /\ ToCome(file, pos + 1)
      BY <1>3 DEF ToCome
    <3>3. next - Cycle <= Now
      BY <3>2, <2>2, <1>1, <1>2, <1>3 DEF ROf, Clock
    <3>4. QED  BY <3>1, <3>3, <1>3, <2>2
  <2>3. QED  BY <2>1, <2>2
<1>5. Clock'
  <2>1. ASSUME NEW f \in Nat, NEW i \in Nat, ToCome(f, i)'
        PROVE  next' - Cycle <= Frame(f, i)'.at
    <3>1. /\ f \in 1..Len(Files) /\ i \in 1..Len(Files[f])
          /\ file < f \/ (file = f /\ pos + 1 <= i)
      BY <2>1, <1>1, <1>3 DEF ToCome
    <3>2. Now <= Frame(f, i).at /\ Frame(f, i).at \in Nat
      BY <3>1, <1>1, <1>2, <1>3, InOrder DEF IInv
    <3>3. Frame(f, i)' = Frame(f, i)
      BY <1>1 DEF Frame
    <3>4. QED  BY <3>2, <3>3, <1>3, <1>4
  <2>2. ASSUME NEW i \in 1..(pos + 1), Frame(file, i).sane
        PROVE  Frame(file, i).at < next'
    <3>1. CASE i = pos + 1
      BY <3>1, <1>3, <1>4
    <3>2. CASE i \in 1..pos
      <4>1. next # None /\ Frame(file, i).at < next
        BY <2>2, <3>2, <1>1, <1>2, <1>3 DEF ROf, Clock
      <4>2. QED  BY <4>1, <1>4
    <3>3. QED  BY <3>1, <3>2, <1>3
  <2>3. ASSUME NEW m \in acc' PROVE m[1] = month /\ next' - Cycle <= TickOf(m).at
    <3>1. CASE m = n
      BY <3>1, <1>3, <1>4
    <3>2. CASE m \in acc
      <4>1. next # None
        BY <3>2 DEF IInv, OpenBefore
      <4>2. QED  BY <3>2, <4>1, <1>1, <1>2, <1>4 DEF ROf, Clock
    <3>3. QED  BY <3>1, <3>2, <2>3, <1>1
  <2>4. /\ \A i : Frame(file, i)' = Frame(file, i)
        /\ \A m : TickOf(m)' = TickOf(m)
    BY <1>1 DEF Frame, TickOf
  <2>5. QED  BY <1>1, <1>4, <2>1, <2>2, <2>3, <2>4 DEF Clock
<1>6. Kept'
  BY <1>1, <1>2 DEF ROf, Kept
<1>7. synced \in Nat /\ file \in raw
  <2>1. synced \in Nat
    BY DEF IInv, TypeOK
  <2>2. file \in file..Len(Files)
    BY <1>3
  <2>3. QED  BY <1>1, <1>2, <2>1, <2>2 DEF ROf, Kept
<1>8. ASSUME month > 0, NEW m \in taken' PROVE Removed(m)'
  <2>1. CASE m \in taken
    BY <2>1, <1>1, <1>2, <1>7, <1>8, RemovedKept
  <2>2. CASE m = n
    BY <2>2, <1>1, <1>3, <1>7 DEF Removed
  <2>3. QED  BY <2>1, <2>2, <1>8, <1>1
<1>9. QED  BY <1>1, <1>5, <1>6, <1>8 DEF ROf

LEMMA FileFoldedR == IInv /\ RInv /\ FileFolded => RInv'
<1> SUFFICES ASSUME IInv, RInv, FileFolded, Ordered' PROVE ROf'
  BY DEF RInv
<1>1. /\ UNCHANGED <<input, month, log, pc, acc, next, taken, dropped>>
      /\ pc = "folding" /\ Files' = Files /\ NextFile
      /\ Streaming /\ pos = Len(Files[file])
      /\ \/ synced' = Len(log) /\ raw' \in {raw, raw \ {file}}
         \/ UNCHANGED <<raw, synced>>
  BY DEF FileFolded, clock, history, Streaming, Files
<1>2. ROf /\ Ordered
  BY <1>1, OrderedKept DEF RInv
<1>3. Clock' /\ file' \in Nat /\ file < file' /\ file \in Nat
  BY <1>1, <1>2, ClockKept
<1>4. /\ Len(Files) \in Nat /\ Files \in Seq(Seq(Ticks)) /\ Len(log) \in Nat
      /\ synced \in Nat /\ synced <= Len(log)
  BY <1>1, FilesType DEF IInv, TypeOK
<1>5. file \in 1..Len(Files) /\ Files[file] \in Seq(Ticks)
  BY <1>1, <1>4 DEF Streaming, IInv, TypeOK
<1>6. Kept'
  <2>1. file'..Len(Files') \subseteq raw'
    <3>1. file..Len(Files) \subseteq raw /\ file \notin file'..Len(Files)
      BY <1>1, <1>2, <1>3, <1>4 DEF ROf, Kept
    <3>2. file'..Len(Files) \subseteq file..Len(Files)
      BY <1>3, <1>4
    <3>3. raw' \in {raw, raw \ {file}}
      BY <1>1
    <3>4. QED  BY <1>1, <3>1, <3>2, <3>3
  <2>2. ASSUME NEW n \in dropped, n[1] = month PROVE n[2] < file'
    <3>1. n[2] \in Nat
      BY Named DEF IInv, TypeOK
    <3>2. n[2] < file
      BY <2>2, <1>1, <1>2 DEF ROf, Kept
    <3>3. QED  BY <3>1, <3>2, <1>3
  <2>3. QED  BY <1>1, <2>1, <2>2 DEF Kept
<1>7. synced' \in Nat /\ synced <= synced' /\ Recorded(synced) \subseteq Recorded(synced)'
  <2>1. synced' \in Nat /\ synced <= synced'
    BY <1>1, <1>4
  <2>2. QED  BY <2>1, <1>1, <1>4 DEF Recorded
<1>8. ASSUME month > 0, NEW m \in taken,
             m[1] = month, m[2] \in (1..Len(Files)) \ raw', m \notin Recorded(synced)'
      PROVE  Within(m, m[2])
  <2>1. CASE m[2] \notin raw
    <3>1. Removed(m)
      BY <1>2, <1>8 DEF ROf
    <3>2. QED  BY <3>1, <2>1, <1>7, <1>8 DEF Removed
  <2>2. CASE m[2] \in raw
    <3>1. m[2] = file /\ synced' = Len(log)
      BY <2>2, <1>1, <1>8
    <3>2. m \notin dropped
      BY <3>1, <1>1, <1>2, <1>3, <1>8 DEF ROf, Kept
    <3>3. m \notin Recorded(Len(log))
      BY <3>1, <1>1, <1>8 DEF Recorded
    <3>4. m \in acc
      BY <3>2, <3>3, <1>1 DEF IInv, EachTickOnce
    <3>5. next \in Nat /\ next - Cycle <= TickOf(m).at /\ TickOf(m).at \in Nat
      BY <3>4, <1>1, <1>2 DEF IInv, TypeOK, OpenBefore, Timed, ROf, Clock
    <3>6. ASSUME NEW u \in Range(Files[file]), u.sane
          PROVE  u.at - TickOf(m).at < Cycle
      <4>1. PICK i \in 1..Len(Files[file]) : u = Files[file][i]
        BY <1>5 DEF Range
      <4>2. Frame(file, i).sane /\ u = Frame(file, i)
        BY <4>1, <3>6 DEF Frame
      <4>3. u.at < next
        BY <4>1, <4>2, <1>1, <1>2, <1>5 DEF ROf, Clock
      <4>4. u.at \in Nat
        BY <4>2, <1>1, <1>2, <1>5, InOrder DEF IInv
      <4>5. QED  BY <4>3, <4>4, <3>5
    <3>7. QED  BY <3>1, <3>6 DEF Within
  <2>3. QED  BY <2>1, <2>2
<1>9. ASSUME month > 0, NEW m \in taken PROVE Removed(m)'
  <2>1. Within(m, m[2]) => Within(m, m[2])'
    BY <1>1 DEF Within, TickOf
  <2>2. QED  BY <2>1, <1>1, <1>8, <1>9 DEF Removed
<1>10. QED  BY <1>1, <1>3, <1>6, <1>9 DEF ROf

LEMMA StutterR == RInv /\ UNCHANGED vars => RInv'
<1> SUFFICES ASSUME RInv, UNCHANGED vars PROVE RInv'
  OBVIOUS
<1>1. UNCHANGED <<input, month, raw, log, synced, pc, file, pos, acc, next, taken, dropped>>
  BY DEF vars, disk, clock, history
<1>2. Files' = Files /\ Ordered' = Ordered
  BY <1>1 DEF Files, Ordered
<1>3. ROf' = ROf
  BY <1>1, <1>2 DEF ROf, Clock, ToCome, Kept, Removed, Within, Recorded, Frame, TickOf
<1>4. QED  BY <1>2, <1>3 DEF RInv

LEMMA StepR == IInv /\ RInv /\ [Next]_vars => RInv'
  BY StartR, SkipR, CloseCycleR, CloseCycleFailsR, IngestR, FileFoldedR,
     FinishR, FinishFailsR, CrashR, StutterR DEF Next, Fold

\* Where the files are in order, a raw file is only gone when every tick taken
\* from it is in the log on disk, or lies within a cycle of the end of the file:
\* what a kill can cost of a file that cannot be read again.
THEOREM FoldRemovesSynced == Spec => []RemovedIsSynced
<1>1. Init => IInv /\ RInv
  BY InitInv, InitR
<1>2. (IInv /\ RInv) /\ [Next]_vars => (IInv /\ RInv)'
  BY StepInv, StepR
<1>3. IInv /\ RInv => RemovedIsSynced
  BY RemovedParts
<1>4. QED  BY <1>1, <1>2, <1>3, PTL DEF Spec
-----------------------------------------------------------------------------
(* The reference definition. The clock goes from one boundary to the next,  *)
(* the definition counts the cycles from the first tick of the month.       *)

\* Every tick taken is a frame of a file.
Real ==
  /\ first \in Nat
  /\ \A n \in taken : /\ n[1] \in 1..month /\ n[2] \in 1..Len(input[n[1]])
                     /\ n[3] \in 1..Len(input[n[1]][n[2]])

\* The ticks of the month that are in records.
Out == OfMonth(Recorded(Len(log)))

\* The ticks of the month lie between the first one and the boundary.
Spread ==
  \A n \in OfMonth(taken) :
    next # None /\ first <= TickOf(n).at /\ TickOf(n).at < next

\* The boundary is on the grid of the first tick.
OnGrid == next # None => \E k \in Nat : next = first + Cycle * (k + 1)

\* What is in records is before the open cycle, and the boundary, or the first
\* one there will be, is ahead of every stamp.
Cycles ==
  /\ \A n \in Out : TickOf(n).at < next - Cycle
  /\ acc # {} => last < next
  /\ next # None => \A i \in 1..Len(log) : log[i].at < next
  /\ next = None => \A f, k \in Nat : ToCome(f, k) =>
                      \A i \in 1..Len(log) : log[i].at < Frame(f, k).at + Cycle

\* All cycles of the month but the open one are out, and in order.
Done == {r \in Range(log) : OfMonth(r.of) # {}} = Reference(Out)
Increasing == \A i, j \in 1..Len(log) : i < j => log[i].at < log[j].at

\* The months to come are later than what is out.
Later ==
  \A m \in Nat : m \in (month + 1)..Len(input) =>
    \A f \in 1..Len(input[m]) : \A k \in 1..Len(input[m][f]) :
      \A i \in 1..Len(log) : log[i].at < input[m][f][k].at + Cycle

MOf == Spread /\ OnGrid /\ Done /\ Increasing /\ Later /\ (pc = "folding" => Cycles)

MInv == Real /\ (Ordered /\ pc # "down" => MOf)

\* One more cycle, of ticks of its own.
LEMMA OneMoreCycle ==
  ASSUME NEW L, NEW A, NEW e, A # {},
         \A n \in A : End(TickOf(n).at) = e,
         \A n \in L : End(TickOf(n).at) # e
  PROVE  Reference(L \cup A) = Reference(L) \cup {[at |-> e, of |-> A]}
<1> DEFINE E(n) == End(TickOf(n).at)
           R(T, x) == [at |-> x, of |-> {n \in T : E(n) = x}]
<1>1. \A T : Reference(T) = {R(T, x) : x \in {E(n) : n \in T}}
  BY DEF Reference
<1>2. R(L \cup A, e) = [at |-> e, of |-> A]
  <2>1. {n \in L \cup A : E(n) = e} = A  OBVIOUS
  <2>2. QED  BY <2>1
<1>3. \A x : x # e => R(L \cup A, x) = R(L, x)
  <2> TAKE x
  <2> HAVE x # e
  <2>1. {n \in L \cup A : E(n) = x} = {n \in L : E(n) = x}  OBVIOUS
  <2>2. QED  BY <2>1
<1>4. {E(n) : n \in L \cup A} = {E(n) : n \in L} \cup {e}  OBVIOUS
<1>5. e \notin {E(n) : n \in L}  OBVIOUS
<1> HIDE DEF R, E
<1>6. Reference(L \cup A) = {R(L \cup A, x) : x \in {E(n) : n \in L} \cup {e}}
  BY <1>1, <1>4
<1>7. QED  BY <1>1, <1>2, <1>3, <1>5, <1>6

LEMMA NoTicks == Reference({}) = {}
  BY DEF Reference

\* What is recorded was taken.
LEMMA OutTaken ==
  ASSUME IInv, pc # "down"
  PROVE  /\ Recorded(Len(log)) \subseteq taken
         /\ Out \subseteq OfMonth(taken)
         /\ \A i \in 1..Len(log) : log[i].of \subseteq taken
<1>1. Recorded(Len(log)) \subseteq taken  BY DEF IInv, EachTickOnce
<1>2. \A i \in 1..Len(log) : log[i].of \subseteq Recorded(Len(log))  BY DEF Recorded
<1>3. QED  BY <1>1, <1>2 DEF Out, OfMonth

\* The cycle that is open is the one that ends at the boundary, and it is the
\* last one of the month so far.
LEMMA OpenCycle ==
  ASSUME IInv, Real, MOf, Clock, pc = "folding", acc # {}
  PROVE  /\ next \in Nat /\ next # None
         /\ Reference(Out \cup acc) = Reference(Out) \cup {[at |-> next, of |-> acc]}
         /\ \A n \in acc : n \in OfMonth(taken) /\ TickOf(n).at \in Nat /\ next - Cycle <= TickOf(n).at
<1>1. next # None /\ next \in Nat  BY DEF IInv, OpenBefore, TypeOK
<1>2. PICK k \in Nat : next = first + Cycle * (k + 1)  BY <1>1 DEF MOf, OnGrid
<1>3. first \in Nat  BY DEF Real
<1>4. next - Cycle = first + Cycle * k
  <2>1. (first + Cycle * (k + 1)) - Cycle = first + Cycle * k
    BY <1>3, CycleAssumption, GridStep
  <2>2. QED  BY <1>2, <2>1
<1>5. \A n \in acc : n \in OfMonth(taken) /\ TickOf(n).at \in Nat /\ next - Cycle <= TickOf(n).at
  BY DEF IInv, TypeOK, Timed, Clock, OfMonth
<1>6. \A n \in acc : End(TickOf(n).at) = next
  <2> TAKE n \in acc
  <2> DEFINE t == TickOf(n).at
  <2>1. t \in Nat /\ first + Cycle * k <= t  BY <1>4, <1>5
  <2>2. t < first + Cycle * (k + 1)  BY <1>2, <1>5 DEF MOf, Spread
  <2> HIDE DEF t
  <2>3. first + Cycle * ((t - first) \div Cycle + 1) = first + Cycle * (k + 1)
    BY <1>3, <2>1, <2>2, CycleAssumption, GridLast
  <2>4. QED  BY <1>2, <2>3 DEF End, t
<1>7. \A n \in Out : End(TickOf(n).at) # next
  <2> TAKE n \in Out
  <2> DEFINE t == TickOf(n).at
  <2>1. n \in OfMonth(taken) /\ n \in taken  BY OutTaken DEF OfMonth
  <2>2. t \in Nat /\ first <= t  BY <2>1 DEF IInv, Timed, MOf, Spread
  <2>3. t < first + Cycle * k  BY <1>4 DEF MOf, Cycles
  <2> HIDE DEF t
  <2>4. /\ first + Cycle * ((t - first) \div Cycle + 1) \in Nat
        /\ first + Cycle * ((t - first) \div Cycle + 1) <= first + Cycle * k
    BY <1>3, <2>2, <2>3, CycleAssumption, GridEarlier
  <2>5. End(t) \in Nat /\ End(t) <= next - Cycle  BY <1>4, <2>4 DEF End
  <2>6. End(t) # next  BY <1>1, <2>5, CycleAssumption
  <2>7. QED  BY <2>6 DEF t
<1>8. QED  BY <1>1, <1>5, <1>6, <1>7, OneMoreCycle

\* The open cycle goes into the log.
LEMMA RecordOut ==
  ASSUME IInv, Real, Ordered, MOf, Clock, pc = "folding", acc # {},
         log' = Append(log, [at |-> next, of |-> acc]),
         UNCHANGED <<input, month, first, taken>>
  PROVE  /\ Done' /\ Increasing' /\ Later'
         /\ Out' = Out \cup acc
         /\ \A i \in 1..Len(log') : log'[i].at \in Nat /\ log'[i].at <= next
<1> DEFINE r == [at |-> next, of |-> acc]
<1>1. /\ next \in Nat /\ next # None
      /\ Reference(Out \cup acc) = Reference(Out) \cup {r}
      /\ \A n \in acc : n \in OfMonth(taken) /\ TickOf(n).at \in Nat /\ next - Cycle <= TickOf(n).at
  BY OpenCycle
<1>2. log \in Seq(Records) /\ Len(log) \in Nat /\ acc \in SUBSET Names
  BY DEF IInv, TypeOK
<1>3. r \in Records /\ r.of = acc /\ r.at = next  BY <1>1, <1>2 DEF Records
<1> HIDE DEF r
<1>4. /\ log' = Append(log, r) /\ log' \in Seq(Records) /\ Len(log') = Len(log) + 1
      /\ \A i \in 1..Len(log) : log'[i] = log[i]
      /\ log'[Len(log) + 1] = r
      /\ In(log') = In(log) \cup acc
  BY <1>2, <1>3, Appended DEF r
<1>5. \A i : i \in 1..(Len(log) + 1) <=> i \in 1..Len(log) \/ i = Len(log) + 1
  BY <1>2
<1>6. OfMonth(acc) = acc  BY <1>1 DEF OfMonth
<1>7. Out' = Out \cup acc
  <2>1. Recorded(Len(log)) = In(log) /\ Recorded(Len(log))' = In(log')
    BY DEF Recorded, In
  <2>2. Out' = {n \in In(log') : n[1] = month}  BY <2>1 DEF Out, OfMonth
  <2>3. Out = {n \in In(log) : n[1] = month}  BY <2>1 DEF Out, OfMonth
  <2>4. acc = {n \in acc : n[1] = month}  BY <1>6 DEF OfMonth
  <2>5. QED  BY <2>2, <2>3, <2>4, <1>4
<1>8. Done'
  <2>1. Range(log') = Range(log) \cup {r}
    <3>1. /\ Range(log) = {log[i] : i \in 1..Len(log)}
          /\ Range(log') = {log'[i] : i \in 1..(Len(log) + 1)}
      BY <1>2, <1>4 DEF Range
    <3>2. QED  BY <3>1, <1>4, <1>5
  <2>2. \A x : OfMonth(x)' = OfMonth(x)  BY DEF OfMonth
  <2>3. OfMonth(r.of) # {}  BY <1>3, <1>6
  <2>4. {x \in Range(log') : OfMonth(x.of) # {}} = {x \in Range(log) : OfMonth(x.of) # {}} \cup {r}
    BY <2>1, <2>3
  <2>5. {x \in Range(log) : OfMonth(x.of) # {}} = Reference(Out)  BY DEF MOf, Done
  <2>6. \A T : Reference(T)' = Reference(T)  BY DEF Reference, End, TickOf
  <2>7. Reference(Out)' = Reference(Out \cup acc)
    <3>1. Reference(Out)' = {[at |-> e, of |-> {n \in Out' : End(TickOf(n).at)' = e}] :
                               e \in {End(TickOf(n).at)' : n \in Out'}}
      BY DEF Reference
    <3>2. \A n : End(TickOf(n).at)' = End(TickOf(n).at)  BY DEF End, TickOf
    <3>3. QED  BY <3>1, <3>2, <1>7 DEF Reference
  <2>8. QED  BY <2>2, <2>4, <2>5, <2>7, <1>1 DEF Done
<1>9. \A i \in 1..Len(log) : log[i].at \in Nat /\ log[i].at < next
  <2>1. \A i \in 1..Len(log) : log[i] \in Records  BY <1>2
  <2>2. QED  BY <1>1, <2>1 DEF MOf, Cycles, Records
<1>10. Increasing'
  <2> SUFFICES ASSUME NEW i \in 1..Len(log'), NEW j \in 1..Len(log'), i < j
               PROVE  log'[i].at < log'[j].at
    BY DEF Increasing
  <2>1. i \in 1..Len(log)  BY <1>2, <1>4
  <2>2. CASE j \in 1..Len(log)  BY <2>1, <2>2, <1>4 DEF MOf, Increasing
  <2>3. CASE j = Len(log) + 1  BY <2>1, <2>3, <1>3, <1>4, <1>9
  <2>4. QED  BY <2>2, <2>3, <1>4, <1>5
<1>11. \A i \in 1..Len(log') : log'[i].at \in Nat /\ log'[i].at <= next
  <2> TAKE i \in 1..Len(log')
  <2>1. CASE i \in 1..Len(log)  BY <2>1, <1>1, <1>4, <1>9
  <2>2. CASE i = Len(log) + 1  BY <2>2, <1>1, <1>3, <1>4
  <2>3. QED  BY <2>1, <2>2, <1>4, <1>5
<1>12. Later'
  <2> SUFFICES ASSUME NEW m \in Nat, m \in (month + 1)..Len(input),
                      NEW f \in 1..Len(input[m]), NEW k \in 1..Len(input[m][f]),
                      NEW i \in 1..Len(log')
               PROVE  log'[i].at < input[m][f][k].at + Cycle
    BY DEF Later
  <2>1. PICK n \in acc : TRUE  OBVIOUS
  <2>2. /\ n \in taken /\ n[1] = month /\ TickOf(n).at \in Nat
        /\ next <= TickOf(n).at + Cycle
    BY <1>1 DEF OfMonth
  <2>3. /\ month \in 1..Len(input) /\ n[2] \in 1..Len(input[month])
        /\ n[3] \in 1..Len(input[month][n[2]])
        /\ TickOf(n) = input[month][n[2]][n[3]]
    <3>1. month \in 1..Len(input)  BY DEF IInv, TypeOK
    <3>2. TickOf(n) = input[month][n[2]][n[3]]  BY <2>2 DEF TickOf
    <3>3. n[2] \in 1..Len(input[month]) /\ n[3] \in 1..Len(input[month][n[2]])
      BY <2>2 DEF Real
    <3>4. QED  BY <3>1, <3>2, <3>3
  <2>4. m \in 1..Len(input) /\ month < m /\ Len(input) \in Nat
    BY <2>3 DEF IInv, TypeOK
  <2>5. TickOf(n).at < input[m][f][k].at  BY <2>3, <2>4 DEF Ordered
  <2>6. input[m][f][k].at \in Nat
    <3>1. input \in Seq(Seq(Seq(Ticks)))  BY DEF IInv, TypeOK
    <3>2. input[m] \in Seq(Seq(Ticks))  BY <3>1, <2>4
    <3>3. input[m][f] \in Seq(Ticks)  BY <3>2
    <3>4. input[m][f][k] \in Ticks  BY <3>3
    <3>5. QED  BY <3>4 DEF Ticks
  <2> DEFINE x == input[m][f][k].at
             y == TickOf(n).at
             z == log'[i].at
  <2>7. z \in Nat /\ z <= next  BY <1>11
  <2>8. next <= y + Cycle /\ y < x /\ x \in Nat /\ y \in Nat  BY <2>2, <2>5, <2>6
  <2>9. next \in Nat  BY <1>1
  <2> HIDE DEF x, y, z
  <2>10. z < x + Cycle  BY <2>7, <2>8, <2>9, CycleAssumption
  <2>11. QED  BY <2>10 DEF x, z
<1>13. QED  BY <1>7, <1>8, <1>10, <1>11, <1>12

-----------------------------------------------------------------------------
\* The cursor moves on, or the open ticks are lost: no record is written.
LEMMA CursorMoves ==
  ASSUME MOf, pc = "folding", acc' \in {acc, {}},
         UNCHANGED <<input, month, log, pc, first, next, last, taken>>,
         \A f, k \in Nat : ToCome(f, k)' => ToCome(f, k)
  PROVE  MOf'
<1>1. /\ \A n : TickOf(n)' = TickOf(n)
      /\ \A f, k : Frame(f, k)' = Frame(f, k)
      /\ \A T : OfMonth(T)' = OfMonth(T)
  BY DEF TickOf, Frame, Files, OfMonth
<1>2. OfMonth(taken)' = OfMonth(taken) /\ Out' = Out
  BY DEF OfMonth, Out, Recorded
<1>3. Spread'  BY <1>1, <1>2 DEF MOf, Spread
<1>4. OnGrid' /\ Increasing' /\ Later'  BY DEF MOf, OnGrid, Increasing, Later
<1>5. Done'
  <2>1. Reference(Out)' = Reference(Out)  BY DEF Reference, Out, OfMonth, Recorded, End, TickOf
  <2>2. QED  BY <2>1, <1>1 DEF MOf, Done
<1>6. Cycles'
  <2>1. Cycles  BY DEF MOf
  <2>2. \A n \in Out' : TickOf(n)'.at < next' - Cycle  BY <2>1, <1>1, <1>2 DEF Cycles
  <2>3. acc' # {} => last' < next'  BY <2>1 DEF Cycles
  <2>4. next' # None => \A i \in 1..Len(log') : log'[i].at < next'  BY <2>1 DEF Cycles
  <2>5. next' = None => \A f, k \in Nat : ToCome(f, k)' =>
                         \A i \in 1..Len(log') : log'[i].at < Frame(f, k)'.at + Cycle
    BY <2>1, <1>1 DEF Cycles
  <2>6. QED  BY <2>2, <2>3, <2>4, <2>5 DEF Cycles
<1>7. QED  BY <1>3, <1>4, <1>5, <1>6 DEF MOf

LEMMA RealKept ==
  ASSUME IInv, Real, UNCHANGED <<input, first, taken>>, month' \in {month, month + 1}
  PROVE  Real'
<1>1. month \in Nat  BY DEF IInv, TypeOK
<1>2. \A k : k \in 1..month => k \in 1..month'  BY <1>1
<1>3. QED  BY <1>2 DEF Real

LEMMA SkipM == IInv /\ RInv /\ MInv /\ Skip => MInv'
<1> SUFFICES ASSUME IInv, RInv, MInv, Skip PROVE MInv'
  OBVIOUS
<1>1. /\ UNCHANGED <<input, month, log, pc, file, acc, first, next, last, taken>>
      /\ pc = "folding" /\ pos' = pos + 1 /\ Files' = Files
  BY DEF Skip, disk, clock, history, Streaming, Files
<1>2. pos \in Nat  BY DEF IInv, TypeOK
<1>3. \A f, k \in Nat : ToCome(f, k)' => ToCome(f, k)  BY <1>1, <1>2 DEF ToCome
<1>4. Real'  BY <1>1, RealKept DEF MInv
<1>5. Ordered' => MOf'  BY <1>1, <1>3, OrderedKept, CursorMoves DEF MInv
<1>6. QED  BY <1>4, <1>5 DEF MInv

\* On to a later file: what is to come was to come.
LEMMA NextToCome ==
  ASSUME IInv, pc = "folding", NextFile, UNCHANGED <<input, month>>
  PROVE  \A f, k \in Nat : ToCome(f, k)' => ToCome(f, k)
<1>1. /\ Len(Files) \in Nat /\ file \in Nat /\ Files' = Files
      /\ file' \in (file + 1)..(Len(Files) + 1)
  BY FilesType DEF IInv, NextFile, Files
<1>2. file' \in Nat /\ file < file'  BY <1>1
<1>3. QED  BY <1>1, <1>2 DEF ToCome

LEMMA CloseCycleFailsM == IInv /\ RInv /\ MInv /\ CloseCycleFails => MInv'
<1> SUFFICES ASSUME IInv, RInv, MInv, CloseCycleFails PROVE MInv'
  OBVIOUS
<1>1. /\ UNCHANGED <<input, month, log, pc, first, next, last, taken>>
      /\ pc = "folding" /\ acc' = {} /\ NextFile
  BY DEF CloseCycleFails, disk, clock, AtTick, Streaming
<1>2. \A f, k \in Nat : ToCome(f, k)' => ToCome(f, k)  BY <1>1, NextToCome
<1>3. Real'  BY <1>1, RealKept DEF MInv
<1>4. Ordered' => MOf'  BY <1>1, <1>2, OrderedKept, CursorMoves DEF MInv
<1>5. QED  BY <1>3, <1>4 DEF MInv

LEMMA FileFoldedM == IInv /\ RInv /\ MInv /\ FileFolded => MInv'
<1> SUFFICES ASSUME IInv, RInv, MInv, FileFolded PROVE MInv'
  OBVIOUS
<1>1. /\ UNCHANGED <<input, month, log, pc, acc, first, next, last, taken>>
      /\ pc = "folding" /\ NextFile
  BY DEF FileFolded, clock, history, Streaming
<1>2. \A f, k \in Nat : ToCome(f, k)' => ToCome(f, k)  BY <1>1, NextToCome
<1>3. Real'  BY <1>1, RealKept DEF MInv
<1>4. Ordered' => MOf'  BY <1>1, <1>2, OrderedKept, CursorMoves DEF MInv
<1>5. QED  BY <1>3, <1>4 DEF MInv

LEMMA CloseCycleM == IInv /\ RInv /\ MInv /\ CloseCycle => MInv'
<1> SUFFICES ASSUME IInv, RInv, MInv, CloseCycle PROVE MInv'
  OBVIOUS
<1>1. /\ UNCHANGED <<input, month, pc, file, pos, last, first, taken>>
      /\ acc' = {} /\ next' = next + Cycle /\ pc = "folding" /\ next # None
      /\ log' = IF acc = {} THEN log ELSE Append(log, [at |-> next, of |-> acc])
  BY DEF CloseCycle, history, AtTick, Streaming, Due, Boundary
<1>2. Real'  BY <1>1, RealKept DEF MInv
<1> SUFFICES ASSUME Ordered' PROVE MOf'
  BY <1>2 DEF MInv
<1>3. Ordered  BY <1>1, OrderedKept
<1>4. MOf /\ Real /\ Clock /\ Cycles
  BY <1>1, <1>3 DEF MInv, MOf, RInv, ROf
<1>5. next \in Nat /\ next' \in Nat /\ next < next' /\ next' - Cycle = next /\ next' # None
  <2>1. next \in Nat  BY <1>1 DEF IInv, TypeOK
  <2>2. next' \in Nat /\ next < next' /\ next' - Cycle = next  BY <1>1, <2>1, CycleAssumption
  <2>3. next' # None  BY <2>2
  <2>4. QED  BY <2>1, <2>2, <2>3
<1>6. /\ \A n : TickOf(n)' = TickOf(n)
      /\ \A T : OfMonth(T)' = OfMonth(T)
      /\ OfMonth(taken)' = OfMonth(taken)
  BY <1>1 DEF TickOf, OfMonth
<1>7. /\ Done' /\ Increasing' /\ Later'
      /\ Out' \subseteq Out \cup acc
      /\ \A i \in 1..Len(log') : log'[i].at \in Nat /\ log'[i].at <= next
  <2>1. CASE acc # {}
    BY <2>1, <1>1, <1>3, <1>4, RecordOut
  <2>2. CASE acc = {}
    <3>1. log' = log  BY <2>2, <1>1
    <3>2. Out' = Out  BY <3>1, <1>1 DEF Out, OfMonth, Recorded
    <3>3. Reference(Out)' = Reference(Out)
      BY <3>1, <1>1 DEF Reference, Out, OfMonth, Recorded, End, TickOf
    <3>4. Done'  BY <3>1, <3>3, <1>4, <1>6 DEF MOf, Done
    <3>5. Increasing' /\ Later'  BY <3>1, <1>1, <1>4 DEF MOf, Increasing, Later
    <3>6. \A i \in 1..Len(log) : log[i].at \in Nat /\ log[i].at <= next
      <4>1. \A i \in 1..Len(log) : log[i] \in Records  BY DEF IInv, TypeOK
      <4>2. \A i \in 1..Len(log) : log[i].at \in Nat /\ log[i].at < next
        BY <4>1, <1>1, <1>4 DEF Cycles, Records
      <4>3. QED  BY <4>2, <1>5
    <3>7. QED  BY <3>1, <3>2, <3>4, <3>5, <3>6
  <2>3. QED  BY <2>1, <2>2
<1>8. \A n \in OfMonth(taken) : TickOf(n).at \in Nat /\ first <= TickOf(n).at /\ TickOf(n).at < next
  BY <1>4 DEF MOf, Spread, OfMonth, IInv, Timed
<1>9. Spread'
  <2>1. \A n \in OfMonth(taken) : first <= TickOf(n).at /\ TickOf(n).at < next'
    BY <1>5, <1>8
  <2>2. QED  BY <2>1, <1>1, <1>5, <1>6 DEF Spread
<1>10. OnGrid'
  <2>1. PICK k \in Nat : next = first + Cycle * (k + 1)  BY <1>1, <1>4 DEF MOf, OnGrid
  <2>2. first \in Nat  BY <1>4 DEF Real
  <2>3. (first + Cycle * (k + 1)) + Cycle = first + Cycle * ((k + 1) + 1)
    BY <2>2, CycleAssumption, GridStep
  <2>4. next' = first' + Cycle * ((k + 1) + 1)  BY <1>1, <2>1, <2>3
  <2>5. k + 1 \in Nat  OBVIOUS
  <2>6. QED  BY <2>4, <2>5 DEF OnGrid
<1>11. Cycles'
  <2>1. Out \subseteq OfMonth(taken)  BY <1>1, OutTaken
  <2>2. acc \subseteq OfMonth(taken)  BY <1>4 DEF Clock, OfMonth, IInv, TypeOK
  <2>3. \A n \in Out' : TickOf(n)'.at < next' - Cycle
    BY <2>1, <2>2, <1>5, <1>6, <1>7, <1>8
  <2>4. \A i \in 1..Len(log') : log'[i].at < next'  BY <1>5, <1>7
  <2>5. QED  BY <2>3, <2>4, <1>1, <1>5 DEF Cycles
<1>12. QED  BY <1>7, <1>9, <1>10, <1>11 DEF MOf

LEMMA StartM == IInv /\ RInv /\ MInv /\ Start => MInv'
<1> SUFFICES ASSUME IInv, RInv, MInv, Start PROVE MInv'
  OBVIOUS
<1>1. /\ UNCHANGED <<input, log, first, taken>>
      /\ pc = "idle" /\ month \in Nat /\ month' = month + 1 /\ next' = None /\ acc' = {}
      /\ Files' = input[month + 1] /\ month + 1 \in 1..Len(input) /\ Len(input) \in Nat
      /\ file' \in Nat /\ file' >= 1
  BY DEF Start, history, IInv, TypeOK, Files
<1>2. Real'  BY <1>1, RealKept DEF MInv
<1> SUFFICES ASSUME Ordered' PROVE MOf'
  BY <1>2 DEF MInv
<1>3. MOf  BY <1>1, OrderedKept DEF MInv
<1>4. \A n \in taken : n[1] # month'
  <2>1. \A n \in taken : n[1] \in Nat /\ n[1] <= month  BY Named DEF IInv, Behind
  <2>2. QED  BY <2>1, <1>1
<1>5. \A i \in 1..Len(log) : log[i].of \subseteq taken
  BY <1>1, OutTaken
<1>6. OfMonth(taken)' = {} /\ Out' = {}
  <2>1. Recorded(Len(log)) \subseteq taken  BY <1>1, OutTaken
  <2>2. Recorded(Len(log))' = Recorded(Len(log))  BY <1>1 DEF Recorded
  <2>3. QED  BY <2>1, <2>2, <1>1, <1>4 DEF Out, OfMonth
<1>7. Spread' /\ OnGrid'  BY <1>1, <1>6 DEF Spread, OnGrid
<1>8. Done'
  <2>1. \A r \in Range(log) : r.of \subseteq taken
    <3>1. Range(log) = {log[i] : i \in 1..Len(log)}
      BY DEF Range, IInv, TypeOK
    <3>2. QED  BY <3>1, <1>5
  <2>2. {r \in Range(log') : OfMonth(r.of)' # {}} = {}
    BY <2>1, <1>1, <1>4 DEF OfMonth
  <2>3. Reference(Out)' = {}  BY <1>6 DEF Reference
  <2>4. QED  BY <2>2, <2>3 DEF Done
<1>9. Increasing'  BY <1>1, <1>3 DEF MOf, Increasing
<1>10. \A m \in Nat : m \in (month + 1)..Len(input) =>
         \A f \in 1..Len(input[m]) : \A k \in 1..Len(input[m][f]) :
           \A i \in 1..Len(log) : log[i].at < input[m][f][k].at + Cycle
  BY <1>3 DEF MOf, Later
<1>11. Later'
  <2>1. \A m \in Nat : m \in (month' + 1)..Len(input) => m \in (month + 1)..Len(input)
    BY <1>1
  <2>2. QED  BY <2>1, <1>1, <1>10 DEF Later
<1>12. Cycles'
  <2>1. ASSUME NEW f \in Nat, NEW k \in Nat, ToCome(f, k)', NEW i \in 1..Len(log)
        PROVE  log[i].at < Frame(f, k)'.at + Cycle
    <3>1. f \in 1..Len(input[month + 1]) /\ k \in 1..Len(input[month + 1][f])
      <4>1. f \in file'..Len(Files') /\ k \in 1..Len(Files'[f])  BY <2>1 DEF ToCome
      <4>2. QED  BY <4>1, <1>1
    <3>2. Frame(f, k)' = input[month + 1][f][k]  BY <1>1 DEF Frame
    <3>3. month + 1 \in Nat /\ month + 1 \in (month + 1)..Len(input)  BY <1>1
    <3>4. log[i].at < input[month + 1][f][k].at + Cycle  BY <3>1, <3>3, <1>10
    <3>5. QED  BY <3>2, <3>4
  <2>2. QED  BY <2>1, <1>1, <1>6 DEF Cycles
<1>13. QED  BY <1>7, <1>8, <1>9, <1>11, <1>12 DEF MOf

LEMMA FinishM == IInv /\ RInv /\ MInv /\ Finish => MInv'
<1> SUFFICES ASSUME IInv, RInv, MInv, Finish PROVE MInv'
  OBVIOUS
<1>1. /\ UNCHANGED <<input, month, next, first, taken>>
      /\ pc = "folding" /\ pc' = "idle" /\ log' = Ended
  BY DEF Finish, clock, history
<1>2. Real'  BY <1>1, RealKept DEF MInv
<1> SUFFICES ASSUME Ordered' PROVE MOf'
  BY <1>2 DEF MInv
<1>3. Ordered  BY <1>1, OrderedKept
<1>4. MOf /\ Real /\ Clock /\ Cycles
  BY <1>1, <1>3 DEF MInv, MOf, RInv, ROf
<1>5. Spread'
  <2>1. OfMonth(taken)' = OfMonth(taken) /\ \A n : TickOf(n)' = TickOf(n)
    BY <1>1 DEF OfMonth, TickOf
  <2>2. QED  BY <2>1, <1>1, <1>4 DEF MOf, Spread
<1>6. OnGrid'  BY <1>1, <1>4 DEF MOf, OnGrid
<1>7. Done' /\ Increasing' /\ Later'
  <2>1. CASE acc # {}
    <3>1. ~(next < last)
      <4>1. last < next  BY <2>1, <1>4 DEF Cycles
      <4>2. next \in Nat /\ last \in Nat  BY <2>1 DEF IInv, TypeOK, OpenBefore
      <4>3. QED  BY <4>1, <4>2
    <3>2. log' = Append(log, [at |-> next, of |-> acc])  BY <2>1, <3>1, <1>1 DEF Ended
    <3>3. QED  BY <2>1, <3>2, <1>1, <1>3, <1>4, RecordOut
  <2>2. CASE acc = {}
    <3>1. log' = log  BY <2>2, <1>1 DEF Ended
    <3>2. Reference(Out)' = Reference(Out)
      BY <3>1, <1>1 DEF Reference, Out, OfMonth, Recorded, End, TickOf
    <3>3. \A T : OfMonth(T)' = OfMonth(T)  BY <1>1 DEF OfMonth
    <3>4. Done'  BY <3>1, <3>2, <3>3, <1>4 DEF MOf, Done
    <3>5. Increasing' /\ Later'  BY <3>1, <1>1, <1>4 DEF MOf, Increasing, Later
    <3>6. QED  BY <3>4, <3>5
  <2>3. QED  BY <2>1, <2>2
<1>8. QED  BY <1>1, <1>5, <1>6, <1>7 DEF MOf

LEMMA DownM ==
  ASSUME IInv, MInv, pc' = "down", UNCHANGED <<input, month, first, taken>>
  PROVE  MInv'
  BY RealKept DEF MInv

LEMMA FinishFailsM == IInv /\ RInv /\ MInv /\ FinishFails => MInv'
  BY DownM DEF FinishFails, clock, history

LEMMA CrashM == IInv /\ RInv /\ MInv /\ Crash => MInv'
  BY DownM DEF Crash, clock, history

LEMMA StutterM == IInv /\ MInv /\ UNCHANGED vars => MInv'
<1> SUFFICES ASSUME IInv, MInv, UNCHANGED vars PROVE MInv'
  OBVIOUS
<1>1. UNCHANGED <<input, month, log, pc, file, pos, acc, first, next, last, taken>>
  BY DEF vars, disk, clock, history
<1>2. Real'  BY <1>1, RealKept DEF MInv
<1> SUFFICES ASSUME Ordered', pc # "down" PROVE MOf'
  BY <1>1, <1>2 DEF MInv
<1>3. MOf  BY <1>1, OrderedKept DEF MInv
<1>4. /\ Spread' = Spread /\ OnGrid' = OnGrid /\ Increasing' = Increasing /\ Later' = Later
  BY <1>1 DEF Spread, OnGrid, Increasing, Later, OfMonth, TickOf
<1>5. Done' = Done  BY <1>1 DEF Done, Reference, Out, OfMonth, Recorded, End, TickOf
<1>6. Cycles' = Cycles
  BY <1>1 DEF Cycles, Out, OfMonth, Recorded, TickOf, ToCome, Frame, Files
<1>7. QED  BY <1>1, <1>3, <1>4, <1>5, <1>6 DEF MOf

LEMMA InitM == Init => MInv
<1> SUFFICES ASSUME Init PROVE MInv
  OBVIOUS
<1>1. first = 0 /\ taken = {} /\ log = <<>> /\ next = None /\ pc = "idle" /\ Len(log) = 0
  BY DEF Init
<1>2. Out = {} /\ OfMonth(taken) = {}  BY <1>1 DEF Out, OfMonth, Recorded
<1>3. Real  BY <1>1 DEF Real
<1>4. Spread /\ OnGrid /\ Increasing /\ Later
  BY <1>1, <1>2 DEF Spread, OnGrid, Increasing, Later
<1>5. Done
  <2>1. Range(log) = {}  BY <1>1 DEF Range
  <2>2. QED  BY <2>1, <1>2, NoTicks DEF Done
<1>6. QED  BY <1>1, <1>3, <1>4, <1>5 DEF MInv, MOf

LEMMA IngestM == IInv /\ RInv /\ MInv /\ Ingest => MInv'
<1> SUFFICES ASSUME IInv, RInv, MInv, Ingest PROVE MInv'
  OBVIOUS
<1> DEFINE n == Name(file, pos + 1)
<1>1. /\ UNCHANGED <<input, month, log, pc, file, dropped>>
      /\ pc = "folding" /\ Files' = Files /\ pos' = pos + 1
      /\ Streaming /\ pos < Len(Files[file]) /\ ~Due
      /\ next' = IF next = None THEN Now + Cycle ELSE next
      /\ first' = IF next = None THEN Now ELSE first
      /\ \/ acc' = acc \cup {n} /\ taken' = taken \cup {n} /\ last' = Now
         \/ UNCHANGED <<acc, taken, last>>
  BY DEF Ingest, disk, AtTick, Streaming, Files
<1>2. /\ file \in 1..Len(Files) /\ pos + 1 \in 1..Len(Files[file])
      /\ TickOf(n).at = Now /\ Now \in Nat /\ pos \in Nat
      /\ n[1] = month /\ n[2] = file /\ n[3] = pos + 1
      /\ month \in 1..Len(input) /\ Len(input) \in Nat
  <2>1. TypeOK  BY DEF IInv
  <2>2. /\ file \in 1..Len(Files) /\ pos + 1 \in 1..Len(Files[file])
        /\ TickOf(n) = Frame(file, pos + 1) /\ Now \in Nat
    BY <1>1, <2>1, FrameType
  <2>3. pos \in Nat /\ month \in 1..Len(input) /\ Len(input) \in Nat
    BY <1>1, <2>1 DEF TypeOK
  <2>4. TickOf(n).at = Now  BY <2>2 DEF Now
  <2>5. n[1] = month /\ n[2] = file /\ n[3] = pos + 1  BY DEF Name
  <2> HIDE DEF n
  <2>6. QED  BY <2>2, <2>3, <2>4, <2>5
<1>3. ToCome(file, pos + 1) /\ Frame(file, pos + 1).at = Now
  <2>1. file \in file..Len(Files)  BY <1>2
  <2>2. pos < pos + 1  BY <1>2
  <2>3. QED  BY <2>1, <2>2, <1>2 DEF ToCome, Now
<1>4. taken' \subseteq taken \cup {n}  BY <1>1
<1> HIDE DEF n
<1>5. first' \in Nat  BY <1>1, <1>2 DEF MInv, Real
<1>6. Real'
  <2>1. ASSUME NEW m \in taken'
        PROVE  /\ m[1] \in 1..month /\ m[2] \in 1..Len(input[m[1]])
               /\ m[3] \in 1..Len(input[m[1]][m[2]])
    <3>1. CASE m \in taken  BY <3>1 DEF MInv, Real
    <3>2. CASE m = n
      <4>1. month \in 1..month  BY <1>2
      <4>2. QED  BY <3>2, <4>1, <1>2 DEF Files
    <3>3. QED  BY <2>1, <3>1, <3>2, <1>4
  <2>2. QED  BY <2>1, <1>1, <1>5 DEF Real
<1> SUFFICES ASSUME Ordered' PROVE MOf'
  BY <1>6 DEF MInv
<1>7. Ordered  BY <1>1, OrderedKept
<1>8. MOf /\ Real /\ Clock /\ Cycles
  BY <1>1, <1>7 DEF MInv, MOf, RInv, ROf
<1>9. /\ \A m : TickOf(m)' = TickOf(m)
      /\ \A T : OfMonth(T)' = OfMonth(T)
      /\ OfMonth(taken)' \subseteq OfMonth(taken) \cup {n}
      /\ Out' = Out
  BY <1>1, <1>4 DEF TickOf, OfMonth, Out, Recorded
<1>10. Out \subseteq OfMonth(taken)  BY <1>1, OutTaken
<1>11. \A m \in OfMonth(taken) : TickOf(m).at \in Nat
  BY DEF OfMonth, IInv, Timed
<1>12. /\ next' \in Nat /\ next' # None /\ Now < next'
       /\ first' <= Now
       /\ \A m \in OfMonth(taken) : first' <= TickOf(m).at /\ TickOf(m).at < next'
       /\ OnGrid'
       /\ Reference(Out)' = Reference(Out)
       /\ \A m \in Out : TickOf(m).at < next' - Cycle
       /\ \A i \in 1..Len(log) : log[i].at < next'
  <2>1. CASE next = None
    <3>1. next' = Now + Cycle /\ first' = Now  BY <2>1, <1>1
    <3>2. next' \in Nat /\ Now < next'  BY <3>1, <1>2, CycleAssumption
    <3>3. next' # None  BY <3>2
    <3>4. OfMonth(taken) = {} /\ Out = {}  BY <2>1, <1>8, <1>10 DEF MOf, Spread
    <3>5. OnGrid'
      <4>1. Cycle * (0 + 1) = Cycle  BY CycleAssumption
      <4>2. next' = first' + Cycle * (0 + 1)  BY <3>1, <4>1
      <4>3. QED  BY <4>2 DEF OnGrid
    <3>6. Reference(Out)' = Reference(Out)
      <4>1. Reference(Out)' = {}  BY <3>4, <1>9 DEF Reference
      <4>2. QED  BY <3>4, <4>1, NoTicks
    <3>7. \A i \in 1..Len(log) : log[i].at < next'
      BY <2>1, <3>1, <1>2, <1>3, <1>8 DEF Cycles
    <3>8. first' <= Now  BY <3>1, <1>2
    <3>9. QED  BY <3>2, <3>3, <3>4, <3>5, <3>6, <3>7, <3>8
  <2>2. CASE next # None
    <3>1. next' = next /\ first' = first /\ next \in Nat /\ first \in Nat
      BY <2>2, <1>1, <1>8 DEF IInv, TypeOK, Real
    <3>2. Now < next
      <4>1. ~(Now >= next)  BY <2>2, <1>1 DEF Due
      <4>2. QED  BY <3>1, <4>1, <1>2
    <3>3. first <= Now
      <4>1. next - Cycle <= Now
        <5>1. next - Cycle <= Frame(file, pos + 1).at
          BY <2>2, <1>2, <1>3, <1>8 DEF Clock
        <5>2. QED  BY <5>1, <1>3
      <4>2. PICK k \in Nat : next = first + Cycle * (k + 1)  BY <2>2, <1>8 DEF MOf, OnGrid
      <4>3. next - Cycle = first + Cycle * k
        <5>1. (first + Cycle * (k + 1)) - Cycle = first + Cycle * k
          BY <3>1, CycleAssumption, GridStep
        <5>2. QED  BY <4>2, <5>1
      <4>4. Cycle * k \in Nat  BY CycleAssumption
      <4>5. QED  BY <4>1, <4>3, <4>4, <3>1, <1>2
    <3>4. Reference(Out)' = Reference(Out)
      <4>1. \A m : End(TickOf(m).at)' = End(TickOf(m).at)  BY <3>1, <1>9 DEF End
      <4>2. QED  BY <4>1, <1>9 DEF Reference
    <3>5. OnGrid'  BY <3>1, <1>8 DEF MOf, OnGrid
    <3>6. QED  BY <2>2, <3>1, <3>2, <3>3, <3>4, <3>5, <1>8 DEF MOf, Spread, Cycles
  <2>3. QED  BY <2>1, <2>2
<1>13. Spread'
  <2>1. \A m \in OfMonth(taken)' : first' <= TickOf(m).at /\ TickOf(m).at < next'
    <3> TAKE m \in OfMonth(taken)'
    <3>1. m \in OfMonth(taken) \/ m = n  BY <1>9
    <3>2. QED  BY <3>1, <1>2, <1>12
  <2>2. QED  BY <2>1, <1>9, <1>12 DEF Spread
<1>14. Done'  BY <1>1, <1>8, <1>9, <1>12 DEF MOf, Done
<1>15. Increasing' /\ Later'  BY <1>1, <1>8 DEF MOf, Increasing, Later
<1>16. Cycles'
  <2>1. acc' # {} => last' < next'
    <3>1. CASE last' = Now  BY <3>1, <1>12
    <3>2. CASE UNCHANGED <<acc, last>> /\ next' = next  BY <3>2, <1>8 DEF Cycles
    <3>3. CASE UNCHANGED <<acc, last>> /\ next = None
      BY <3>3 DEF IInv, OpenBefore
    <3>4. QED  BY <3>1, <3>2, <3>3, <1>1
  <2>2. QED  BY <2>1, <1>1, <1>9, <1>12 DEF Cycles
<1>17. QED  BY <1>12, <1>13, <1>14, <1>15, <1>16 DEF MOf

LEMMA StepM == IInv /\ RInv /\ MInv /\ [Next]_vars => MInv'
  BY StartM, SkipM, CloseCycleM, CloseCycleFailsM, IngestM, FileFoldedM,
     FinishM, FinishFailsM, CrashM, StutterM DEF Next, Fold

\* At any moment what is in records and what is open are the cycles of what was
\* taken.
LEMMA MatchesParts == IInv /\ RInv /\ MInv => MatchesReference
<1> SUFFICES ASSUME IInv, RInv, MInv, pc # "down", Ordered
             PROVE  /\ {r \in Range(log) : OfMonth(r.of) # {}} \cup Open
                         = Reference(OfMonth(taken \ dropped))
                    /\ \A i, j \in 1..Len(log) : i < j => log[i].at < log[j].at
                    /\ acc # {} => \A i \in 1..Len(log) : log[i].at < next
  BY DEF MatchesReference
<1>1. MOf /\ Real  BY DEF MInv
<1>2. {r \in Range(log) : OfMonth(r.of) # {}} = Reference(Out)  BY <1>1 DEF MOf, Done
<1>3. /\ taken = Recorded(Len(log)) \cup acc \cup dropped
      /\ dropped \cap (acc \cup Recorded(Len(log))) = {}
  BY DEF IInv, EachTickOnce
<1>4. taken \ dropped = Recorded(Len(log)) \cup acc  BY <1>3
<1>5. OfMonth(taken \ dropped) = Out \cup OfMonth(acc)  BY <1>4 DEF Out, OfMonth
<1>6. CASE acc = {}
  <2>1. OfMonth(acc) = {}  BY <1>6 DEF OfMonth
  <2>2. OfMonth(taken \ dropped) = Out /\ Open = {}  BY <2>1, <1>5, <1>6 DEF Open
  <2>3. QED  BY <2>2, <1>1, <1>2, <1>6 DEF MOf, Increasing
<1>7. CASE acc # {}
  <2>1. pc = "folding"  BY <1>7 DEF IInv, OpenBefore
  <2>2. Clock /\ Cycles  BY <2>1, <1>1 DEF RInv, ROf, MOf
  <2>3. /\ next # None /\ Reference(Out \cup acc) = Reference(Out) \cup {[at |-> next, of |-> acc]}
        /\ \A n \in acc : n \in OfMonth(taken)
    BY <1>1, <1>7, <2>1, <2>2, OpenCycle
  <2>4. OfMonth(acc) = acc  BY <2>3 DEF OfMonth
  <2>5. Open = {[at |-> next, of |-> acc]}  BY <1>7 DEF Open
  <2>6. {r \in Range(log) : OfMonth(r.of) # {}} \cup Open = Reference(OfMonth(taken \ dropped))
    BY <2>3, <2>4, <2>5, <1>2, <1>5
  <2>7. \A i \in 1..Len(log) : log[i].at < next  BY <2>2, <2>3 DEF Cycles
  <2>8. QED  BY <2>6, <2>7, <1>1 DEF MOf, Increasing
<1>8. QED  BY <1>6, <1>7

\* On ticks in order the fold computes its definition, for any cycle and any
\* months: one record for each cycle of the month with a tick in it, of all the
\* ticks of that cycle, whatever could not be opened or appended, and over all
\* the months the records are in the order of time.
THEOREM FoldIsReference == Spec => []MatchesReference
<1>1. Init => IInv /\ RInv /\ MInv
  BY InitInv, InitR, InitM
<1>2. (IInv /\ RInv /\ MInv) /\ [Next]_vars => (IInv /\ RInv /\ MInv)'
  BY StepInv, StepR, StepM
<1>3. IInv /\ RInv /\ MInv => MatchesReference
  BY MatchesParts
<1>4. QED  BY <1>1, <1>2, <1>3, PTL DEF Spec
=============================================================================
