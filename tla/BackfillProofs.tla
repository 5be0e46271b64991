---------------------------- MODULE BackfillProofs ----------------------------
(***************************************************************************)
(* For any exchanges, calendar, archive and number of runs of backfill-all *)
(* and any cap of its gate: staging is purged on every way out of a ticker *)
(* but those it reports as failed, a fresh build carries every day it has  *)
(* folded into the composite, "ok" is true of shards, manifest and bars,   *)
(* the permits of the gate are conserved and no wakeup is lost.            *)
(***************************************************************************)
EXTENDS Backfill, HeavyGate, FiniteSetTheorems, SequenceTheorems, WellFoundedInduction, TLAPS

-----------------------------------------------------------------------------
(* The inductive invariant of one ticker's run.                            *)

TickerAt ==
  {"down", "start", "gate", "fetch", "fold", "merge", "merging", "validate", "s10", "renko",
   "validateBars", "gaps", "status"}

IsShards(f) == DOMAIN f \subseteq Days /\ f \in [DOMAIN f -> SUBSET Sources]

DiskType ==
  /\ raw \in [Providers -> SUBSET Files]
  /\ idx \in [Providers -> Seq(Days) \cup {None}]
  /\ IsShards(shards) /\ (manifest = None \/ IsShards(manifest))
  /\ s10 \subseteq Days /\ renko \in BOOLEAN /\ barsDone \in BOOLEAN

PlanType ==
  /\ pc \in TickerAt /\ pass \in {0, 1} /\ runs \in 0..MaxRuns
  /\ flags \in [resume: BOOLEAN, keep: BOOLEAN]
  /\ window \in Days \X Days /\ window[1] <= window[2]
  /\ active \subseteq Providers
  /\ failed \in BOOLEAN /\ report \in {"none", "ok", "failed"}
  /\ clean \in BOOLEAN /\ folded \in [Providers -> SUBSET Days]
  /\ used \subseteq Providers /\ unpurged \in BOOLEAN

\* The loop over the months: of whom it fetches, what it folds, and that the
\* month it is at is one of the calendar and not behind the window.
LoopType ==
  /\ hard \in BOOLEAN /\ month \in Int
  /\ queue \in [Providers -> SUBSET Files] /\ clock \in [Providers -> Int]
  /\ pc = "fetch" => todo \subseteq active
  /\ pc = "merging" => todo \subseteq Days
  /\ pc \in {"fetch", "fold"} =>
       /\ \E d \in Days : MonthOf[d] = month
       /\ month <= MonthOf[window[2]]
  /\ \A x \in Providers : queue[x] # {} => pc = "fold" /\ x \in active /\ idx[x] # None

Worked == active \subseteq used /\ (pc = "start" => active = {})

\* A ticker reports when it ends, and a failure when staging may be left.
Reported ==
  /\ report # "none" => pc = "down"
  /\ unpurged => failed
  /\ report = "ok" => ~failed

\* Staging of the exchanges a run is done with is gone, and that of the active
\* ones wherever the run may end without passing a purge, if every purge went well.
NoStaging(xs) == \A x \in xs : raw[x] = {} /\ idx[x] = None
Purged ==
  ~flags.keep /\ ~unpurged =>
    /\ NoStaging(used \ active)
    /\ pc \in {"start", "s10", "renko", "validateBars", "gaps", "status", "down"} =>
         NoStaging(active)

\* What an "ok" would say holds from the merge on, and on any way to it.
Promised == pc \in {"validateBars", "gaps"} \/ (pc = "status" /\ ~failed) \/ report = "ok"
Built ==
  ~flags.resume =>
    /\ pc \in {"validate", "s10", "renko"} \/ Promised => manifest = shards
    /\ pc = "renko" \/ Promised => Closed \subseteq s10

\* A build from scratch has in an exchange's log, in order, the days it has
\* folded of it.
Sorted(log) == \A i, j \in DOMAIN log : i < j => log[i] < log[j]
Logged(x) ==
  IF idx[x] = None THEN folded[x] = {} ELSE Sorted(idx[x]) /\ ToSet(idx[x]) = folded[x]

\* The files of a month: a single one, or single days.
Simple(files) == (\E f \in Files : files \subseteq {f}) \/ files \subseteq {{d} : d \in Days}

\* Those to fold are of the month, and later than everything folded before.
Later(x) ==
  \A f \in queue[x] : \A e \in f :
    MonthOf[e] = month /\ clock[x] < e /\ \A d \in folded[x] : d < e

Carried(x, d) == d \in DOMAIN shards /\ x \in shards[d]

FreshAt(x) ==
  /\ pc = "gate" => raw[x] = {} /\ folded[x] = {}
  /\ pc = "fetch" =>
       /\ \A d \in folded[x] : MonthOf[d] < month
       /\ x \in todo => raw[x] = {}
       /\ Simple(raw[x]) /\ \A f \in raw[x] : f \subseteq MonthDays
  /\ pc = "fold" =>
       /\ \A d \in folded[x] : MonthOf[d] <= month
       /\ Simple(queue[x]) /\ Later(x)
  /\ pc \in {"fetch", "fold", "merge", "merging", "validate"} => Logged(x)
  /\ pc = "merging" => \A d \in folded[x] : d \in todo \/ Carried(x, d)
  /\ pc = "validate" => \A d \in folded[x] : Carried(x, d)

Fresh == clean /\ ~flags.resume => \A x \in active : FreshAt(x)

IInv ==
  DiskType /\ PlanType /\ LoopType /\ Worked /\ Reported /\ Purged /\ Built /\ Fresh
-----------------------------------------------------------------------------
(* Least and greatest elements, and the days of a file in order.           *)

Lt == {ss \in Nat \X Nat : ss[1] < ss[2]}

LEMMA LeastNat ==
  ASSUME NEW T, T \subseteq Nat, T # {}
  PROVE  \E n \in T : \A m \in T : n <= m
<1>1. IsWellFoundedOn(Lt, Nat)  BY NatLessThanWellFounded DEF OpToRel, Lt
<1>2. PICK n \in T : \A m \in T : ~ (<<m, n>> \in Lt)  BY <1>1, WFMin
<1>3. \A m \in T : n <= m
  <2> TAKE m \in T
  <2>1. m \in Nat /\ n \in Nat  OBVIOUS
  <2>2. m < n => <<m, n>> \in Lt  BY <2>1 DEF Lt
  <2>3. QED  BY <1>2, <2>1, <2>2
<1>4. QED  BY <1>3

\* Min and Max are what they say on sets of integers with a bound.
LEMMA MinBounded ==
  ASSUME NEW S, S \subseteq Int, S # {}, NEW b \in Int, \A s \in S : b <= s
  PROVE  Min(S) \in S /\ \A s \in S : Min(S) <= s
<1> DEFINE T == {s - b : s \in S}
<1>1. T \subseteq Nat /\ T # {}
  <2>1. \A s \in S : s - b \in Nat  OBVIOUS
  <2>2. QED  BY <2>1
<1>2. PICK n \in T : \A m \in T : n <= m  BY <1>1, LeastNat
<1>3. PICK s \in S : n = s - b  BY <1>2
<1>4. \A r \in S : s <= r
  <2> TAKE r \in S
  <2>1. s - b <= r - b  BY <1>2, <1>3
  <2>2. QED  BY <2>1
<1>5. \E x \in S : \A y \in S : x <= y  BY <1>4
<1>6. QED  BY <1>5 DEF Min

LEMMA MaxBounded ==
  ASSUME NEW S, S \subseteq Int, S # {}, NEW b \in Int, \A s \in S : s <= b
  PROVE  Max(S) \in S /\ \A s \in S : s <= Max(S)
<1> DEFINE T == {b - s : s \in S}
<1>1. T \subseteq Nat /\ T # {}
  <2>1. \A s \in S : b - s \in Nat  OBVIOUS
  <2>2. QED  BY <2>1
<1>2. PICK n \in T : \A m \in T : n <= m  BY <1>1, LeastNat
<1>3. PICK s \in S : n = b - s  BY <1>2
<1>4. \A r \in S : r <= s
  <2> TAKE r \in S
  <2>1. b - s <= b - r  BY <1>2, <1>3
  <2>2. QED  BY <2>1
<1>5. \E x \in S : \A y \in S : x >= y  BY <1>4
<1>6. QED  BY <1>5 DEF Max

LEMMA DaysAreInterval ==
  /\ Days \subseteq Int /\ Today \in Days /\ IsFiniteSet(Days)
  /\ \E first \in Days : \A d \in Days : first <= d /\ d <= Today
  /\ \A d, e \in Days, n \in Int : d <= n /\ n <= e => n \in Days
<1>1. PICK first \in Days : Days = first..Today  BY DaysAssumption
<1>2. Today \in Int  BY DaysAssumption
<1>3. first \in Int /\ first <= Today  BY <1>1, <1>2
<1>4. IsFiniteSet(Days)  BY <1>1, <1>2, <1>3, FS_Interval
<1>5. QED  BY <1>1, <1>2, <1>3, <1>4

LEMMA MinDays ==
  ASSUME NEW S, S \subseteq Days, S # {}
  PROVE  Min(S) \in S /\ \A s \in S : Min(S) <= s
  BY DaysAreInterval, MinBounded

LEMMA MaxDays ==
  ASSUME NEW S, S \subseteq Days, S # {}
  PROVE  Max(S) \in S /\ \A s \in S : s <= Max(S)
  BY DaysAreInterval, MaxBounded

LEMMA MonthOrder ==
  \A d, e \in Days : MonthOf[d] \in Int /\ (MonthOf[d] < MonthOf[e] => d < e)
<1> TAKE d, e \in Days
<1>1. d \in Int /\ e \in Int  BY DaysAreInterval
<1>2. MonthOf[d] \in Int /\ MonthOf[e] \in Int  BY DaysAssumption
<1>3. e <= d => MonthOf[e] <= MonthOf[d]  BY DaysAssumption
<1>4. QED  BY <1>1, <1>2, <1>3

IsAscending(s, days) ==
  /\ s \in [1..Cardinality(days) -> days]
  /\ \A i, j \in 1..Cardinality(days) : i < j => s[i] < s[j]

\* Any set of days can be enumerated in order: by the smallest one that cannot.
LEMMA AscendingExists ==
  ASSUME NEW days, days \subseteq Days
  PROVE  \E s : IsAscending(s, days)
<1> DEFINE T == {f \in SUBSET Days : ~ \E s : IsAscending(s, f)}
<1>1. SUFFICES ASSUME T # {}  PROVE FALSE
  BY <1>1
<1>2. IsWellFoundedOn(StrictSubsetOrdering(Days), FiniteSubsetsOf(Days))
  BY FS_StrictSubsetOrderingWellFounded
<1>3. FiniteSubsetsOf(Days) = SUBSET Days  BY DaysAreInterval, FS_FiniteSubsetsOfFinite
<1>4. T \subseteq SUBSET Days  OBVIOUS
<1> HIDE DEF T
<1>5. PICK f \in T : \A g \in T : ~ (<<g, f>> \in StrictSubsetOrdering(Days))
  BY <1>1, <1>2, <1>3, <1>4, WFMin
<1>6. f \subseteq Days /\ ~ \E s : IsAscending(s, f)  BY <1>5 DEF T
<1>7. f # {}
  <2> SUFFICES ASSUME f = {}  PROVE FALSE
    OBVIOUS
  <2>1. Cardinality(f) = 0  BY FS_EmptySet
  <2>2. 1..Cardinality(f) = {}  BY <2>1
  <2>3. IsAscending([i \in {} |-> 0], f)  BY <2>2 DEF IsAscending
  <2>4. QED  BY <1>6, <2>3
<1> DEFINE m == Max(f)
           g == f \ {m}
           n == Cardinality(g)
<1>8. m \in f /\ \A d \in f : d <= m  BY <1>6, <1>7, MaxDays
<1> HIDE DEF m
<1>9. IsFiniteSet(f) /\ IsFiniteSet(g) /\ n \in Nat /\ Cardinality(f) = n + 1
  <2>1. IsFiniteSet(f)  BY <1>6, DaysAreInterval, FS_Subset
  <2>2. IsFiniteSet(g) /\ Cardinality(g) = Cardinality(f) - 1  BY <1>8, <2>1, FS_RemoveElement
  <2>3. Cardinality(f) \in Nat /\ Cardinality(g) \in Nat  BY <2>1, <2>2, FS_CardinalityType
  <2>4. QED  BY <2>1, <2>2, <2>3
<1>10. <<g, f>> \in StrictSubsetOrdering(Days)
  BY <1>6, <1>8 DEF StrictSubsetOrdering
<1>11. g \notin T  BY <1>5, <1>10
<1>12. PICK s : IsAscending(s, g)  BY <1>6, <1>11 DEF T
<1> DEFINE r == [i \in 1..(n + 1) |-> IF i <= n THEN s[i] ELSE m]
<1>13. IsAscending(r, f)
  <2>1. s \in [1..n -> g] /\ \A i, j \in 1..n : i < j => s[i] < s[j]
    BY <1>12 DEF IsAscending
  <2>2. \A i \in 1..n : s[i] \in f /\ s[i] < m /\ s[i] \in Int
    <3> TAKE i \in 1..n
    <3>1. s[i] \in g  BY <2>1
    <3>2. s[i] \in Int /\ m \in Int  BY <1>6, <1>8, <3>1, DaysAreInterval
    <3>3. QED  BY <1>8, <3>1, <3>2
  <2> HIDE DEF g, n
  <2>3. r \in [1..(n + 1) -> f]  BY <1>8, <1>9, <2>2
  <2>4. \A i, j \in 1..(n + 1) : i < j => r[i] < r[j]  BY <1>9, <2>1, <2>2
  <2> HIDE DEF r
  <2>5. QED  BY <1>9, <2>3, <2>4 DEF IsAscending
<1>14. QED  BY <1>6, <1>13

\* Ascending lists every day once, in order.
LEMMA AscendingLists ==
  ASSUME NEW days, days \subseteq Days
  PROVE  /\ Ascending(days) \in Seq(Days) /\ Sorted(Ascending(days))
         /\ ToSet(Ascending(days)) = days
<1> DEFINE s == Ascending(days)
           n == Cardinality(days)
<1>1. IsAscending(s, days)
  <2>1. PICK r : IsAscending(r, days)  BY AscendingExists
  <2>2. QED  BY <2>1 DEF IsAscending, Ascending
<1>2. IsFiniteSet(days) /\ n \in Nat  BY DaysAreInterval, FS_Subset, FS_CardinalityType
<1>3. s \in [1..n -> days] /\ \A i, j \in 1..n : i < j => s[i] < s[j]
  BY <1>1 DEF IsAscending
<1> HIDE DEF s
<1>4. \A i \in 1..n : s[i] \in Days /\ s[i] \in Int  BY <1>3, DaysAreInterval
<1>5. s \in Seq(Days)
  <2>1. s \in [1..n -> Days]  BY <1>3, <1>4
  <2> HIDE DEF n
  <2>2. QED  BY <1>2, <2>1, SeqDef
<1>6. DOMAIN s = 1..n  BY <1>3
<1>7. Sorted(s)  BY <1>3, <1>6 DEF Sorted
<1>8. ToSet(s) = days
  <2>1. ToSet(s) \subseteq days  BY <1>3, <1>6 DEF ToSet
  <2>2. \A i, j \in 1..n : s[i] = s[j] => i = j
    BY <1>2, <1>3, <1>4
  <2>3. s \in Injection(1..n, days)  BY <1>3, <2>2 DEF Injection, IsInjective
  <2>4. IsFiniteSet(1..n) /\ Cardinality(1..n) = n
    <3> HIDE DEF n
    <3>1. QED  BY <1>2, FS_Interval
  <2>5. s \in Surjection(1..n, days)  BY <1>2, <2>3, <2>4, FS_Injection
  <2>6. QED  BY <1>6, <2>1, <2>5 DEF Surjection, ToSet
<1>9. QED  BY <1>5, <1>7, <1>8 DEF s

-----------------------------------------------------------------------------
(* Files and logs.                                                         *)

\* The first file by last day and number of days.
LEMMA FirstFileIs ==
  ASSUME NEW files, files \subseteq Files, files # {}
  PROVE  /\ FirstFile(files) \in files
         /\ \A g \in files : \/ Max(FirstFile(files)) < Max(g)
                             \/ /\ Max(FirstFile(files)) = Max(g)
                                /\ Cardinality(FirstFile(files)) <= Cardinality(g)
<1> DEFINE M == {Max(g) : g \in files}
           m == Min(M)
           C == {Cardinality(g) : g \in {h \in files : Max(h) = m}}
<1>1. \A g \in files : g \subseteq Days /\ Max(g) \in Days /\ Max(g) \in Int /\ Cardinality(g) \in Nat
  <2> TAKE g \in files
  <2>1. g \subseteq Days /\ g # {}  BY DEF Files
  <2>2. Max(g) \in Days  BY <2>1, MaxDays
  <2>3. Cardinality(g) \in Nat  BY <2>1, DaysAreInterval, FS_Subset, FS_CardinalityType
  <2>4. QED  BY <2>1, <2>2, <2>3, DaysAreInterval
<1>2. M \subseteq Days /\ M # {}  BY <1>1
<1>3. m \in M /\ \A s \in M : m <= s
  <2> HIDE DEF M
  <2>1. QED  BY <1>2, MinDays
<1>4. C \subseteq Nat /\ C # {}  BY <1>1, <1>3
<1>5. PICK c \in C : \A k \in C : c <= k
  <2> HIDE DEF C
  <2>1. QED  BY <1>4, LeastNat
<1>6. PICK f \in files : Max(f) = m /\ Cardinality(f) = c  BY <1>5
<1>7. \A g \in files : \/ Max(f) < Max(g)
                       \/ Max(f) = Max(g) /\ Cardinality(f) <= Cardinality(g)
  <2> TAKE g \in files
  <2>1. m <= Max(g) /\ m \in Int /\ Max(g) \in Int  BY <1>1, <1>3
  <2>2. CASE Max(g) = m  BY <1>5, <1>6, <2>2
  <2>3. CASE Max(g) # m  BY <1>6, <2>1, <2>3
  <2>4. QED  BY <2>2, <2>3
<1>8. QED  BY <1>7 DEF FirstFile

\* Of one file, or of single days, the first one is before the others.
LEMMA FirstOfSimple ==
  ASSUME NEW files, files \subseteq Files, files # {}, Simple(files)
  PROVE  \A g \in files \ {FirstFile(files)} :
           \A d \in FirstFile(files), e \in g : d < e
<1> DEFINE f == FirstFile(files)
<1>1. f \in files /\ \A g \in files : Max(f) < Max(g) \/ Max(f) = Max(g)
  BY FirstFileIs
<1> HIDE DEF f
<1>2. CASE \E h \in Files : files \subseteq {h}  BY <1>1, <1>2 DEF f
<1>3. CASE files \subseteq {{d} : d \in Days}
  <2>1. \A d \in Days : Max({d}) = d /\ d \in Int
    <3> TAKE d \in Days
    <3>1. {d} \subseteq Days /\ {d} # {}  OBVIOUS
    <3>2. Max({d}) \in {d}  BY <3>1, MaxDays
    <3>3. QED  BY <3>2, DaysAreInterval
  <2>2. PICK a \in Days : f = {a}  BY <1>1, <1>3
  <2>3. \A g \in files \ {f} : \E b \in Days : g = {b} /\ a < b
    <3> TAKE g \in files \ {f}
    <3>1. PICK b \in Days : g = {b}  BY <1>3
    <3>2. a # b  BY <2>2, <3>1
    <3>3. Max(f) = a /\ Max(g) = b  BY <2>1, <2>2, <3>1
    <3>4. a < b  BY <1>1, <2>1, <3>2, <3>3
    <3>5. QED  BY <3>1, <3>4
  <2>4. QED  BY <2>2, <2>3 DEF f
<1>4. QED  BY <1>2, <1>3 DEF Simple

LEMMA SimpleSubset ==
  ASSUME NEW files, Simple(files), NEW some, some \subseteq files
  PROVE  Simple(some)
  BY DEF Simple

\* A log grows by days later than all it has.
LEMMA LogGrows ==
  ASSUME NEW log \in Seq(Days), NEW s \in Seq(Days), Sorted(log), Sorted(s),
         \A d \in ToSet(log), e \in ToSet(s) : d < e
  PROVE  /\ log \o s \in Seq(Days) /\ Sorted(log \o s)
         /\ ToSet(log \o s) = ToSet(log) \cup ToSet(s)
<1> DEFINE t == log \o s
<1>1. /\ t \in Seq(Days) /\ Len(t) = Len(log) + Len(s)
      /\ DOMAIN log = 1..Len(log) /\ DOMAIN s = 1..Len(s) /\ DOMAIN t = 1..Len(t)
      /\ Len(log) \in Nat /\ Len(s) \in Nat
  OBVIOUS
<1>2. \A i \in DOMAIN t : t[i] = IF i <= Len(log) THEN log[i] ELSE s[i - Len(log)]
  OBVIOUS
<1>3. \A i \in DOMAIN s : i + Len(log) \in DOMAIN t /\ t[i + Len(log)] = s[i]
  BY <1>1, <1>2
<1>4. \A i \in DOMAIN log : i \in DOMAIN t /\ t[i] = log[i]  BY <1>1, <1>2
<1>5. \A i \in DOMAIN t : i \in DOMAIN log \/ (i > Len(log) /\ i - Len(log) \in DOMAIN s)
  BY <1>1
<1> HIDE DEF t
<1>6. Sorted(t)
  <2> SUFFICES ASSUME NEW i \in DOMAIN t, NEW j \in DOMAIN t, i < j  PROVE t[i] < t[j]
    BY DEF Sorted
  <2>1. CASE i \in DOMAIN log /\ j \in DOMAIN log
    BY <1>4, <2>1 DEF Sorted
  <2>2. CASE i \in DOMAIN log /\ j > Len(log) /\ j - Len(log) \in DOMAIN s
    <3>1. t[i] \in ToSet(log)  BY <1>4, <2>2 DEF ToSet
    <3>2. t[j] \in ToSet(s)  BY <1>1, <1>2, <2>2 DEF ToSet
    <3>3. QED  BY <3>1, <3>2
  <2>3. CASE i > Len(log) /\ i - Len(log) \in DOMAIN s /\ j > Len(log) /\ j - Len(log) \in DOMAIN s
    <3>1. t[i] = s[i - Len(log)] /\ t[j] = s[j - Len(log)]  BY <1>1, <1>2, <2>3
    <3>2. i - Len(log) < j - Len(log)  BY <1>1
    <3>3. QED  BY <2>3, <3>1, <3>2 DEF Sorted
  <2>4. CASE i > Len(log) /\ j \in DOMAIN log
    BY <1>1, <2>4
  <2>5. QED  BY <1>5, <2>1, <2>2, <2>3, <2>4
<1>7. ToSet(t) = ToSet(log) \cup ToSet(s)
  <2>1. ToSet(t) \subseteq ToSet(log) \cup ToSet(s)
    <3> SUFFICES ASSUME NEW i \in DOMAIN t  PROVE t[i] \in ToSet(log) \cup ToSet(s)
      BY DEF ToSet
    <3>1. CASE i \in DOMAIN log  BY <1>4, <3>1 DEF ToSet
    <3>2. CASE i > Len(log) /\ i - Len(log) \in DOMAIN s
      BY <1>1, <1>2, <3>2 DEF ToSet
    <3>3. QED  BY <1>5, <3>1, <3>2
  <2>2. ToSet(log) \subseteq ToSet(t)  BY <1>4 DEF ToSet
  <2>3. ToSet(s) \subseteq ToSet(t)  BY <1>3 DEF ToSet
  <2>4. QED  BY <2>1, <2>2, <2>3
<1>8. QED  BY <1>1, <1>6, <1>7 DEF t

\* What was read of a file whose stream failed.
LEMMA PrefixOf ==
  ASSUME NEW s \in Seq(Days), Sorted(s), NEW p \in {<<>>} \cup (Prefixes(s) \ {s})
  PROVE  p \in Seq(Days) /\ Sorted(p) /\ ToSet(p) \subseteq ToSet(s)
<1>1. CASE p = <<>>  BY <1>1 DEF Sorted, ToSet
<1>2. CASE p \in Prefixes(s)
  <2>1. PICK l \in 0..Len(s) : p = SubSeq(s, 1, l)  BY <1>2 DEF Prefixes
  <2>2. p \in Seq(Days) /\ Len(p) = l /\ DOMAIN p = 1..l /\ \A i \in 1..l : p[i] = s[i]
    BY <2>1
  <2>3. 1..l \subseteq DOMAIN s  BY <2>1
  <2>4. QED  BY <2>2, <2>3 DEF Sorted, ToSet
<1>3. QED  BY <1>1, <1>2

\* A sorted log is read in its order: every day of it is blended.
LEMMA SortedInOrder ==
  ASSUME NEW log \in Seq(Days), Sorted(log)
  PROVE  InOrder(log) = ToSet(log)
<1>1. log # None  BY NoneAssumption
<1>2. \A i \in DOMAIN log : \A k \in 1..(i - 1) : log[k] <= log[i]
  <2> TAKE i \in DOMAIN log
  <2> TAKE k \in 1..(i - 1)
  <2>1. k \in DOMAIN log /\ k < i  OBVIOUS
  <2>2. log[k] \in Days /\ log[i] \in Days  BY <2>1
  <2>3. log[k] < log[i] /\ log[k] \in Int /\ log[i] \in Int
    BY <2>1, <2>2, DaysAreInterval DEF Sorted
  <2>4. QED  BY <2>3
<1>3. QED  BY <1>1, <1>2 DEF InOrder, ToSet

-----------------------------------------------------------------------------
(* Every step preserves the invariant.                                     *)

LEMMA NoClockIs ==
  NoClock \in [Providers -> Int] /\ \A x \in Providers, d \in Days : NoClock[x] < d
<1> DEFINE first == CHOOSE d \in Days : \A e \in Days : d <= e
<1>1. \E d \in Days : \A e \in Days : d <= e  BY MinDays, DaysAreInterval
<1>2. first \in Days /\ \A e \in Days : first <= e  BY <1>1
<1> HIDE DEF first
<1>3. first \in Int /\ \A e \in Days : e \in Int  BY <1>2, DaysAreInterval
<1>4. NoClock = [x \in Providers |-> first - 1]  BY DEF NoClock, first
<1>5. QED  BY <1>2, <1>3, <1>4

LEMMA NoFilesIs == NoFiles \in [Providers -> SUBSET Files] /\ \A x \in Providers : NoFiles[x] = {}
  BY DEF NoFiles

LEMMA NobodyFolded == NoFiles \in [Providers -> SUBSET Days]
  BY DEF NoFiles

\* What is deleted, and that without an error nothing is left of it.
LEMMA DeleteIs ==
  ASSUME DiskType, NEW xs, NEW ys, NEW error \in BOOLEAN, Delete(xs, ys, error)
  PROVE  /\ raw' \in [Providers -> SUBSET Files] /\ idx' \in [Providers -> Seq(Days) \cup {None}]
         /\ \A x \in Providers : /\ x \notin xs => raw'[x] = raw[x]
                                 /\ x \notin ys => idx'[x] = idx[x]
                                 /\ x \in xs /\ ~error => raw'[x] = {}
                                 /\ x \in ys /\ ~error => idx'[x] = None
<1>1. PICK files \in SUBSET RawFiles(xs), logs \in SUBSET Logs(ys) :
        /\ error = (files # {} \/ logs # {})
        /\ raw' = [x \in Providers |->
                     IF x \in xs THEN {f \in raw[x] : <<x, f>> \in files} ELSE raw[x]]
        /\ idx' = Without(idx, ys \ logs, None)
  BY DEF Delete
<1>2. raw \in [Providers -> SUBSET Files] /\ idx \in [Providers -> Seq(Days) \cup {None}]
  BY DEF DiskType
<1>3. ~error => files = {} /\ logs = {}  BY <1>1
<1>4. /\ raw' \in [Providers -> SUBSET Files]
      /\ \A x \in Providers : (x \notin xs => raw'[x] = raw[x]) /\ (x \in xs /\ ~error => raw'[x] = {})
  BY <1>1, <1>2, <1>3
<1>5. idx' = [x \in Providers |-> IF x \in ys \ logs THEN None ELSE idx[x]]
  BY <1>1 DEF Without
<1>6. idx' \in [Providers -> Seq(Days) \cup {None}]  BY <1>2, <1>5
<1>7. \A x \in Providers : (x \notin ys => idx'[x] = idx[x]) /\ (x \in ys /\ ~error => idx'[x] = None)
  BY <1>3, <1>5
<1> QED  BY <1>4, <1>6, <1>7

LEMMA ProviderSets == Cex \subseteq Providers /\ Pyth \in Providers
  BY DEF Providers

LEMMA InitInv == Init => IInv
<1> SUFFICES ASSUME Init  PROVE IInv
  OBVIOUS
<1>1. IsShards(shards) /\ (manifest = None \/ IsShards(manifest))
  BY SeedsAssumption DEF Init, IsShards
<1>2. DiskType  BY <1>1, NoFilesIs DEF Init, DiskType
<1>3. PlanType
  <2>1. window \in Days \X Days /\ window[1] <= window[2]  BY DaysAssumption DEF Init
  <2>2. runs \in 0..MaxRuns  BY BoundsAssumption DEF Init
  <2>3. flags \in [resume: BOOLEAN, keep: BOOLEAN]  BY DEF Init
  <2>4. QED  BY <2>1, <2>2, <2>3, NobodyFolded DEF Init, PlanType, TickerAt
<1>4. LoopType
  BY NoFilesIs, NoClockIs, DaysAssumption DEF Init, LoopType
<1>5. Worked /\ Reported /\ Purged /\ Built /\ Fresh
  BY DEF Init, Worked, Reported, Purged, NoStaging, Built, Promised, Fresh, FreshAt
<1>6. QED  BY <1>2, <1>3, <1>4, <1>5 DEF IInv

LEMMA IdleLoopIs ==
  ASSUME IdleLoop
  PROVE  /\ hard' \in BOOLEAN /\ month' \in Int /\ todo' = {}
         /\ queue' \in [Providers -> SUBSET Files] /\ clock' \in [Providers -> Int]
         /\ \A x \in Providers : queue'[x] = {}
  BY NoFilesIs, NoClockIs, DaysAssumption DEF IdleLoop

\* A run ends failed, or a repair pass in it, where staging is purged, or purged
\* just now, or known not to be.
LEMMA GiveUp ==
  ASSUME IInv, pc # "down", failed' = TRUE, NewPass, UNCHANGED <<flags, runs, used>>,
         \/ pc' = "status" /\ report' = report
         \/ pc' = "down" /\ report' = "failed",
         UNCHANGED output, unpurged' \in BOOLEAN,
         raw' \in [Providers -> SUBSET Files], idx' \in [Providers -> Seq(Days) \cup {None}],
         ~flags.keep /\ ~unpurged' => \A x \in used : raw'[x] = {} /\ idx'[x] = None,
         IdleLoop \/ (UNCHANGED loop /\ pc # "fold")
  PROVE  IInv'
<1> USE DEF IInv
<1>1. /\ pass' = 0 /\ window' = <<From, To>> /\ active' = {}
      /\ clean' = TRUE /\ folded' = NoFiles
  BY DEF NewPass
<1>2. report = "none"  BY DEF Reported, PlanType
<1>3. DiskType'  BY DEF DiskType, output, IsShards
<1>4. PlanType'
  <2>1. window' \in Days \X Days /\ window'[1] <= window'[2]  BY <1>1, DaysAssumption
  <2>2. QED  BY <1>1, <1>2, <2>1, NobodyFolded DEF PlanType, TickerAt
<1>5. LoopType'
  <2>1. CASE IdleLoop
    BY <1>1, <2>1, IdleLoopIs DEF LoopType
  <2>2. CASE UNCHANGED loop /\ pc # "fold"
    BY <1>1, <2>2 DEF LoopType, loop
  <2>3. QED  BY <2>1, <2>2
<1>6. Worked'  BY <1>1 DEF Worked
<1>7. Reported'  BY <1>2 DEF Reported
<1>8. Purged'  BY <1>1 DEF Purged, NoStaging
<1>9. Built'  BY <1>2 DEF Built, Promised
<1>10. Fresh'  BY <1>1 DEF Fresh
<1>11. QED  BY <1>3, <1>4, <1>5, <1>6, <1>7, <1>8, <1>9, <1>10

LEMMA ReturnFailedIs ==
  ASSUME ReturnFailed
  PROVE  /\ failed' = TRUE /\ NewPass /\ UNCHANGED <<flags, runs, used>>
         /\ \/ pc' = "status" /\ report' = report
            \/ pc' = "down" /\ report' = "failed"
  BY DEF ReturnFailed

\* With a purge of the active exchanges, the rest is purged as before.
LEMMA CleanupPurges ==
  ASSUME IInv, NEW error \in BOOLEAN, Cleanup(error)
  PROVE  /\ unpurged' = (unpurged \/ error)
         /\ raw' \in [Providers -> SUBSET Files] /\ idx' \in [Providers -> Seq(Days) \cup {None}]
         /\ ~flags.keep /\ ~unpurged' => \A x \in used : raw'[x] = {} /\ idx'[x] = None
<1>1. Delete(active, active, error) /\ unpurged' = (unpurged \/ error)  BY DEF Cleanup
<1>2. DiskType  BY DEF IInv
<1>3. /\ raw' \in [Providers -> SUBSET Files] /\ idx' \in [Providers -> Seq(Days) \cup {None}]
      /\ \A x \in Providers : /\ x \notin active => raw'[x] = raw[x] /\ idx'[x] = idx[x]
                              /\ x \in active /\ ~error => raw'[x] = {} /\ idx'[x] = None
  BY <1>1, <1>2, DeleteIs
<1>4. ASSUME ~flags.keep, ~unpurged', NEW x \in used  PROVE raw'[x] = {} /\ idx'[x] = None
  <2>1. ~unpurged /\ ~error  BY <1>1, <1>4
  <2>2. x \in Providers  BY DEF IInv, PlanType
  <2>3. x \notin active => raw[x] = {} /\ idx[x] = None
    BY <1>4, <2>1 DEF IInv, Purged, NoStaging
  <2>4. QED  BY <1>3, <2>1, <2>2, <2>3
<1> QED  BY <1>1, <1>3, <1>4

\* As CleanupPurges, or nothing when staging is to be kept.
LEMMA PurgeIs ==
  ASSUME IInv, NEW error \in BOOLEAN, PurgeUnlessKept(error)
  PROVE  /\ unpurged' = (unpurged \/ error)
         /\ raw' \in [Providers -> SUBSET Files] /\ idx' \in [Providers -> Seq(Days) \cup {None}]
         /\ ~flags.keep /\ ~unpurged' => \A x \in used : raw'[x] = {} /\ idx'[x] = None
<1>1. unpurged \in BOOLEAN  BY DEF IInv, PlanType
<1>2. CASE flags.keep
  <2>1. ~error /\ UNCHANGED <<raw, idx, unpurged>>
    BY <1>2 DEF PurgeUnlessKept, stage, faulty
  <2>2. QED  BY <1>1, <1>2, <2>1 DEF IInv, DiskType
<1>3. CASE ~flags.keep  BY <1>3, CleanupPurges DEF PurgeUnlessKept
<1>4. QED  BY <1>2, <1>3

LEMMA AbortInv == IInv /\ pc # "down" /\ Abort => IInv'
<1> SUFFICES ASSUME IInv, pc # "down", Abort  PROVE IInv'
  OBVIOUS
<1>1. PICK error \in BOOLEAN : PurgeUnlessKept(error)  BY DEF Abort
<1>2. ReturnFailed /\ IdleLoop /\ UNCHANGED output  BY DEF Abort
<1>3. unpurged' \in BOOLEAN  BY <1>1, PurgeIs DEF IInv, PlanType
<1>4. QED  BY <1>1, <1>2, <1>3, PurgeIs, ReturnFailedIs, GiveUp

LEMMA EarlyReturnInv == IInv /\ (DiskFloor \/ GapsLost) => IInv'
<1> SUFFICES ASSUME IInv, DiskFloor \/ GapsLost  PROVE IInv'
  OBVIOUS
<1>1. pc \in {"start", "gaps"} /\ ReturnFailed /\ UNCHANGED <<disk, loop, faulty>>
  BY DEF DiskFloor, GapsLost
<1>2. UNCHANGED output /\ UNCHANGED <<raw, idx, unpurged>> /\ UNCHANGED loop
  BY <1>1 DEF disk, output, loop, faulty
<1>3. ~flags.keep /\ ~unpurged => \A x \in used : raw[x] = {} /\ idx[x] = None
  BY <1>1 DEF IInv, Purged, NoStaging
<1>4. unpurged \in BOOLEAN  BY DEF IInv, PlanType
<1>5. QED  BY <1>1, <1>2, <1>3, <1>4, ReturnFailedIs, GiveUp DEF IInv, DiskType

\* Nothing is purged, and the report says "failed".
LEMMA PanicInv == IInv /\ Panic => IInv'
<1> SUFFICES ASSUME IInv, Panic  PROVE IInv'
  OBVIOUS
<1>1. /\ pc # "down" /\ pc' = "down" /\ failed' = TRUE /\ report' = "failed" /\ unpurged' = TRUE
      /\ IdleLoop /\ NewPass /\ UNCHANGED <<disk, flags, runs, used>>
  BY DEF Panic
<1>2. UNCHANGED output /\ UNCHANGED <<raw, idx>>  BY <1>1 DEF disk, output
<1>3. QED  BY <1>1, <1>2, GiveUp DEF IInv, DiskType

LEMMA LaunchInv == IInv /\ Launch => IInv'
<1> SUFFICES ASSUME IInv, Launch  PROVE IInv'
  OBVIOUS
<1> USE DEF IInv
<1>1. /\ pc = "down" /\ pc' = "start" /\ runs' = runs + 1 /\ runs < MaxRuns
      /\ flags' \in [resume: BOOLEAN, keep: BOOLEAN] /\ report' = "none"
      /\ pass' = 0 /\ window' = <<From, To>> /\ active' = {} /\ failed' = FALSE
      /\ clean' = TRUE /\ folded' = NoFiles /\ used' = {} /\ unpurged' = FALSE
      /\ UNCHANGED <<shards, manifest, s10, renko, barsDone, month, todo, queue, clock, hard>>
  BY FlagsAssumption DEF Launch, Forget, NewPass, output, loop
<1>2. raw' \in [Providers -> SUBSET Files] /\ idx' \in [Providers -> Seq(Days) \cup {None}]
  <2>1. CASE manifest = None  BY <2>1 DEF Launch, DiskType, stage
  <2>2. CASE manifest # None
    <3>1. PICK error \in BOOLEAN : Delete(Cex, Cex, error)  BY <2>2 DEF Launch
    <3>2. QED  BY <3>1, DeleteIs
  <2>3. QED  BY <2>1, <2>2
<1>3. DiskType'  BY <1>1, <1>2 DEF DiskType, IsShards
<1>4. PlanType'
  <2>1. window' \in Days \X Days /\ window'[1] <= window'[2]  BY <1>1, DaysAssumption
  <2>2. runs' \in 0..MaxRuns  BY <1>1, BoundsAssumption DEF PlanType
  <2>3. QED  BY <1>1, <2>1, <2>2, NobodyFolded DEF PlanType, TickerAt
<1>5. \A x \in Providers : queue'[x] = {}  BY <1>1 DEF LoopType
<1>6. LoopType'  BY <1>1, <1>5 DEF LoopType
<1>7. Worked' /\ Reported' /\ Purged'  BY <1>1 DEF Worked, Reported, Purged, NoStaging
<1>8. Built' /\ Fresh'  BY <1>1 DEF Built, Promised, Fresh, FreshAt
<1>9. QED  BY <1>3, <1>4, <1>6, <1>7, <1>8

LEMMA CrashInv == IInv /\ Crash => IInv'
<1> SUFFICES ASSUME IInv, Crash  PROVE IInv'
  OBVIOUS
<1> USE DEF IInv
<1>1. /\ pc' = "down" /\ report' = "none" /\ runs' = runs
      /\ flags' = [resume |-> FALSE, keep |-> FALSE] /\ IdleLoop
      /\ pass' = 0 /\ window' = <<From, To>> /\ active' = {} /\ failed' = FALSE
      /\ clean' = TRUE /\ folded' = NoFiles /\ used' = {} /\ unpurged' = FALSE
      /\ UNCHANGED <<raw, idx, shards, manifest, s10, renko, barsDone>>
  BY DEF Crash, Forget, NewPass, disk
<1>2. DiskType'  BY <1>1 DEF DiskType, IsShards
<1>3. PlanType'
  <2>1. window' \in Days \X Days /\ window'[1] <= window'[2]  BY <1>1, DaysAssumption
  <2>2. flags' \in [resume: BOOLEAN, keep: BOOLEAN]  BY <1>1
  <2>3. QED  BY <1>1, <2>1, <2>2, NobodyFolded DEF PlanType, TickerAt
<1>4. LoopType'  BY <1>1, IdleLoopIs DEF LoopType
<1>5. Worked' /\ Reported' /\ Purged'  BY <1>1 DEF Worked, Reported, Purged, NoStaging
<1>6. Built' /\ Fresh'  BY <1>1 DEF Built, Promised, Fresh, FreshAt
<1>7. QED  BY <1>2, <1>3, <1>4, <1>5, <1>6

LEMMA ProbeInv == IInv /\ Probe => IInv'
<1> SUFFICES ASSUME IInv, Probe  PROVE IInv'
  OBVIOUS
<1> USE DEF IInv
<1>1. /\ pc = "start" /\ pc' = "gate" /\ used' = used \cup active' /\ folded' = NoFiles
      /\ clean' = (\A x \in active' : raw[x] = {})
      /\ UNCHANGED <<raw, idx, shards, manifest, s10, renko, barsDone>>
      /\ UNCHANGED <<flags, runs, pass, window, month, todo, queue, clock, hard>>
      /\ UNCHANGED <<failed, report, unpurged>>
  BY DEF Probe, disk, loop, verdict, faulty
<1>2. active' \subseteq Providers  BY ProviderSets DEF Probe
<1>3. active = {}  BY <1>1 DEF Worked
<1>4. DiskType'  BY <1>1 DEF DiskType, IsShards
<1>5. PlanType'
  <2>1. clean' \in BOOLEAN  BY <1>1
  <2>2. QED  BY <1>1, <1>2, <2>1, NobodyFolded DEF PlanType, TickerAt
<1>6. \A x \in Providers : queue'[x] = {}  BY <1>1 DEF LoopType
<1>7. LoopType'  BY <1>1, <1>6 DEF LoopType
<1>8. Worked' /\ Reported'  BY <1>1 DEF Worked, Reported
<1>9. Purged'  BY <1>1, <1>3 DEF Purged, NoStaging
<1>10. Built'  BY <1>1 DEF Built, Promised, Reported
<1>11. Fresh'
  <2>1. \A x \in active' : clean' => raw'[x] = {} /\ folded'[x] = {}
    BY <1>1, <1>2, NoFilesIs
  <2>2. QED  BY <1>1, <2>1 DEF Fresh, FreshAt
<1>12. QED  BY <1>4, <1>5, <1>7, <1>8, <1>9, <1>10, <1>11

LEMMA GateSkipInv == IInv /\ GateSkip => IInv'
<1> SUFFICES ASSUME IInv, GateSkip  PROVE IInv'
  OBVIOUS
<1> USE DEF IInv
<1>1. /\ pc = "gate" /\ pc' = "merge" /\ flags.resume
      /\ UNCHANGED <<shards, manifest, s10, renko, barsDone>>
      /\ UNCHANGED <<flags, runs, pass, window, active, month, todo, queue, clock, hard>>
      /\ UNCHANGED <<failed, report, clean, folded, used, unpurged>>
  BY DEF GateSkip, output, plan, loop, verdict
<1>0. /\ raw' \in [Providers -> SUBSET Files] /\ idx' \in [Providers -> Seq(Days) \cup {None}]
      /\ \A x \in Providers : x \notin active => raw'[x] = raw[x] /\ idx'[x] = idx[x]
  <2>1. PICK error \in BOOLEAN : Delete(active, {}, error)  BY DEF GateSkip
  <2>2. QED  BY <2>1, DeleteIs
<1>2. DiskType'  BY <1>0, <1>1 DEF DiskType, IsShards
<1>3. PlanType'  BY <1>1 DEF PlanType, TickerAt
<1>4. \A x \in Providers : queue'[x] = {}  BY <1>1 DEF LoopType
<1>5. LoopType'  BY <1>1, <1>4 DEF LoopType
<1>6. Worked' /\ Reported'  BY <1>1 DEF Worked, Reported
<1>7. Purged'  BY <1>0, <1>1 DEF Purged, NoStaging, PlanType
<1>8. Built' /\ Fresh'  BY <1>1 DEF Built, Fresh, FreshAt
<1>9. QED  BY <1>2, <1>3, <1>5, <1>6, <1>7, <1>8

LEMMA GateBuildInv == IInv /\ GateBuild => IInv'
<1> SUFFICES ASSUME IInv, GateBuild  PROVE IInv'
  OBVIOUS
<1> USE DEF IInv
<1>1. /\ pc = "gate" /\ pc' = "fetch" /\ month' = MonthOf[window[1]] /\ todo' = active
      /\ clean' = (clean /\ \A x \in active : idx'[x] = None)
      /\ UNCHANGED <<shards, manifest, s10, renko, barsDone>>
      /\ UNCHANGED <<flags, runs, pass, window, active, queue, clock, hard>>
      /\ UNCHANGED <<failed, report, folded, used, unpurged>>
  BY DEF GateBuild, output, plan, verdict
<1>0. /\ raw' \in [Providers -> SUBSET Files] /\ idx' \in [Providers -> Seq(Days) \cup {None}]
      /\ \A x \in Providers : raw'[x] = raw[x] /\ (x \notin active => idx'[x] = idx[x])
  <2>1. PICK error \in BOOLEAN : Delete({}, active, error)  BY DEF GateBuild
  <2>2. QED  BY <2>1, DeleteIs
<1>2. DiskType'  BY <1>0, <1>1 DEF DiskType, IsShards
<1>3. PlanType'
  <2>1. clean' \in BOOLEAN  BY <1>1
  <2>2. QED  BY <1>1, <2>1 DEF PlanType, TickerAt
<1>4. \A x \in Providers : queue'[x] = {}  BY <1>1 DEF LoopType
<1>5. window[1] \in Days /\ window[2] \in Days /\ window[1] <= window[2]  BY DEF PlanType
<1>6. /\ month' \in Int /\ month' <= MonthOf[window[2]] /\ \E d \in Days : MonthOf[d] = month'
  BY <1>1, <1>5, DaysAssumption
<1>7. LoopType'  BY <1>1, <1>4, <1>6 DEF LoopType
<1>8. Worked' /\ Reported'  BY <1>1 DEF Worked, Reported
<1>9. Purged'  BY <1>0, <1>1 DEF Purged, NoStaging, PlanType
<1>10. Built'  BY <1>1 DEF Built, Promised, Reported
<1>11. Fresh'
  <2> SUFFICES ASSUME clean', ~flags.resume, NEW x \in active  PROVE FreshAt(x)'
    BY <1>1 DEF Fresh
  <2>1. x \in Providers  BY DEF PlanType
  <2>2. clean /\ idx'[x] = None  BY <1>1
  <2>3. raw[x] = {} /\ folded[x] = {}  BY <1>1, <2>2 DEF Fresh, FreshAt
  <2>4. raw'[x] = {} /\ folded'[x] = {}  BY <1>0, <1>1, <2>1, <2>3
  <2>5. QED  BY <1>1, <2>2, <2>4 DEF FreshAt, Simple, Logged
<1>12. QED  BY <1>2, <1>3, <1>7, <1>8, <1>9, <1>10, <1>11

\* What a fetch of x may leave among its raw files.
LEMMA FetchedIs ==
  ASSUME DiskType, NEW x \in Providers,
         IF x = Pyth THEN FetchPyth(x) ELSE FetchMonthly(x) \/ FetchDaily(x)
  PROVE  \E new \in SUBSET Files :
           /\ raw' = [raw EXCEPT ![x] = new]
           /\ raw[x] = {} => Simple(new) /\ \A f \in new : f \subseteq MonthDays
<1>1. raw \in [Providers -> SUBSET Files] /\ raw[x] \in SUBSET Files /\ Archive[x] \in SUBSET Files
  BY ArchiveAssumption DEF DiskType
<1>2. CASE FetchMonthly(x)
  <2>1. raw' = [raw EXCEPT ![x] = raw[x] \cup {MonthDays}] /\ MonthDays \in Files
    BY <1>1, <1>2 DEF FetchMonthly
  <2>2. raw[x] = {} => Simple(raw[x] \cup {MonthDays})  BY <2>1 DEF Simple
  <2>3. QED  BY <1>1, <2>1, <2>2
<1>3. CASE FetchDaily(x)
  <2>1. PICK days \in SUBSET {d \in MonthWindow : {d} \in Archive[x]} :
          raw' = [raw EXCEPT ![x] = raw[x] \cup {{d} : d \in days}]
    BY <1>3 DEF FetchDaily
  <2>2. days \subseteq MonthDays /\ days \subseteq Days  BY <2>1 DEF MonthWindow, MonthDays
  <2>3. {{d} : d \in days} \subseteq Files  BY <2>2 DEF Files
  <2>4. raw[x] = {} => Simple(raw[x] \cup {{d} : d \in days})  BY <2>2 DEF Simple
  <2>5. \A f \in {{d} : d \in days} : f \subseteq MonthDays  BY <2>2
  <2> DEFINE news == {{d} : d \in days}
  <2> HIDE DEF news
  <2>6. raw[x] \cup news \in SUBSET Files  BY <1>1, <2>3 DEF news
  <2>7. raw[x] = {} => raw[x] \cup news = news  OBVIOUS
  <2>8. \A f \in news : f \subseteq MonthDays  BY <2>5 DEF news
  <2>9. QED  BY <2>1, <2>4, <2>6, <2>7, <2>8 DEF news
<1>4. CASE FetchPyth(x)
  <2>1. CASE UNCHANGED raw
    <3>1. raw' = [raw EXCEPT ![x] = raw[x]]  BY <1>1, <2>1
    <3>2. raw[x] = {} => Simple(raw[x])  BY DEF Simple
    <3>3. QED  BY <1>1, <3>1, <3>2
  <2>2. CASE ~ UNCHANGED raw
    <3>1. PICK days \in Archive[x] : days \subseteq MonthWindow /\ raw' = [raw EXCEPT ![x] = {days}]
      BY <1>4, <2>2 DEF FetchPyth
    <3>2. {days} \in SUBSET Files /\ days \subseteq MonthDays  BY <1>1, <3>1 DEF MonthWindow
    <3>3. Simple({days})  BY <3>2 DEF Simple
    <3>4. QED  BY <3>1, <3>2, <3>3
  <2>3. QED  BY <2>1, <2>2
<1>5. QED  BY <1>2, <1>3, <1>4

LEMMA FetchInv == \A x \in Providers : IInv /\ Fetch(x) => IInv'
<1> SUFFICES ASSUME NEW x \in Providers, IInv, Fetch(x)  PROVE IInv'
  OBVIOUS
<1> USE DEF IInv
<1>1. /\ pc = "fetch" /\ pc' = pc /\ x \in todo /\ todo' = todo \ {x}
      /\ UNCHANGED <<idx, shards, manifest, s10, renko, barsDone>>
      /\ UNCHANGED <<flags, runs, pass, window, active, month, queue, clock, hard>>
      /\ UNCHANGED <<failed, report, clean, folded, used, unpurged>>
  BY DEF Fetch, output, plan, verdict, history, faulty
<1>2. PICK new \in SUBSET Files :
        /\ raw' = [raw EXCEPT ![x] = new]
        /\ raw[x] = {} => Simple(new) /\ \A f \in new : f \subseteq MonthDays
  BY FetchedIs DEF Fetch
<1>3. /\ raw' \in [Providers -> SUBSET Files]
      /\ \A y \in Providers : raw'[y] = IF y = x THEN new ELSE raw[y]
  BY <1>2 DEF DiskType
<1>4. x \in active  BY <1>1 DEF LoopType
<1>5. DiskType'  BY <1>1, <1>3 DEF DiskType, IsShards
<1>6. PlanType'  BY <1>1 DEF PlanType, TickerAt
<1>7. LoopType'  BY <1>1 DEF LoopType
<1>8. Worked' /\ Reported'  BY <1>1 DEF Worked, Reported
<1>9. Purged'
  <2>1. \A y \in used \ active : y \in Providers /\ y # x  BY <1>4 DEF PlanType
  <2>2. QED  BY <1>1, <1>3, <2>1 DEF Purged, NoStaging
<1>10. Built'  BY <1>1 DEF Built, Promised, Reported
<1>11. Fresh'
  <2> SUFFICES ASSUME clean, ~flags.resume, NEW y \in active
               PROVE  /\ \A d \in folded[y] : MonthOf[d] < month
                      /\ y \in todo \ {x} => raw'[y] = {}
                      /\ Simple(raw'[y]) /\ \A f \in raw'[y] : f \subseteq MonthDays
                      /\ Logged(y)'
    BY <1>1 DEF Fresh, FreshAt, MonthDays
  <2>1. /\ \A d \in folded[y] : MonthOf[d] < month
        /\ y \in todo => raw[y] = {}
        /\ Simple(raw[y]) /\ \A f \in raw[y] : f \subseteq MonthDays
        /\ Logged(y)
    BY <1>1 DEF Fresh, FreshAt
  <2>2. Logged(y)'  BY <1>1, <2>1 DEF Logged
  <2>3. y \in Providers  BY DEF PlanType
  <2>4. CASE y = x  BY <1>1, <1>2, <1>3, <2>1, <2>2, <2>3, <2>4
  <2>5. CASE y # x  BY <1>3, <2>1, <2>2, <2>3, <2>5
  <2>6. QED  BY <2>4, <2>5
<1>12. QED  BY <1>5, <1>6, <1>7, <1>8, <1>9, <1>10, <1>11

\* Listing the files: they are all of the month, and no day of an earlier
\* month is left to fold.
LEMMA FoldStartInv == IInv /\ FoldStart => IInv'
<1> SUFFICES ASSUME IInv, FoldStart  PROVE IInv'
  OBVIOUS
<1> USE DEF IInv
<1>1. /\ pc = "fetch" /\ pc' = "fold" /\ todo = {} /\ todo' = todo /\ clock' = NoClock
      /\ UNCHANGED <<raw, shards, manifest, s10, renko, barsDone>>
      /\ UNCHANGED <<flags, runs, pass, window, active, month, hard>>
      /\ UNCHANGED <<failed, report, clean, folded, used, unpurged>>
  BY DEF FoldStart, output, plan, verdict, history, faulty
<1>2. raw \in [Providers -> SUBSET Files] /\ idx \in [Providers -> Seq(Days) \cup {None}]
  BY DEF DiskType
<1>3. /\ queue' \in [Providers -> SUBSET Files]
      /\ \A x \in Providers : queue'[x] = IF x \in active THEN raw[x] ELSE {}
  BY <1>2 DEF FoldStart
<1>4. /\ idx' \in [Providers -> Seq(Days) \cup {None}]
      /\ \A x \in Providers :
           idx'[x] = IF x \in active /\ raw[x] # {} /\ idx[x] = None THEN <<>> ELSE idx[x]
  <2>1. <<>> \in Seq(Days)  OBVIOUS
  <2>2. QED  BY <1>2, <2>1 DEF FoldStart
<1>5. <<>> # None
  <2>1. <<>> \in Seq(Days)  OBVIOUS
  <2>2. QED  BY <2>1, NoneAssumption
<1>6. DiskType'  BY <1>1, <1>4 DEF DiskType, IsShards
<1>7. PlanType'  BY <1>1 DEF PlanType, TickerAt
<1>8. LoopType'
  <2>1. \A x \in Providers : queue'[x] # {} => x \in active /\ idx'[x] # None
    BY <1>3, <1>4, <1>5
  <2>2. QED  BY <1>1, <1>3, <2>1, NoClockIs DEF LoopType
<1>9. Worked' /\ Reported'  BY <1>1 DEF Worked, Reported
<1>10. Purged'
  <2>1. \A x \in used \ active : x \in Providers  BY DEF PlanType
  <2>2. QED  BY <1>1, <1>4, <2>1 DEF Purged, NoStaging
<1>11. Built'  BY <1>1 DEF Built, Promised, Reported
<1>12. Fresh'
  <2> SUFFICES ASSUME clean, ~flags.resume, NEW x \in active
               PROVE  /\ \A d \in folded[x] : MonthOf[d] <= month
                      /\ Simple(queue'[x]) /\ Later(x)'
                      /\ Logged(x)'
    BY <1>1 DEF Fresh, FreshAt
  <2>1. /\ \A d \in folded[x] : MonthOf[d] < month
        /\ Simple(raw[x]) /\ \A f \in raw[x] : f \subseteq MonthDays
        /\ Logged(x)
    BY <1>1 DEF Fresh, FreshAt
  <2>2. x \in Providers /\ folded[x] \subseteq Days  BY DEF PlanType
  <2>3. queue'[x] = raw[x] /\ Simple(queue'[x])  BY <1>3, <2>1, <2>2
  <2>4. \A d \in folded[x] : MonthOf[d] <= month
    BY <2>1, <2>2, MonthOrder DEF LoopType
  <2>5. Later(x)'
    <3> SUFFICES ASSUME NEW f \in raw[x], NEW e \in f
                 PROVE  /\ MonthOf[e] = month /\ NoClock[x] < e
                        /\ \A d \in folded[x] : d < e
      BY <1>1, <2>3 DEF Later
    <3>1. e \in Days /\ MonthOf[e] = month  BY <2>1 DEF MonthDays
    <3>2. \A d \in folded[x] : d < e  BY <2>1, <2>2, <3>1, MonthOrder
    <3>3. QED  BY <2>2, <3>1, <3>2, NoClockIs
  <2>6. Logged(x)'
    <3>1. CASE idx'[x] = idx[x]  BY <1>1, <2>1, <3>1 DEF Logged
    <3>2. CASE idx'[x] = <<>> /\ idx[x] = None
      <4>1. folded'[x] = {}  BY <1>1, <2>1, <3>2 DEF Logged
      <4>2. Sorted(idx'[x]) /\ ToSet(idx'[x]) = {}  BY <3>2 DEF Sorted, ToSet
      <4>3. QED  BY <1>5, <3>2, <4>1, <4>2 DEF Logged
    <3>3. QED  BY <1>4, <2>2, <3>1, <3>2
  <2>7. QED  BY <2>3, <2>4, <2>5, <2>6
<1>13. QED  BY <1>6, <1>7, <1>8, <1>9, <1>10, <1>11, <1>12

\* The days ticks-to-idx still takes of a file, in order.
LEMMA AheadIs ==
  ASSUME NEW x \in Providers, NEW f \in Files
  PROVE  /\ Ahead(x, f) \in Seq(Days) /\ Sorted(Ahead(x, f))
         /\ ToSet(Ahead(x, f)) \subseteq f
         /\ (\A d \in f : clock[x] < d) => ToSet(Ahead(x, f)) = f
<1> DEFINE days == {d \in f : d > clock[x]}
<1>1. days \subseteq f /\ f \subseteq Days  BY DEF Files
<1>2. Ahead(x, f) = Ascending(days)  BY DEF Ahead
<1>3. f \subseteq Int  BY <1>1, DaysAreInterval
<1> HIDE DEF days
<1>4. Ascending(days) \in Seq(Days) /\ Sorted(Ascending(days)) /\ ToSet(Ascending(days)) = days
  BY <1>1, AscendingLists
<1>5. (\A d \in f : clock[x] < d) => days = f  BY <1>3 DEF days
<1>6. QED  BY <1>1, <1>2, <1>4, <1>5

\* A step of the fold of x that takes its first file, whole or in part: what it
\* appends, days, is in order, of that file, and counted as folded.
LEMMA FoldTakes ==
  ASSUME IInv, NEW x \in Providers, pc = "fold", queue[x] # {},
         queue' = [queue EXCEPT ![x] = @ \ {FirstFile(@)}],
         NEW days \in Seq(Days), Sorted(days), NEW took, took \subseteq FirstFile(queue[x]),
         (clean /\ ~flags.resume /\ \A d \in FirstFile(queue[x]) : clock[x] < d)
            => ToSet(days) = took,
         idx' = [idx EXCEPT ![x] = @ \o days],
         NEW time \in Int, clock' = [clock EXCEPT ![x] = time],
         time = clock[x] \/ time \in FirstFile(queue[x]),
         folded' = [folded EXCEPT ![x] = @ \cup took],
         raw' \in [Providers -> SUBSET Files], \A y \in Providers : raw'[y] \subseteq raw[y],
         UNCHANGED <<output, pc, plan, month, todo, hard, verdict, clean, used, unpurged>>
  PROVE  IInv'
<1> USE DEF IInv
<1>1. /\ UNCHANGED <<shards, manifest, s10, renko, barsDone>>
      /\ UNCHANGED <<flags, runs, pass, window, active, month, todo, hard, pc>>
      /\ UNCHANGED <<failed, report, clean, used, unpurged>>
  BY DEF output, plan, verdict
<1> DEFINE first == FirstFile(queue[x])
<1>2. queue[x] \subseteq Files /\ first \in queue[x] /\ first \subseteq Days /\ first \subseteq Int
  <2>1. queue[x] \subseteq Files  BY DEF LoopType
  <2>2. first \in queue[x]  BY <2>1, FirstFileIs
  <2>3. QED  BY <2>1, <2>2, DaysAreInterval DEF Files
<1>3. x \in active /\ idx[x] # None /\ idx[x] \in Seq(Days)  BY DEF LoopType, DiskType
<1> HIDE DEF first
<1>4. /\ idx' \in [Providers -> Seq(Days) \cup {None}]
      /\ idx'[x] = idx[x] \o days /\ idx'[x] \in Seq(Days) /\ idx'[x] # None
      /\ \A y \in Providers : y # x => idx'[y] = idx[y]
  <2>1. idx[x] \o days \in Seq(Days)  BY <1>3
  <2>2. QED  BY <1>3, <2>1, NoneAssumption DEF DiskType
<1>5. /\ queue' \in [Providers -> SUBSET Files]
      /\ queue'[x] = queue[x] \ {first}
      /\ \A y \in Providers : y # x => queue'[y] = queue[y]
  BY DEF LoopType, first
<1>6. /\ clock' \in [Providers -> Int] /\ clock'[x] = time
      /\ \A y \in Providers : y # x => clock'[y] = clock[y]
  BY DEF LoopType
<1>7. /\ folded' \in [Providers -> SUBSET Days] /\ folded'[x] = folded[x] \cup took
      /\ \A y \in Providers : y # x => folded'[y] = folded[y]
  BY <1>2 DEF PlanType, first
<1>8. DiskType'  BY <1>1, <1>4 DEF DiskType, IsShards
<1>9. PlanType'  BY <1>1, <1>7 DEF PlanType, TickerAt
<1>10. LoopType'
  <2>1. \A y \in Providers : queue'[y] # {} => y \in active /\ idx'[y] # None
    BY <1>3, <1>4, <1>5 DEF LoopType
  <2>2. QED  BY <1>1, <1>5, <1>6, <2>1 DEF LoopType
<1>11. Worked' /\ Reported'  BY <1>1 DEF Worked, Reported
<1>12. Purged'
  <2>1. \A y \in used \ active : y \in Providers /\ y # x  BY <1>3 DEF PlanType
  <2>2. ASSUME ~flags.keep, ~unpurged, NEW y \in used \ active  PROVE raw'[y] = {} /\ idx'[y] = None
    <3>1. raw[y] = {} /\ idx[y] = None  BY <2>2 DEF Purged, NoStaging
    <3>2. QED  BY <1>4, <2>1, <2>2, <3>1
  <2>3. QED  BY <1>1, <2>2 DEF Purged, NoStaging
<1>13. Built'  BY <1>1 DEF Built, Promised, Reported
<1>14. Fresh'
  <2> SUFFICES ASSUME clean, ~flags.resume, NEW y \in active
               PROVE  /\ \A d \in folded'[y] : MonthOf[d] <= month
                      /\ Simple(queue'[y]) /\ Later(y)'
                      /\ Logged(y)'
    <3>1. SUFFICES ASSUME clean, ~flags.resume, NEW y \in active  PROVE FreshAt(y)'
      BY <1>1 DEF Fresh
    <3>2. QED  BY <1>1, <3>1 DEF FreshAt
  <2>1. /\ \A d \in folded[y] : MonthOf[d] <= month
        /\ Simple(queue[y]) /\ Later(y) /\ Logged(y)
    BY DEF Fresh, FreshAt
  <2>2. y \in Providers /\ folded[y] \subseteq Days /\ month \in Int  BY DEF PlanType, LoopType
  <2>3. CASE y # x
    BY <1>1, <1>4, <1>5, <1>6, <1>7, <2>1, <2>2, <2>3 DEF Later, Logged
  <2>4. CASE y = x
    <3>1. \A d \in first : MonthOf[d] = month /\ clock[x] < d /\ \A e \in folded[x] : e < d
      BY <1>2, <2>1, <2>4 DEF Later
    <3>2. \A d \in folded'[x] : MonthOf[d] <= month
      BY <1>7, <2>1, <2>2, <2>4, <3>1 DEF first
    <3>3. Simple(queue'[x])  BY <1>5, <2>1, <2>4, SimpleSubset
    <3>4. \A g \in queue'[x] : \A d \in first, e \in g : d < e
      BY <1>2, <1>5, <2>1, <2>4, FirstOfSimple DEF first
    <3>5. Later(x)'
      <4> SUFFICES ASSUME NEW g \in queue'[x], NEW e \in g
                   PROVE  /\ MonthOf[e] = month /\ clock'[x] < e
                          /\ \A d \in folded'[x] : d < e
        BY <1>1 DEF Later
      <4>1. g \in queue[x]  BY <1>5
      <4>2. MonthOf[e] = month /\ clock[x] < e /\ \A d \in folded[x] : d < e
        BY <2>1, <2>4, <4>1 DEF Later
      <4>3. \A d \in first : d < e  BY <3>4
      <4>4. QED  BY <1>6, <1>7, <4>2, <4>3 DEF first
    <3>6. Logged(x)'
      <4>1. ToSet(days) = took  BY <3>1 DEF first
      <4>2. Sorted(idx[x]) /\ ToSet(idx[x]) = folded[x]  BY <1>3, <2>1, <2>4 DEF Logged
      <4>3. \A d \in ToSet(idx[x]), e \in ToSet(days) : d < e
        BY <3>1, <4>1, <4>2 DEF first
      <4>4. Sorted(idx[x] \o days) /\ ToSet(idx[x] \o days) = ToSet(idx[x]) \cup ToSet(days)
        BY <1>3, <4>2, <4>3, LogGrows
      <4>5. QED  BY <1>4, <1>7, <4>1, <4>2, <4>4 DEF Logged
    <3>7. QED  BY <2>4, <3>2, <3>3, <3>5, <3>6
  <2>5. QED  BY <2>3, <2>4
<1>15. QED  BY <1>8, <1>9, <1>10, <1>11, <1>12, <1>13, <1>14

LEMMA FirstOfQueue ==
  ASSUME IInv, NEW x \in Providers, queue[x] # {}
  PROVE  /\ FirstFile(queue[x]) \in Files /\ FirstFile(queue[x]) \subseteq Int
         /\ Max(FirstFile(queue[x])) \in FirstFile(queue[x])
<1>1. queue[x] \subseteq Files  BY DEF IInv, LoopType
<1>2. FirstFile(queue[x]) \in Files  BY <1>1, FirstFileIs
<1>3. QED  BY <1>2, MaxDays, DaysAreInterval DEF Files

LEMMA FoldFileInv == \A x \in Providers : IInv /\ FoldFile(x) => IInv'
<1> SUFFICES ASSUME NEW x \in Providers, IInv, FoldFile(x)  PROVE IInv'
  OBVIOUS
<1> DEFINE f == FirstFile(queue[x])
           time == Max({clock[x], Max(f)})
<1>1. /\ pc = "fold" /\ queue[x] # {} /\ queue' = [queue EXCEPT ![x] = @ \ {f}]
      /\ idx' = [idx EXCEPT ![x] = @ \o Ahead(x, f)]
      /\ folded' = [folded EXCEPT ![x] = @ \cup f]
      /\ raw' = raw \/ raw' = [raw EXCEPT ![x] = @ \ {f}]
      /\ UNCHANGED <<output, pc, plan, month, todo, hard, verdict, clean, used, unpurged>>
  BY DEF FoldFile
<1>2. f \in Files /\ f \subseteq Int /\ Max(f) \in f  BY <1>1, FirstOfQueue
<1>3. clock \in [Providers -> Int] /\ clock[x] \in Int  BY DEF IInv, LoopType
<1>4. clock' = [clock EXCEPT ![x] = time]
  BY <1>3 DEF FoldFile
<1>5. time \in Int /\ (time = clock[x] \/ time \in f)
  <2> DEFINE a == clock[x]
             b == Max(f)
  <2>1. a \in Int /\ b \in Int  BY <1>2, <1>3
  <2>2. {a, b} \subseteq Int /\ {a, b} # {}  BY <2>1
  <2>3. \E t \in Int : \A s \in {a, b} : s <= t
    <3>1. CASE a <= b  BY <2>1, <3>1
    <3>2. CASE b <= a  BY <2>1, <3>2
    <3>3. QED  BY <2>1, <3>1, <3>2
  <2>4. Max({a, b}) \in {a, b}  BY <2>2, <2>3, MaxBounded
  <2>5. QED  BY <1>2, <2>1, <2>4
<1>6. /\ Ahead(x, f) \in Seq(Days) /\ Sorted(Ahead(x, f))
      /\ (\A d \in f : clock[x] < d) => ToSet(Ahead(x, f)) = f
  BY <1>2, AheadIs
<1>7. raw' \in [Providers -> SUBSET Files] /\ \A y \in Providers : raw'[y] \subseteq raw[y]
  <2>1. raw \in [Providers -> SUBSET Files]  BY DEF IInv, DiskType
  <2>2. raw[x] \ {f} \in SUBSET Files  BY <2>1
  <2>3. QED  BY <1>1, <2>1, <2>2
<1>8. f \subseteq FirstFile(queue[x])  OBVIOUS
<1>9. queue' = [queue EXCEPT ![x] = @ \ {FirstFile(@)}]  BY <1>1 DEF IInv, LoopType
<1> HIDE DEF time
<1>10. QED  BY <1>1, <1>3, <1>4, <1>5, <1>6, <1>7, <1>8, <1>9, FoldTakes

LEMMA FoldErrorInv == \A x \in Providers : IInv /\ FoldError(x) => IInv'
<1> SUFFICES ASSUME NEW x \in Providers, IInv, FoldError(x)  PROVE IInv'
  OBVIOUS
<1> DEFINE f == FirstFile(queue[x])
           days == Ahead(x, f)
<1>1. PICK read \in {<<>>} \cup (Prefixes(days) \ {days}) :
        /\ idx' = [idx EXCEPT ![x] = @ \o read]
        /\ clock' = [clock EXCEPT ![x] = Max({@} \cup ToSet(read))]
        /\ folded' = [folded EXCEPT ![x] = @ \cup ToSet(read)]
  BY DEF FoldError
<1>2. /\ pc = "fold" /\ queue[x] # {} /\ UNCHANGED raw
      /\ queue' = [queue EXCEPT ![x] = @ \ {FirstFile(@)}]
      /\ UNCHANGED <<output, pc, plan, month, todo, hard, verdict, clean, used, unpurged>>
  BY DEF FoldError, faulty
<1>3. f \in Files /\ f \subseteq Int  BY <1>2, FirstOfQueue
<1>4. days \in Seq(Days) /\ Sorted(days) /\ ToSet(days) \subseteq f  BY <1>3, AheadIs
<1> HIDE DEF days
<1>5. read \in Seq(Days) /\ Sorted(read) /\ ToSet(read) \subseteq f  BY <1>4, PrefixOf
<1>6. clock \in [Providers -> Int] /\ clock[x] \in Int  BY DEF IInv, LoopType
<1> DEFINE T == {clock[x]} \cup ToSet(read)
           time == Max(T)
<1>7. clock' = [clock EXCEPT ![x] = time]  BY <1>1, <1>6
<1>8. time \in Int /\ (time = clock[x] \/ time \in f)
  <2>1. f \subseteq Days /\ Today \in Int /\ \A d \in Days : d \in Int /\ d <= Today
    BY <1>3, DaysAreInterval DEF Files
  <2>2. T \subseteq Int /\ T # {}  BY <1>3, <1>5, <1>6
  <2>3. \E b \in Int : \A t \in T : t <= b
    <3>1. \A t \in T : t = clock[x] \/ t \in Days  BY <1>5, <2>1
    <3> HIDE DEF T
    <3>2. CASE clock[x] <= Today
      <4>1. \A t \in T : t <= Today  BY <2>1, <3>1, <3>2
      <4>2. QED  BY <2>1, <4>1
    <3>3. CASE Today <= clock[x]
      <4>1. \A d \in Days : d <= clock[x]  BY <1>6, <2>1, <3>3
      <4>2. \A t \in T : t <= clock[x]  BY <1>6, <3>1, <4>1
      <4>3. QED  BY <1>6, <4>2
    <3>4. QED  BY <1>6, <2>1, <3>2, <3>3
  <2>4. time \in T
    <3> HIDE DEF T
    <3>1. QED  BY <2>2, <2>3, MaxBounded
  <2>5. QED  BY <1>3, <1>5, <1>6, <2>4
<1>9. raw' \in [Providers -> SUBSET Files] /\ \A y \in Providers : raw'[y] \subseteq raw[y]
  BY <1>2 DEF IInv, DiskType
<1> HIDE DEF time, T
<1>10. QED  BY <1>1, <1>2, <1>5, <1>7, <1>8, <1>9, FoldTakes

LEMMA FoldLostInv == \A x \in Providers : IInv /\ FoldLost(x) => IInv'
<1> SUFFICES ASSUME NEW x \in Providers, IInv, FoldLost(x)  PROVE IInv'
  OBVIOUS
<1> USE DEF IInv
<1>1. /\ pc = "fold" /\ pc' = pc /\ queue' = [queue EXCEPT ![x] = {}] /\ hard' = TRUE
      /\ UNCHANGED <<raw, idx, shards, manifest, s10, renko, barsDone>>
      /\ UNCHANGED <<flags, runs, pass, window, active, month, todo, clock>>
      /\ UNCHANGED <<failed, report, clean, folded, used, unpurged>>
  BY DEF FoldLost, disk, plan, verdict, history, faulty
<1>2. /\ queue' \in [Providers -> SUBSET Files]
      /\ \A y \in Providers : queue'[y] = IF y = x THEN {} ELSE queue[y]
  BY <1>1 DEF LoopType
<1>3. DiskType'  BY <1>1 DEF DiskType, IsShards
<1>4. PlanType'  BY <1>1 DEF PlanType, TickerAt
<1>5. LoopType'  BY <1>1, <1>2 DEF LoopType
<1>6. Worked' /\ Reported' /\ Purged'  BY <1>1 DEF Worked, Reported, Purged, NoStaging
<1>7. Built'  BY <1>1 DEF Built, Promised, Reported
<1>8. Fresh'
  <2> SUFFICES ASSUME clean, ~flags.resume, NEW y \in active  PROVE FreshAt(y)'
    BY <1>1 DEF Fresh
  <2>1. FreshAt(y) /\ y \in Providers  BY DEF Fresh, PlanType
  <2>2. Simple(queue'[y]) /\ Later(y)'
    BY <1>1, <1>2, <2>1 DEF FreshAt, Simple, Later
  <2>3. QED  BY <1>1, <2>1, <2>2 DEF FreshAt, Logged
<1>9. QED  BY <1>3, <1>4, <1>5, <1>6, <1>7, <1>8

LEMMA MonthFailedInv == IInv /\ MonthFailed => IInv'
<1> SUFFICES ASSUME IInv, MonthFailed  PROVE IInv'
  OBVIOUS
<1>1. /\ pc = "fold" /\ ReturnFailed /\ IdleLoop /\ UNCHANGED output
  BY DEF MonthFailed
<1>2. PICK error \in BOOLEAN :
        IF flags.keep THEN Delete(active, {}, error) /\ UNCHANGED unpurged ELSE Cleanup(error)
  BY DEF MonthFailed
<1>3. unpurged \in BOOLEAN  BY DEF IInv, PlanType
<1>4. /\ unpurged' \in BOOLEAN
      /\ raw' \in [Providers -> SUBSET Files] /\ idx' \in [Providers -> Seq(Days) \cup {None}]
      /\ ~flags.keep /\ ~unpurged' => \A x \in used : raw'[x] = {} /\ idx'[x] = None
  <2>1. CASE flags.keep  BY <1>2, <1>3, <2>1, DeleteIs DEF IInv
  <2>2. CASE ~flags.keep  BY <1>2, <1>3, <2>2, CleanupPurges
  <2>3. QED  BY <2>1, <2>2
<1>5. QED  BY <1>1, <1>4, ReturnFailedIs, GiveUp

\* The month after an earlier one than the window's last.
LEMMA NextMonth ==
  ASSUME IInv, MonthOf[window[2]] # month, month <= MonthOf[window[2]],
         NEW next, next = Min({MonthOf[d] : d \in {e \in Days : MonthOf[e] > month}})
  PROVE  /\ next \in Int /\ month < next /\ next <= MonthOf[window[2]]
         /\ \E d \in Days : MonthOf[d] = next
<1> DEFINE later == {MonthOf[d] : d \in {e \in Days : MonthOf[e] > month}}
<1>1. month \in Int /\ window[2] \in Days /\ \A d \in Days : MonthOf[d] \in Int
  BY DaysAssumption DEF IInv, LoopType, PlanType
<1>2. MonthOf[window[2]] \in later  BY <1>1
<1>3. later \subseteq Int /\ \A m \in later : month <= m /\ month < m  BY <1>1
<1>4. \A m \in later : \E d \in Days : MonthOf[d] = m  OBVIOUS
<1> HIDE DEF later
<1>5. Min(later) \in later /\ \A m \in later : Min(later) <= m
  BY <1>1, <1>2, <1>3, MinBounded
<1>6. next = Min(later)  BY DEF later
<1>7. QED  BY <1>2, <1>3, <1>4, <1>5, <1>6

LEMMA MonthDoneInv == IInv /\ MonthDone => IInv'
<1> SUFFICES ASSUME IInv, MonthDone  PROVE IInv'
  OBVIOUS
<1> USE DEF IInv
<1>1. /\ pc = "fold" /\ queue = NoFiles
      /\ clean' = (clean /\ \A x \in active : raw'[x] = {})
      /\ UNCHANGED <<shards, manifest, s10, renko, barsDone>>
      /\ UNCHANGED <<flags, runs, pass, window, active>>
      /\ UNCHANGED <<failed, report, folded, used, unpurged>>
  BY DEF MonthDone, output, plan, verdict
<1>2. /\ raw' \in [Providers -> SUBSET Files] /\ idx' \in [Providers -> Seq(Days) \cup {None}]
      /\ \A x \in Providers : idx'[x] = idx[x] /\ (x \notin active => raw'[x] = raw[x])
  <2>1. PICK error \in BOOLEAN : Delete(active, {}, error)  BY DEF MonthDone
  <2>2. QED  BY <2>1, DeleteIs
<1>3. month \in Int /\ month <= MonthOf[window[2]] /\ \A d \in Days : MonthOf[d] \in Int
  BY <1>1, DaysAssumption DEF LoopType
<1>4. \/ MonthOf[window[2]] = month /\ pc' = "merge" /\ IdleLoop
      \/ /\ MonthOf[window[2]] # month /\ pc' = "fetch" /\ todo' = active
         /\ month' = Min({MonthOf[d] : d \in {e \in Days : MonthOf[e] > month}})
         /\ UNCHANGED <<queue, clock, hard>>
  BY DEF MonthDone
<1>5. DiskType'  BY <1>1, <1>2 DEF DiskType, IsShards
<1>6. PlanType'
  <2>1. clean' \in BOOLEAN  BY <1>1
  <2>2. QED  BY <1>1, <1>4, <2>1 DEF PlanType, TickerAt
<1>7. Worked' /\ Reported'  BY <1>1, <1>4 DEF Worked, Reported
<1>8. Purged'  BY <1>1, <1>2, <1>4 DEF Purged, NoStaging, PlanType
<1>9. Built'  BY <1>1, <1>4 DEF Built, Promised, Reported
<1>10. CASE pc' = "merge"
  <2>1. IdleLoop  BY <1>4, <1>10
  <2>2. LoopType'  BY <1>10, <2>1, IdleLoopIs DEF LoopType
  <2>3. Fresh'
    <3> SUFFICES ASSUME clean', ~flags.resume, NEW x \in active  PROVE FreshAt(x)'
      BY <1>1 DEF Fresh
    <3>1. x \in Providers /\ clean  BY <1>1 DEF PlanType
    <3>2. Logged(x)  BY <1>1, <3>1 DEF Fresh, FreshAt
    <3>3. Logged(x)'  BY <1>1, <1>2, <3>1, <3>2 DEF Logged
    <3>4. QED  BY <1>10, <3>3 DEF FreshAt
  <2>4. QED  BY <1>5, <1>6, <1>7, <1>8, <1>9, <2>2, <2>3
<1>11. CASE pc' = "fetch"
  <2>1. /\ MonthOf[window[2]] # month /\ todo' = active
        /\ month' = Min({MonthOf[d] : d \in {e \in Days : MonthOf[e] > month}})
        /\ UNCHANGED <<queue, clock, hard>>
    BY <1>4, <1>11
  <2>2. /\ month' \in Int /\ month < month' /\ month' <= MonthOf[window[2]]
        /\ \E d \in Days : MonthOf[d] = month'
    BY <1>3, <2>1, NextMonth
  <2>3. \A x \in Providers : queue'[x] = {}  BY <1>1, <2>1, NoFilesIs
  <2>4. LoopType'  BY <1>1, <1>11, <2>1, <2>2, <2>3 DEF LoopType
  <2>5. Fresh'
    <3> SUFFICES ASSUME clean', ~flags.resume, NEW x \in active  PROVE FreshAt(x)'
      BY <1>1 DEF Fresh
    <3>1. x \in Providers /\ folded[x] \subseteq Days /\ clean  BY <1>1 DEF PlanType
    <3>2. Logged(x) /\ \A d \in folded[x] : MonthOf[d] <= month
      BY <1>1, <3>1 DEF Fresh, FreshAt
    <3>3. \A d \in folded'[x] : MonthOf[d] < month'  BY <1>1, <1>3, <2>2, <3>1, <3>2
    <3>4. raw'[x] = {}  BY <1>1
    <3>5. Logged(x)'  BY <1>1, <1>2, <3>1, <3>2 DEF Logged
    <3>6. QED  BY <1>11, <3>3, <3>4, <3>5 DEF FreshAt, Simple
  <2>6. QED  BY <1>5, <1>6, <1>7, <1>8, <1>9, <2>4, <2>5
<1>12. QED  BY <1>4, <1>10, <1>11

\* merge-idx has every day of a sorted log to blend, and no other provider can
\* keep it from doing so.
LEMMA FoldedIsBlended ==
  ASSUME DiskType, PlanType, NEW x \in Providers, Logged(x), NEW d \in folded[x]
  PROVE  x \in Blended(d) /\ d \in BlendDays
<1>1. d \in Days  BY DEF PlanType
<1>2. idx[x] # None /\ Sorted(idx[x]) /\ d \in ToSet(idx[x])  BY DEF Logged
<1>3. idx[x] \in Seq(Days)  BY <1>2 DEF DiskType
<1>4. d \in InOrder(idx[x])  BY <1>2, <1>3, SortedInOrder
<1>5. QED  BY <1>1, <1>4 DEF Blended, BlendDays

LEMMA MergeSkipInv == IInv /\ MergeSkip => IInv'
<1> SUFFICES ASSUME IInv, MergeSkip  PROVE IInv'
  OBVIOUS
<1> USE DEF IInv
<1>1. /\ pc = "merge" /\ pc' = "validate" /\ flags.resume
      /\ UNCHANGED <<raw, idx, shards, manifest, s10, renko, barsDone>>
      /\ UNCHANGED <<flags, runs, pass, window, active, month, todo, queue, clock, hard>>
      /\ UNCHANGED <<failed, report, clean, folded, used, unpurged>>
  BY DEF MergeSkip, disk, plan, loop, verdict, history, faulty
<1>2. DiskType'  BY <1>1 DEF DiskType, IsShards
<1>3. PlanType'  BY <1>1 DEF PlanType, TickerAt
<1>4. \A x \in Providers : queue'[x] = {}  BY <1>1 DEF LoopType
<1>5. LoopType'  BY <1>1, <1>4 DEF LoopType
<1>6. Worked' /\ Reported' /\ Purged'  BY <1>1 DEF Worked, Reported, Purged, NoStaging
<1>7. Built' /\ Fresh'  BY <1>1 DEF Built, Fresh
<1>8. QED  BY <1>2, <1>3, <1>5, <1>6, <1>7

LEMMA MergeStartInv == IInv /\ MergeStart => IInv'
<1> SUFFICES ASSUME IInv, MergeStart  PROVE IInv'
  OBVIOUS
<1> USE DEF IInv
<1>1. /\ pc = "merge" /\ pc' = "merging"
      /\ UNCHANGED <<raw, idx, shards, manifest, s10, renko, barsDone>>
      /\ UNCHANGED <<flags, runs, pass, window, active, month, queue, clock, hard>>
      /\ UNCHANGED <<failed, report, clean, folded, used, unpurged>>
  BY DEF MergeStart, disk, plan, verdict, history, faulty
<1>2. todo' \subseteq Days /\ BlendDays \subseteq todo'
  BY DEF MergeStart, BlendDays
<1>3. DiskType'  BY <1>1 DEF DiskType, IsShards
<1>4. PlanType'  BY <1>1 DEF PlanType, TickerAt
<1>5. \A x \in Providers : queue'[x] = {}  BY <1>1 DEF LoopType
<1>6. LoopType'  BY <1>1, <1>2, <1>5 DEF LoopType
<1>7. Worked' /\ Reported' /\ Purged'  BY <1>1 DEF Worked, Reported, Purged, NoStaging
<1>8. Built'  BY <1>1 DEF Built, Promised, Reported
<1>9. Fresh'
  <2> SUFFICES ASSUME clean, ~flags.resume, NEW x \in active  PROVE FreshAt(x)'
    BY <1>1 DEF Fresh
  <2>1. Logged(x) /\ x \in Providers  BY <1>1 DEF Fresh, FreshAt, PlanType
  <2>2. \A d \in folded[x] : d \in todo'  BY <1>2, <2>1, FoldedIsBlended
  <2>3. Logged(x)'  BY <1>1, <2>1 DEF Logged
  <2>4. QED  BY <1>1, <2>2, <2>3 DEF FreshAt
<1>10. QED  BY <1>3, <1>4, <1>6, <1>7, <1>8, <1>9

\* A day is written: what was carried for it by this merge or an earlier one
\* may go, what the logs have of it is there.
LEMMA MergeDayInv == IInv /\ MergeDay => IInv'
<1> SUFFICES ASSUME IInv, MergeDay  PROVE IInv'
  OBVIOUS
<1> USE DEF IInv
<1> DEFINE d == Min(todo)
           kept == IF d < Today \/ d \notin DOMAIN shards THEN {} ELSE shards[d]
<1>1. /\ pc = "merging" /\ pc' = pc /\ todo # {} /\ todo' = todo \ {d}
      /\ shards' = [e \in DOMAIN shards \cup {d} |->
                      IF e = d THEN kept \cup Blended(d) ELSE shards[e]]
      /\ UNCHANGED <<raw, idx, manifest, s10, renko, barsDone>>
      /\ UNCHANGED <<flags, runs, pass, window, active, month, queue, clock, hard>>
      /\ UNCHANGED <<failed, report, clean, folded, used, unpurged>>
  BY DEF MergeDay, stage, plan, verdict, history, faulty
<1>2. todo \subseteq Days  BY <1>1 DEF LoopType
<1>3. d \in todo /\ d \in Days  BY <1>1, <1>2, MinDays
<1>4. kept \in SUBSET Sources /\ Blended(d) \in SUBSET Sources
  <2>1. d \in DOMAIN shards => shards[d] \in SUBSET Sources  BY DEF DiskType, IsShards
  <2>2. QED  BY <2>1 DEF Blended, Sources
<1> HIDE DEF d, kept
<1>5. IsShards(shards')
  <2>1. DOMAIN shards' = DOMAIN shards \cup {d}  BY <1>1
  <2>2. DOMAIN shards' \subseteq Days  BY <1>3, <2>1 DEF DiskType, IsShards
  <2>3. \A e \in DOMAIN shards' : shards'[e] \in SUBSET Sources
    BY <1>1, <1>4, <2>1 DEF DiskType, IsShards
  <2>4. shards' = [e \in DOMAIN shards' |-> shards'[e]]  BY <1>1, <2>1
  <2>5. shards' \in [DOMAIN shards' -> SUBSET Sources]  BY <2>3, <2>4
  <2>6. QED  BY <2>2, <2>5 DEF IsShards
<1>6. DiskType'  BY <1>1, <1>5 DEF DiskType, IsShards
<1>7. PlanType'  BY <1>1 DEF PlanType, TickerAt
<1>8. LoopType'  BY <1>1, <1>2 DEF LoopType
<1>9. Worked' /\ Reported' /\ Purged'  BY <1>1 DEF Worked, Reported, Purged, NoStaging
<1>10. Built'  BY <1>1 DEF Built, Promised, Reported
<1>11. Fresh'
  <2> SUFFICES ASSUME clean, ~flags.resume, NEW x \in active  PROVE FreshAt(x)'
    BY <1>1 DEF Fresh
  <2>1. /\ Logged(x) /\ x \in Providers
        /\ \A e \in folded[x] : e \in todo \/ Carried(x, e)
    BY <1>1 DEF Fresh, FreshAt, PlanType
  <2>2. Logged(x)'  BY <1>1, <2>1 DEF Logged
  <2>3. \A e \in folded[x] : e \in todo' \/ Carried(x, e)'
    <3> TAKE e \in folded[x]
    <3>1. CASE e = d
      <4>1. x \in Blended(d)  BY <2>1, <3>1, FoldedIsBlended
      <4>2. QED  BY <1>1, <3>1, <4>1 DEF Carried
    <3>2. CASE e # d  BY <1>1, <2>1, <3>2 DEF Carried
    <3>3. QED  BY <3>1, <3>2
  <2>4. QED  BY <1>1, <2>2, <2>3 DEF FreshAt
<1>12. QED  BY <1>6, <1>7, <1>8, <1>9, <1>10, <1>11

LEMMA MergeDoneInv == IInv /\ MergeDone => IInv'
<1> SUFFICES ASSUME IInv, MergeDone  PROVE IInv'
  OBVIOUS
<1> USE DEF IInv
<1>1. /\ pc = "merging" /\ pc' = "validate" /\ todo = {} /\ manifest' = shards
      /\ UNCHANGED <<raw, idx, shards, s10, renko, barsDone>>
      /\ UNCHANGED <<flags, runs, pass, window, active, month, todo, queue, clock, hard>>
      /\ UNCHANGED <<failed, report, clean, folded, used, unpurged>>
  BY DEF MergeDone, stage, plan, loop, verdict, history, faulty
<1>2. DiskType'  BY <1>1 DEF DiskType, IsShards
<1>3. PlanType'  BY <1>1 DEF PlanType, TickerAt
<1>4. \A x \in Providers : queue'[x] = {}  BY <1>1 DEF LoopType
<1>5. LoopType'  BY <1>1, <1>4 DEF LoopType
<1>6. Worked' /\ Reported' /\ Purged'  BY <1>1 DEF Worked, Reported, Purged, NoStaging
<1>7. Built'  BY <1>1 DEF Built, Promised, Reported
<1>8. Fresh'
  <2> SUFFICES ASSUME clean, ~flags.resume, NEW x \in active  PROVE FreshAt(x)'
    BY <1>1 DEF Fresh
  <2>1. Logged(x) /\ \A d \in folded[x] : Carried(x, d)  BY <1>1 DEF Fresh, FreshAt
  <2>2. QED  BY <1>1, <2>1 DEF FreshAt, Logged, Carried
<1>9. QED  BY <1>2, <1>3, <1>5, <1>6, <1>7, <1>8

LEMMA FailInv ==
  IInv /\ (FetchLost \/ MergeFail \/ ValidateIdxFail \/ S10Fail \/ RenkoFail) => IInv'
<1>1. FetchLost \/ MergeFail \/ ValidateIdxFail \/ S10Fail \/ RenkoFail => pc # "down" /\ Abort
  BY DEF FetchLost, MergeFail, ValidateIdxFail, S10Fail, RenkoFail
<1>2. QED  BY <1>1, AbortInv

LEMMA ValidateIdxInv == IInv /\ ValidateIdx => IInv'
<1> SUFFICES ASSUME IInv, ValidateIdx  PROVE IInv'
  OBVIOUS
<1> USE DEF IInv
<1>1. /\ pc = "validate" /\ pc' = "s10" /\ clean' = TRUE /\ folded' = NoFiles
      /\ UNCHANGED <<shards, manifest, s10, renko, barsDone>>
      /\ UNCHANGED <<flags, runs, pass, window, active, month, todo, queue, clock, hard>>
      /\ UNCHANGED <<report, used>>
  BY DEF ValidateIdx, output, plan, loop
<1>2. PICK error \in BOOLEAN : PurgeUnlessKept(error) /\ failed' = (failed \/ error)
  BY DEF ValidateIdx
<1> HIDE DEF IInv
<1>3. /\ unpurged' = (unpurged \/ error)
      /\ raw' \in [Providers -> SUBSET Files] /\ idx' \in [Providers -> Seq(Days) \cup {None}]
      /\ ~flags.keep /\ ~unpurged' => \A x \in used : raw'[x] = {} /\ idx'[x] = None
  BY <1>2, PurgeIs
<1> USE DEF IInv
<1>4. DiskType'  BY <1>1, <1>3 DEF DiskType, IsShards
<1>5. PlanType'
  <2>1. failed' \in BOOLEAN /\ unpurged' \in BOOLEAN  BY <1>2, <1>3 DEF PlanType
  <2>2. QED  BY <1>1, <2>1, NobodyFolded DEF PlanType, TickerAt
<1>6. \A x \in Providers : queue'[x] = {}  BY <1>1 DEF LoopType
<1>7. LoopType'  BY <1>1, <1>6 DEF LoopType
<1>8. Worked'  BY <1>1 DEF Worked
<1>9. Reported'
  <2>1. report' = "none"  BY <1>1 DEF Reported
  <2>2. (unpurged => failed) /\ unpurged \in BOOLEAN /\ failed \in BOOLEAN
    BY DEF Reported, PlanType
  <2>3. QED  BY <1>2, <1>3, <2>1, <2>2 DEF Reported
<1>10. Purged'
  <2>1. active \subseteq used  BY DEF Worked
  <2>2. QED  BY <1>1, <1>3, <2>1 DEF Purged, NoStaging
<1>11. Built'  BY <1>1 DEF Built, Promised, Reported
<1>12. Fresh'  BY <1>1 DEF Fresh, FreshAt
<1>13. QED  BY <1>4, <1>5, <1>7, <1>8, <1>9, <1>10, <1>11, <1>12

LEMMA S10BuildInv == IInv /\ S10Build => IInv'
<1> SUFFICES ASSUME IInv, S10Build  PROVE IInv'
  OBVIOUS
<1> USE DEF IInv
<1>1. /\ pc = "s10" /\ pc' = "renko" /\ Closed # {} /\ barsDone' = TRUE
      /\ s10' = s10 \cup {d \in Days : Min(Closed) <= d /\ d <= Max(Closed)}
      /\ UNCHANGED <<raw, idx, shards, manifest, renko>>
      /\ UNCHANGED <<flags, runs, pass, window, active, month, todo, queue, clock, hard>>
      /\ UNCHANGED <<failed, report, clean, folded, used, unpurged>>
  BY DEF S10Build, stage, plan, loop, verdict, history, faulty
<1>2. DiskType'  BY <1>1 DEF DiskType, IsShards
<1>3. PlanType'  BY <1>1 DEF PlanType, TickerAt
<1>4. \A x \in Providers : queue'[x] = {}  BY <1>1 DEF LoopType
<1>5. LoopType'  BY <1>1, <1>4 DEF LoopType
<1>6. Worked' /\ Reported' /\ Purged'  BY <1>1 DEF Worked, Reported, Purged, NoStaging
<1>7. Built'
  <2>1. Closed \subseteq Days  BY DEF Closed, DiskType, IsShards
  <2>2. Closed \subseteq s10'  BY <1>1, <2>1, MinDays, MaxDays
  <2>3. Closed' = Closed  BY <1>1 DEF Closed
  <2>4. QED  BY <1>1, <2>2, <2>3 DEF Built, Promised, Reported
<1>8. Fresh'  BY <1>1 DEF Fresh, FreshAt
<1>9. QED  BY <1>2, <1>3, <1>5, <1>6, <1>7, <1>8

\* From the bars to the gaps: what is there stays, and more may be.
LEMMA BarsInv == IInv /\ (S10Skip \/ RenkoBuild \/ RenkoSkip \/ ValidateBars) => IInv'
<1> SUFFICES ASSUME IInv, S10Skip \/ RenkoBuild \/ RenkoSkip \/ ValidateBars  PROVE IInv'
  OBVIOUS
<1> USE DEF IInv
<1>1. /\ \/ pc = "s10" /\ pc' = "renko" /\ flags.resume
         \/ pc = "renko" /\ pc' \in {"validateBars", "gaps"}
         \/ pc = "validateBars" /\ pc' = "gaps"
      /\ renko' \in {renko, TRUE} /\ barsDone' \in {barsDone, TRUE} /\ failed' \in {failed, TRUE}
      /\ UNCHANGED <<raw, idx, shards, manifest, s10>>
      /\ UNCHANGED <<flags, runs, pass, window, active, month, todo, queue, clock, hard>>
      /\ UNCHANGED <<report, clean, folded, used, unpurged>>
  BY DEF S10Skip, RenkoBuild, RenkoSkip, ValidateBars, disk, stage, plan, loop, verdict, history, faulty
<1>2. DiskType'  BY <1>1 DEF DiskType, IsShards
<1>3. PlanType'  BY <1>1 DEF PlanType, TickerAt
<1>4. \A x \in Providers : queue'[x] = {}  BY <1>1 DEF LoopType
<1>5. LoopType'  BY <1>1, <1>4 DEF LoopType
<1>6. Worked' /\ Reported' /\ Purged'
  <2>1. report # "ok" /\ (unpurged => failed' = TRUE)  BY <1>1 DEF Reported, PlanType
  <2>2. Reported'  BY <1>1, <2>1 DEF Reported
  <2>3. QED  BY <1>1, <2>2 DEF Worked, Purged, NoStaging
<1>7. Built'
  <2>1. Closed' = Closed  BY <1>1 DEF Closed
  <2>2. QED  BY <1>1, <2>1 DEF Built, Promised, Reported
<1>8. Fresh'  BY <1>1 DEF Fresh, FreshAt
<1>9. QED  BY <1>2, <1>3, <1>5, <1>6, <1>7, <1>8

\* The run ends, or returns from its repair pass, with the report of what it did.
LEMMA ReportInv == IInv /\ (GapsReport \/ GapsUnread \/ Status) => IInv'
<1> SUFFICES ASSUME IInv, GapsReport \/ GapsUnread \/ Status  PROVE IInv'
  OBVIOUS
<1> USE DEF IInv
<1>1. /\ pc \in {"gaps", "status"} /\ pc' \in {"status", "down"}
      /\ \/ pc' = "status" /\ report' = report
         \/ pc' = "down" /\ report' = IF failed THEN "failed" ELSE "ok"
      /\ pc = "status" => pc' = "down"
      /\ \/ NewPass
         \/ UNCHANGED <<pass, window, active, clean, folded>>
      /\ UNCHANGED <<raw, idx, shards, manifest, s10, renko, barsDone>>
      /\ UNCHANGED <<flags, runs, month, todo, queue, clock, hard>>
      /\ UNCHANGED <<failed, used, unpurged>>
  BY DEF GapsReport, GapsUnread, AuditDone, Status, disk, plan, loop, history, faulty
<1>2. report = "none"  BY <1>1 DEF Reported
<1>3. DiskType'  BY <1>1 DEF DiskType, IsShards
<1>4. /\ pass' \in {0, 1} /\ window' \in Days \X Days /\ window'[1] <= window'[2]
      /\ active' \in {active, {}} /\ clean' \in BOOLEAN /\ folded' \in [Providers -> SUBSET Days]
  <2>1. CASE NewPass
    <3>1. <<From, To>> \in Days \X Days /\ <<From, To>>[1] <= <<From, To>>[2]  BY DaysAssumption
    <3>2. QED  BY <2>1, <3>1, NobodyFolded DEF NewPass
  <2>2. CASE UNCHANGED <<pass, window, active, clean, folded>>  BY <2>2 DEF PlanType
  <2>3. QED  BY <1>1, <2>1, <2>2
<1>5. PlanType'
  <2>1. report' \in {"none", "ok", "failed"}  BY <1>1, <1>2
  <2>2. QED  BY <1>1, <1>4, <2>1 DEF PlanType, TickerAt
<1>6. \A x \in Providers : queue'[x] = {}  BY <1>1 DEF LoopType
<1>7. LoopType'  BY <1>1, <1>6 DEF LoopType
<1>8. Worked'  BY <1>1, <1>4 DEF Worked
<1>9. Reported'  BY <1>1, <1>2 DEF Reported
<1>10. Purged'  BY <1>1, <1>4 DEF Purged, NoStaging
<1>11. Built'
  <2>1. Closed' = Closed  BY <1>1 DEF Closed
  <2>2. ~flags.resume /\ (pc = "gaps" \/ ~failed) => manifest = shards /\ Closed \subseteq s10
    BY <1>1 DEF Built, Promised
  <2>3. ~flags.resume /\ Promised' => (pc = "gaps" \/ ~failed)
    BY <1>1, <1>2 DEF Promised
  <2>4. QED  BY <1>1, <2>1, <2>2, <2>3 DEF Built
<1>12. Fresh'  BY <1>1 DEF Fresh, FreshAt
<1>13. QED  BY <1>3, <1>5, <1>7, <1>8, <1>9, <1>10, <1>11, <1>12

\* A gap has a shard on either side: the day after the last one is a date.
LEMMA RepairInv == IInv /\ Repair => IInv'
<1> SUFFICES ASSUME IInv, Repair  PROVE IInv'
  OBVIOUS
<1> USE DEF IInv
<1> DEFINE a == Min(Audited)
           b == Max(Audited)
<1>1. /\ pc = "gaps" /\ pc' = "start" /\ pass' = 1 /\ active' = {} /\ Audited # {}
      /\ window' = <<a, b + 1>>
      /\ UNCHANGED <<raw, idx, shards, manifest, s10, renko, barsDone>>
      /\ UNCHANGED <<flags, runs, month, todo, queue, clock, hard>>
      /\ UNCHANGED <<failed, report, clean, folded, used, unpurged>>
  BY DEF Repair, disk, loop, verdict, history, faulty
<1>2. Audited \subseteq Days  BY DEF Audited, AuditDays
<1>3. a \in Audited /\ b \in Audited /\ a <= b  BY <1>1, <1>2, MinDays, MaxDays
<1>4. window' \in Days \X Days /\ window'[1] <= window'[2]
  <2>1. PICK f \in AuditDays : b < f  BY <1>3 DEF Audited
  <2>2. a \in Days /\ b \in Days /\ f \in Days  BY <1>2, <1>3, <2>1 DEF AuditDays
  <2> HIDE DEF a, b
  <2>3. a \in Int /\ b \in Int /\ f \in Int  BY <2>2, DaysAreInterval
  <2>4. b <= b + 1 /\ b + 1 <= f /\ b + 1 \in Int /\ a <= b + 1  BY <1>3, <2>1, <2>3
  <2>5. b + 1 \in Days  BY <2>2, <2>4, DaysAreInterval
  <2>6. QED  BY <1>1, <2>2, <2>4, <2>5
<1>5. DiskType'  BY <1>1 DEF DiskType, IsShards
<1>6. PlanType'
  <2> HIDE DEF a, b
  <2>1. QED  BY <1>1, <1>2, <1>4 DEF PlanType, TickerAt
<1>7. \A x \in Providers : queue'[x] = {}  BY <1>1 DEF LoopType
<1>8. LoopType'  BY <1>1, <1>7 DEF LoopType
<1>9. Worked' /\ Reported' /\ Purged'  BY <1>1 DEF Worked, Reported, Purged, NoStaging
<1>10. Built'  BY <1>1 DEF Built, Promised, Reported
<1>11. Fresh'  BY <1>1 DEF Fresh
<1>12. QED  BY <1>5, <1>6, <1>8, <1>9, <1>10, <1>11

LEMMA StutterInv == IInv /\ UNCHANGED vars => IInv'
<1> SUFFICES ASSUME IInv, UNCHANGED vars  PROVE IInv'
  OBVIOUS
<1> USE DEF IInv
<1>1. /\ pc' = pc /\ UNCHANGED <<raw, idx, shards, manifest, s10, renko, barsDone>>
      /\ UNCHANGED <<flags, runs, pass, window, active, month, todo, queue, clock, hard>>
      /\ UNCHANGED <<failed, report, clean, folded, used, unpurged>>
  BY DEF vars, disk, plan, loop, verdict, history, faulty
<1>2. DiskType' /\ PlanType' /\ LoopType'  BY <1>1 DEF DiskType, IsShards, PlanType, LoopType
<1>3. Worked' /\ Reported' /\ Purged'  BY <1>1 DEF Worked, Reported, Purged, NoStaging
<1>4. Built'  BY <1>1 DEF Built, Promised, Closed
<1>5. Fresh'
  <2> SUFFICES ASSUME clean, ~flags.resume, NEW x \in active  PROVE FreshAt(x)'
    BY <1>1 DEF Fresh
  <2>1. FreshAt(x)  BY DEF Fresh
  <2>2. QED  BY <1>1, <2>1 DEF FreshAt, Later, Logged, Carried, MonthDays
<1>6. QED  BY <1>2, <1>3, <1>4, <1>5

LEMMA StepInv == IInv /\ [Next]_vars => IInv'
<1> SUFFICES ASSUME IInv, [Next]_vars  PROVE IInv'
  OBVIOUS
<1>1. CASE UNCHANGED vars  BY <1>1, StutterInv
<1>2. CASE Launch  BY <1>2, LaunchInv
<1>3. CASE Crash \/ Panic  BY <1>3, CrashInv, PanicInv
<1>4. CASE DiskFloor \/ GapsLost  BY <1>4, EarlyReturnInv
<1>5. CASE Probe \/ GateSkip \/ GateBuild  BY <1>5, ProbeInv, GateSkipInv, GateBuildInv
<1>6. CASE \E x \in Providers : Fetch(x) \/ FoldFile(x) \/ FoldError(x) \/ FoldLost(x)
  BY <1>6, FetchInv, FoldFileInv, FoldErrorInv, FoldLostInv
<1>7. CASE FetchLost \/ MergeFail \/ ValidateIdxFail \/ S10Fail \/ RenkoFail  BY <1>7, FailInv
<1>8. CASE FoldStart \/ MonthFailed \/ MonthDone  BY <1>8, FoldStartInv, MonthFailedInv, MonthDoneInv
<1>9. CASE MergeSkip \/ MergeStart \/ MergeDay \/ MergeDone
  BY <1>9, MergeSkipInv, MergeStartInv, MergeDayInv, MergeDoneInv
<1>10. CASE ValidateIdx \/ S10Build  BY <1>10, ValidateIdxInv, S10BuildInv
<1>11. CASE S10Skip \/ RenkoBuild \/ RenkoSkip \/ ValidateBars  BY <1>11, BarsInv
<1>12. CASE GapsReport \/ GapsUnread \/ Status \/ Repair  BY <1>12, ReportInv, RepairInv
<1>13. QED
  BY <1>1, <1>2, <1>3, <1>4, <1>5, <1>6, <1>7, <1>8, <1>9, <1>10, <1>11, <1>12
  DEF Next, RunTicker

\* IInv holds in every state of every run.
THEOREM BackfillInductive == Spec => []IInv
<1>1. QED  BY InitInv, StepInv, PTL DEF Spec

\* Whatever step a ticker without --keep-staging ends at, in the first or in
\* the repair pass, the exchanges it worked on have no staging left, unless a
\* purge met an error or the worker panicked, and then it has reported "failed".
THEOREM StagingAlwaysPurged == Spec => []StagingPurged
<1>1. IInv => StagingPurged
  <2> SUFFICES ASSUME IInv, report # "none", ~flags.keep,
                      NEW x \in used, raw[x] # {} \/ idx[x] # None
               PROVE  unpurged /\ report = "failed"
    BY DEF StagingPurged
  <2>1. pc = "down"  BY DEF IInv, Reported
  <2>2. ~unpurged => NoStaging(used \ active) /\ NoStaging(active)
    BY <2>1 DEF IInv, Purged
  <2>3. unpurged  BY <2>2 DEF NoStaging
  <2>4. failed /\ report # "ok"  BY <2>3 DEF IInv, Reported
  <2>5. QED  BY <2>3, <2>4 DEF IInv, PlanType
<1>2. QED  BY <1>1, BackfillInductive, PTL

\* An "ok" of a run without --resume is true of the manifest and of the bars,
\* for any number of killed and resumed runs before it.
THEOREM OkIsTrue == Spec => []OkIsBuilt
<1>1. IInv => OkIsBuilt
  BY DEF IInv, Built, Promised, OkIsBuilt
<1>2. QED  BY <1>1, BackfillInductive, PTL

\* A build from scratch purges its staging only when every day it has folded,
\* of every exchange, is in the composite.
THEOREM FreshBuildCarries == Spec => FoldedIsBuilt
<1>1. IInv /\ [Next]_vars =>
        [pc = "validate" /\ pc' = "s10" /\ clean /\ ~flags.resume =>
           \A x \in active : \A d \in folded[x] : d \in DOMAIN shards /\ x \in shards[d]]_vars
  BY DEF IInv, Fresh, FreshAt, Carried
<1>2. QED  BY <1>1, BackfillInductive, PTL DEF Spec, FoldedIsBuilt

-----------------------------------------------------------------------------
(* The gate. For any number of workers and any cap: the permits are        *)
(* conserved, the cap is never exceeded and no wakeup is lost. The argument *)
(* counts the workers at each control point: an action moves one worker    *)
(* from one set to another, and Finish may move a second one.              *)


\* GateTypeOK alone is not inductive: that a release stays within the cap is
\* PermitsConserved.
GateIInv == GateTypeOK /\ PermitsConserved /\ NoLostWakeup

\* Where the workers are is a finite set, and it is empty exactly when its
\* cardinality is 0.
LEMMA AtFinite ==
  ASSUME NEW p
  PROVE  /\ IsFiniteSet(At(p)) /\ Cardinality(At(p)) \in Nat
         /\ At(p) \subseteq Threads
         /\ Cardinality(At(p)) = 0 <=> At(p) = {}
<1>1. At(p) \subseteq Threads  BY DEF At
<1>2. IsFiniteSet(At(p))  BY <1>1, ThreadsAssumption, FS_Subset
<1>3. QED  BY <1>1, <1>2, FS_CardinalityType, FS_EmptySet

\* A worker that arrives at p, or leaves it, changes the count there by one.
LEMMA Arrive ==
  ASSUME NEW S, IsFiniteSet(S), NEW t, t \notin S
  PROVE  Cardinality(S \cup {t}) = Cardinality(S) + 1
  BY FS_AddElement

LEMMA Leave ==
  ASSUME NEW S, IsFiniteSet(S), NEW t \in S
  PROVE  Cardinality(S \ {t}) = Cardinality(S) - 1 /\ Cardinality(S) >= 1
<1>1. Cardinality(S \ {t}) = Cardinality(S) - 1  BY FS_RemoveElement
<1>2. Cardinality(S) \in Nat /\ Cardinality(S) # 0
  BY FS_CardinalityType, FS_EmptySet
<1>3. QED  BY <1>1, <1>2

\* One worker goes from control point a to control point b.
LEMMA Move ==
  ASSUME GateTypeOK, NEW t \in Threads, NEW a \in PCs, NEW b \in PCs, a # b,
         where[t] = a, where' = [where EXCEPT ![t] = b]
  PROVE  /\ At(a)' = At(a) \ {t} /\ t \in At(a)
         /\ At(b)' = At(b) \cup {t} /\ t \notin At(b)
         /\ \A p \in PCs \ {a, b} : At(p)' = At(p)
  BY DEF GateTypeOK, At

LEMMA GateInitInv == GateInit => GateIInv
<1> SUFFICES ASSUME GateInit  PROVE GateIInv
  OBVIOUS
<1>1. GateTypeOK  BY CapAssumption, MaxStepsAssumption DEF GateInit, GateTypeOK, PCs
<1>2. At("child") = {} /\ At("parked") = {}  BY DEF GateInit, At
<1>3. Cardinality(At("child")) = 0  BY <1>2, FS_EmptySet
<1>4. PermitsConserved  BY <1>3, CapAssumption DEF GateInit, PermitsConserved
<1>5. NoLostWakeup  BY <1>2 DEF NoLostWakeup
<1>6. QED  BY <1>1, <1>4, <1>5 DEF GateIInv

LEMMA GateStepInv == GateIInv /\ [GateNext]_gateVars => GateIInv'
<1> SUFFICES ASSUME GateIInv, [GateNext]_gateVars  PROVE GateIInv'
  OBVIOUS
<1>1. GateTypeOK /\ PermitsConserved /\ NoLostWakeup  BY DEF GateIInv
<1>2. /\ Cardinality(At("child")) \in Nat /\ IsFiniteSet(At("child"))
      /\ Cardinality(At("locking")) \in Nat /\ IsFiniteSet(At("locking"))
      /\ Cardinality(At("parked")) \in Nat /\ IsFiniteSet(At("parked"))
  BY AtFinite
<1>3. permits \in Nat /\ Cap \in Nat /\ permits + Cardinality(At("child")) = Cap
  BY <1>1, CapAssumption DEF GateTypeOK, PermitsConserved
<1>4. {"out", "locking", "parked", "child"} = PCs  BY DEF PCs
<1>5. ASSUME NEW t \in Threads, Enter(t)  PROVE GateIInv'
  <2>1. GateTypeOK'  BY <1>1, <1>5, MaxStepsAssumption DEF GateTypeOK, Enter, PCs
  <2>2. /\ At("locking")' = At("locking") \cup {t} /\ t \notin At("locking")
        /\ At("parked")' = At("parked") /\ At("child")' = At("child")
        /\ permits' = permits
    BY <1>1, <1>4, <1>5, Move DEF Enter
  <2>3. Cardinality(At("locking")') = Cardinality(At("locking")) + 1
    BY <1>2, <2>2, Arrive
  <2>4. PermitsConserved'  BY <1>3, <2>2 DEF PermitsConserved
  <2>5. NoLostWakeup'  BY <1>1, <1>2, <1>3, <2>2, <2>3 DEF NoLostWakeup
  <2>6. QED  BY <2>1, <2>4, <2>5 DEF GateIInv
<1>6. ASSUME NEW t \in Threads, Take(t)  PROVE GateIInv'
  <2>1. GateTypeOK'  BY <1>1, <1>6, CapAssumption DEF GateTypeOK, Take, PCs
  <2>2. /\ At("locking")' = At("locking") \ {t} /\ t \in At("locking")
        /\ At("child")' = At("child") \cup {t} /\ t \notin At("child")
        /\ At("parked")' = At("parked")
        /\ permits' = permits - 1 /\ permits # 0
    BY <1>1, <1>4, <1>6, Move DEF Take
  <2>3. /\ Cardinality(At("locking")') = Cardinality(At("locking")) - 1
        /\ Cardinality(At("child")') = Cardinality(At("child")) + 1
    BY <1>2, <2>2, Arrive, Leave
  <2>4. PermitsConserved'  BY <1>2, <1>3, <2>2, <2>3 DEF PermitsConserved
  <2>5. NoLostWakeup'  BY <1>1, <1>2, <1>3, <2>2, <2>3 DEF NoLostWakeup
  <2>6. QED  BY <2>1, <2>4, <2>5 DEF GateIInv
<1>7. ASSUME NEW t \in Threads, Park(t)  PROVE GateIInv'
  <2>1. GateTypeOK'  BY <1>1, <1>7 DEF GateTypeOK, Park, PCs
  <2>2. At("child")' = At("child") /\ permits' = permits /\ permits = 0
    BY <1>1, <1>4, <1>7, Move DEF Park
  <2>3. Cardinality(At("locking")') \in Nat
    <3>1. At("locking")' = At("locking") \ {t}  BY <1>1, <1>4, <1>7, Move DEF Park
    <3>2. QED  BY <1>2, <3>1, FS_RemoveElement, FS_CardinalityType
  <2>4. PermitsConserved'  BY <1>3, <2>2 DEF PermitsConserved
  <2>5. NoLostWakeup'  BY <2>2, <2>3 DEF NoLostWakeup
  <2>6. QED  BY <2>1, <2>4, <2>5 DEF GateIInv
<1>8. ASSUME NEW t \in Threads, Finish(t)  PROVE GateIInv'
  <2>1. where[t] = "child" /\ permits' = permits + 1 /\ left' = left
    BY <1>8 DEF Finish
  <2>2. t \in At("child")  BY <2>1 DEF At
  <2>3. Cardinality(At("child")) >= 1  BY <1>2, <2>2, Leave
  <2>4. permits' \in 0..Cap  BY <1>2, <1>3, <2>1, <2>3
  <2>5. CASE At("parked") = {} /\ where' = [where EXCEPT ![t] = "out"]
    <3>1. GateTypeOK'  BY <1>1, <2>1, <2>4, <2>5 DEF GateTypeOK, PCs
    <3>2. At("child")' = At("child") \ {t} /\ At("parked")' = {}
      BY <1>1, <1>4, <2>1, <2>5, Move
    <3>3. Cardinality(At("child")') = Cardinality(At("child")) - 1
      BY <1>2, <2>2, <3>2, Leave
    <3>4. PermitsConserved'  BY <1>2, <1>3, <2>1, <3>3 DEF PermitsConserved
    <3>5. NoLostWakeup'  BY <3>2 DEF NoLostWakeup
    <3>6. QED  BY <3>1, <3>4, <3>5 DEF GateIInv
  <2>6. CASE \E u \in At("parked") : where' = [where EXCEPT ![t] = "out", ![u] = "locking"]
    <3>1. PICK u \in At("parked") : where' = [where EXCEPT ![t] = "out", ![u] = "locking"]
      BY <2>6
    <3>2. u \in Threads /\ where[u] = "parked" /\ u # t  BY <2>1, <3>1 DEF At
    <3>3. GateTypeOK'  BY <1>1, <2>1, <2>4, <3>1, <3>2 DEF GateTypeOK, PCs
    <3>4. /\ At("child")' = At("child") \ {t}
          /\ At("locking")' = At("locking") \cup {u} /\ u \notin At("locking")
      BY <1>1, <2>1, <3>1, <3>2 DEF GateTypeOK, At
    <3>5. /\ Cardinality(At("child")') = Cardinality(At("child")) - 1
          /\ Cardinality(At("locking")') = Cardinality(At("locking")) + 1
      BY <1>2, <2>2, <3>4, Arrive, Leave
    <3>6. PermitsConserved'  BY <1>2, <1>3, <2>1, <3>5 DEF PermitsConserved
    <3>7. permits <= Cardinality(At("locking"))  BY <1>1, <3>1 DEF NoLostWakeup
    <3>8. NoLostWakeup'  BY <1>2, <1>3, <2>1, <3>5, <3>7 DEF NoLostWakeup
    <3>9. QED  BY <3>3, <3>6, <3>8 DEF GateIInv
  <2>7. QED  BY <1>8, <2>5, <2>6 DEF Finish
<1>9. ASSUME NEW t \in Threads, SpuriousWakeup(t)  PROVE GateIInv'
  <2>1. GateTypeOK'  BY <1>1, <1>9 DEF GateTypeOK, SpuriousWakeup, PCs
  <2>2. /\ At("locking")' = At("locking") \cup {t} /\ t \notin At("locking")
        /\ At("child")' = At("child") /\ permits' = permits /\ t \in At("parked")
    BY <1>1, <1>4, <1>9, Move DEF SpuriousWakeup
  <2>3. Cardinality(At("locking")') = Cardinality(At("locking")) + 1
    BY <1>2, <2>2, Arrive
  <2>4. PermitsConserved'  BY <1>3, <2>2 DEF PermitsConserved
  <2>5. NoLostWakeup'  BY <1>1, <1>2, <1>3, <2>2, <2>3 DEF NoLostWakeup
  <2>6. QED  BY <2>1, <2>4, <2>5 DEF GateIInv
<1>10. CASE UNCHANGED gateVars
  BY <1>1, <1>10 DEF GateIInv, GateTypeOK, PermitsConserved, NoLostWakeup, At, gateVars
<1>11. QED  BY <1>5, <1>6, <1>7, <1>8, <1>9, <1>10 DEF GateNext, Finished

THEOREM GateInductive == GateSpec => []GateIInv
  BY GateInitInv, GateStepInv, PTL DEF GateSpec

\* The gate's state keeps its type: in particular the permits never exceed
\* the cap and never go below zero (an unsigned counter in the code).
THEOREM GateType == GateSpec => []GateTypeOK
<1>1. GateIInv => GateTypeOK  BY DEF GateIInv
<1>2. QED  BY <1>1, GateInductive, PTL

\* The free permits and the heavy subprocesses in flight add up to the cap.
THEOREM GateConserved == GateSpec => []PermitsConserved
<1>1. GateIInv => PermitsConserved  BY DEF GateIInv
<1>2. QED  BY <1>1, GateInductive, PTL

\* No wakeup is lost: notify_one is enough.
THEOREM GateNoLostWakeup == GateSpec => []NoLostWakeup
<1>1. GateIInv => NoLostWakeup  BY DEF GateIInv
<1>2. QED  BY <1>1, GateInductive, PTL

\* The memory bound the gate exists for: never more than Cap heavy
\* subprocesses at a time (backfill_all.rs:239-244).
THEOREM RamCap == GateSpec => [](Cardinality(At("child")) <= Cap)
<1>1. GateIInv => Cardinality(At("child")) <= Cap
  <2> SUFFICES ASSUME GateIInv  PROVE Cardinality(At("child")) <= Cap
    OBVIOUS
  <2>1. Cardinality(At("child")) \in Nat  BY AtFinite
  <2>2. QED  BY <2>1, CapAssumption DEF GateIInv, GateTypeOK, PermitsConserved
<1>2. QED  BY <1>1, GateInductive, PTL
=============================================================================
