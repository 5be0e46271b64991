---------------------------- MODULE FetchProofs ----------------------------
(***************************************************************************)
(* The cache of the downloads, for any archives, months, windows, retries, *)
(* failures and kills: a .ticks file holds all that its archive has unless *)
(* its conversion skipped something, so does every file a task returns,    *)
(* and a task without a failure that met no such file returns all that the *)
(* archives have of its window.                                            *)
(***************************************************************************)
EXTENDS Fetch, TLAPS

Fetching == pc \in {"attempt", "convert", "converted"}

Typed ==
  /\ archive \in [Files -> Content] /\ cache \in [Files -> Content] /\ lossy \in SUBSET Files
  /\ \A d \in Days : archive[Part(d, Parts + 1)] = None
  /\ pc \in {"idle", "month", "attempt", "convert", "converted", "dailies", "day",
             "monthEnd", "part", "done"}
  /\ run \in [from : Days, to : Days, day : Nat] /\ today \in Nat
  /\ target \in Files /\ files \in Seq(Files)

\* Where the loops stand: inside the window's first day and the months there are,
\* and at no part beyond the one that cannot exist.
Cursors ==
  /\ pc # "done" => month \in Months
  /\ day \in Nat /\ run.from <= day
  /\ seq \in 1..(Parts + 1)
  /\ Fetching /\ target.kind = "part" => day <= run.to /\ target = Part(day, seq)

\* What is being converted exists and is not in the cache yet, what was renamed is
\* what was converted, a conversion that skipped something is a failure of this
\* run, and the files that lack something are there.
Sound ==
  /\ \A f \in lossy : cache[f] # None
  /\ pc \in {"attempt", "convert"} => cache[target] = None
  /\ pc = "convert" => archive[target] # None
  /\ pc = "converted" => cache[target] # None /\ (target \in lossy => faulted)

\* What the task returns is on disk, and what it is downloading is not among it.
Returned ==
  /\ \A i \in 1..Len(files) : cache[files[i]] # None
  /\ Fetching => \A i \in 1..Len(files) : files[i] # target

IInv == Typed /\ Cursors /\ Sound /\ CacheWhole /\ Returned

-----------------------------------------------------------------------------
\* The months, the days and the files there are.

LEMMA Calendar ==
  /\ Months = 1..Len(Month) /\ Len(Month) \in Nat /\ 1 \in Months
  /\ Days \subseteq Nat /\ 1 \in Days
  /\ \A d \in Days : MonthOf(d) \in Months
<1>1. Month \in Seq(SUBSET Nat) /\ 1 \in DOMAIN Month /\ 1 \in Month[1]  BY FetchAssumption
<1>2. Months = 1..Len(Month) /\ Len(Month) \in Nat /\ 1 \in Months  BY <1>1 DEF Months
<1>3. \A m \in Months : Month[m] \in SUBSET Nat  BY <1>1 DEF Months
<1>4. Days \subseteq Nat /\ 1 \in Days  BY <1>1, <1>2, <1>3 DEF Days
<1>5. \A d \in Days : MonthOf(d) \in Months
  <2>1. \A d \in Days : \E m \in Months : d \in Month[m]  BY DEF Days
  <2> QED  BY <2>1 DEF MonthOf
<1> QED  BY <1>2, <1>4, <1>5

LEMMA Between == ASSUME NEW a \in Days, NEW b \in Days, NEW d \in Nat, a <= d, d <= b  PROVE d \in Days
<1>1. a \in Nat /\ b \in Nat  BY Calendar
<1>2. d \in a..b  BY <1>1
<1> QED  BY <1>2, FetchAssumption

LEMMA FileKinds ==
  /\ \A m \in Months : Monthly(m) \in Files /\ Monthly(m).kind = "month"
  /\ \A d \in Days : Daily(d) \in Files /\ Daily(d).kind = "day"
  /\ \A d \in Days, k \in 1..(Parts + 1) : Part(d, k) \in Files /\ Part(d, k).kind = "part"
  /\ \A f \in Files : f.kind \in {"month", "day", "part"}
<1>1. \A m \in Months : Monthly(m) \in Files /\ Monthly(m).kind = "month"
  BY DEF Files, MonthFiles, Monthly
<1>2. \A d \in Days : Daily(d) \in Files /\ Daily(d).kind = "day"
  BY DEF Files, DayFiles, Daily
<1>3. \A d \in Days, k \in 1..(Parts + 1) : Part(d, k) \in Files /\ Part(d, k).kind = "part"
  <2>1. ASSUME NEW d \in Days, NEW k \in 1..(Parts + 1)  PROVE Part(d, k) \in PartFiles
    BY DEF PartFiles
  <2> QED  BY <2>1 DEF Files, Part
<1>4. \A f \in Files : f.kind \in {"month", "day", "part"}
  BY DEF Files, MonthFiles, DayFiles, PartFiles, Monthly, Daily, Part
<1> QED  BY <1>1, <1>2, <1>3, <1>4

-----------------------------------------------------------------------------
\* What the steps have in common.

LEMMA DownloadKeeps ==
  ASSUME IInv, pc # "done", NEW f \in Files, cache[f] = None, Download(f),
         f.kind = "part" => day <= run.to /\ f = Part(day, seq),
         UNCHANGED <<remote, disk, run, loop, files>>
  PROVE  IInv'
<1>1. Typed'  BY DEF IInv, Typed, Download, remote, disk
<1>2. Cursors'  BY DEF IInv, Cursors, Download, Fetching, loop
<1>3. Sound'  BY DEF IInv, Download, Sound, disk
<1>4. CacheWhole'  BY DEF IInv, CacheWhole, remote, disk
<1>5. Returned'  BY DEF IInv, Returned, Download, disk
<1> QED  BY <1>1, <1>2, <1>3, <1>4, <1>5 DEF IInv

\* The part after one that exists is at most the one that cannot.
LEMMA NextPart ==
  ASSUME IInv, cache[Part(day, seq)] # None, day <= run.to
  PROVE  seq + 1 \in 1..(Parts + 1)
<1>1. day \in Nat /\ run.from \in Days /\ run.to \in Days /\ run.from <= day
  BY DEF IInv, Typed, Cursors
<1>2. day \in Days  BY <1>1, Between
<1>3. seq \in 1..(Parts + 1) /\ Parts \in Nat  BY FetchAssumption DEF IInv, Cursors
<1>4. Part(day, seq) \in Files  BY <1>2, <1>3, FileKinds
<1>5. archive[Part(day, seq)] # None  BY <1>4 DEF IInv, CacheWhole
<1>6. seq # Parts + 1  BY <1>2, <1>5 DEF IInv, Typed
<1> QED  BY <1>3, <1>6

LEMMA KeepKeeps ==
  ASSUME IInv, pc # "done", NEW f \in Files, cache[f] # None, Keep(f),
         f.kind = "part" => day <= run.to /\ f = Part(day, seq),
         UNCHANGED <<remote, disk, run, target>>
  PROVE  IInv'
<1>1. f.kind \in {"month", "day", "part"}  BY FileKinds
<1>2. pc' \in {"monthEnd", "day", "part"} /\ files' = Append(files, f) /\ month' = month
  BY <1>1 DEF Keep
<1>3. files \in Seq(Files)  BY DEF IInv, Typed
<1>4. Typed'  BY <1>2, <1>3 DEF IInv, Typed, remote, disk
<1>5. day \in Nat /\ run.from \in Nat /\ run.from <= day /\ month \in Months /\ seq \in 1..(Parts + 1)
  BY Calendar DEF IInv, Typed, Cursors
<1>6. day' \in Nat /\ run.from <= day'
  <2>1. day' \in {day, day + 1}  BY <1>1 DEF Keep
  <2> QED  BY <1>5, <2>1
<1>7. seq' \in 1..(Parts + 1)
  <2>1. CASE f.kind = "part"  BY <2>1, NextPart DEF Keep
  <2>2. CASE f.kind # "part"  BY <1>1, <1>5, <2>2 DEF Keep
  <2> QED  BY <2>1, <2>2
<1>8. Cursors'  BY <1>2, <1>5, <1>6, <1>7 DEF Cursors, Fetching
<1>9. Sound'  BY <1>2 DEF IInv, Sound, disk
<1>10. CacheWhole'  BY DEF IInv, CacheWhole, remote, disk
<1>11. Returned'
  <2>1. \A i \in 1..Len(files') : cache[files'[i]] # None
    BY <1>2, <1>3 DEF IInv, Returned
  <2> QED  BY <1>2, <2>1 DEF Returned, Fetching, disk
<1> QED  BY <1>4, <1>8, <1>9, <1>10, <1>11 DEF IInv

\* Going on without the file; the cache has it as before, or has lost an empty one.
LEMMA ResumeKeeps ==
  ASSUME IInv, Fetching, Resume(target),
         \/ UNCHANGED disk
         \/ pc = "converted" /\ cache' = [cache EXCEPT ![target] = None] /\ lossy' = lossy \ {target},
         UNCHANGED <<remote, run, month, target, files>>
  PROVE  IInv'
<1>1. target \in Files /\ target.kind \in {"month", "day", "part"} /\ files \in Seq(Files)
  BY FileKinds DEF IInv, Typed
<1>2. pc' \in {"dailies", "day", "part"}  BY <1>1 DEF Resume
<1>3. Typed'
  <2>1. None \in Content  BY DEF Content
  <2>2. cache' \in [Files -> Content]  BY <1>1, <2>1 DEF IInv, Typed, disk
  <2> QED  BY <1>2, <2>2 DEF IInv, Typed, remote, disk
<1>4. /\ day \in Nat /\ run.from \in Nat /\ run.from <= day /\ seq \in 1..(Parts + 1)
      /\ Parts \in Nat /\ month \in Months
  BY Calendar, FetchAssumption DEF IInv, Typed, Cursors, Fetching
<1>5. day' \in {day, day + 1} /\ seq' \in {seq, 1}  BY <1>1 DEF Resume
<1>6. Cursors'
  <2>1. day' \in Nat /\ run.from <= day' /\ seq' \in 1..(Parts + 1)  BY <1>4, <1>5
  <2> QED  BY <1>2, <1>4, <2>1 DEF Cursors, Fetching
<1>7. Sound'  BY <1>1, <1>2 DEF IInv, Typed, Sound, disk
<1>8. CacheWhole'  BY <1>1 DEF IInv, Typed, CacheWhole, remote, disk
<1>9. Returned'
  <2>1. \A i \in 1..Len(files) : files[i] \in Files /\ files[i] # target /\ cache[files[i]] # None
    BY <1>1 DEF IInv, Returned
  <2>2. \A i \in 1..Len(files) : cache'[files[i]] # None  BY <1>1, <2>1 DEF IInv, Typed, disk
  <2> QED  BY <1>2, <2>2 DEF Returned, Fetching
<1> QED  BY <1>3, <1>6, <1>7, <1>8, <1>9 DEF IInv

\* A step between the loops that touches neither the cursors of the parts nor the files.
LEMMA MovesOn ==
  ASSUME IInv, UNCHANGED <<remote, disk, run, seq, target, files>>,
         pc' \in {"dailies", "day", "monthEnd", "month", "done"},
         pc' # "done" => month' \in Months,
         day' \in Nat, run.from <= day'
  PROVE  IInv'
<1>1. Typed'  BY DEF IInv, Typed, remote, disk
<1>2. Cursors'  BY DEF IInv, Cursors, Fetching
<1>3. Sound'  BY DEF IInv, Sound, disk
<1>4. CacheWhole'  BY DEF IInv, CacheWhole, remote, disk
<1>5. Returned'  BY DEF IInv, Returned, Fetching, disk
<1> QED  BY <1>1, <1>2, <1>3, <1>4, <1>5 DEF IInv

-----------------------------------------------------------------------------
\* Every step.

LEMMA MissingKeeps == IInv /\ Missing => IInv'
  BY ResumeKeeps DEF Missing, Fetching, fetch

LEMMA AttemptFailsKeeps == IInv /\ AttemptFails => IInv'
<1> SUFFICES ASSUME IInv, AttemptFails PROVE IInv'  OBVIOUS
<1>1. pc = "attempt" /\ UNCHANGED <<remote, disk, run, month, mark, used, target, files>>
  BY DEF AttemptFails
<1>2. CASE UNCHANGED <<pc, day, seq>>
  BY <1>1, <1>2 DEF IInv, Typed, Cursors, Sound, CacheWhole, Returned, Fetching, remote, disk
<1>3. CASE Resume(target)  BY <1>1, <1>3, ResumeKeeps DEF Fetching
<1> QED  BY <1>2, <1>3 DEF AttemptFails

LEMMA ServedKeeps == IInv /\ Served => IInv'
  BY DEF Served, Available, IInv, Typed, Cursors, Sound, CacheWhole, Returned, Fetching, remote, disk, loop, fetch

LEMMA ConvertFailsKeeps == IInv /\ ConvertFails => IInv'
  BY ResumeKeeps DEF ConvertFails, Fetching, fetch

LEMMA ConvertKeeps == IInv /\ (Convert \/ ConvertSkips) => IInv'
<1> SUFFICES ASSUME IInv, Convert \/ ConvertSkips PROVE IInv'  OBVIOUS
<1>2. /\ target \in Files /\ cache \in [Files -> Content] /\ files \in Seq(Files) /\ lossy \in SUBSET Files
      /\ archive[target] \in SUBSET Days
  BY DEF IInv, Typed, Sound, Content, Convert, ConvertSkips
<1>1. PICK kept \in SUBSET archive[target] :
        /\ pc = "convert" /\ pc' = "converted" /\ target' = target
        /\ cache' = [cache EXCEPT ![target] = kept]
        /\ \/ kept = archive[target] /\ lossy' = lossy
           \/ lossy' = lossy \cup {target} /\ faulted' = TRUE
        /\ UNCHANGED <<remote, run, loop, files>>
  BY DEF Convert, ConvertSkips, fetch
<1>8. kept \in Content /\ kept # None /\ archive[target] # None
  BY <1>1, <1>2, FetchAssumption DEF Content
<1>3. Typed'  BY <1>1, <1>2, <1>8 DEF IInv, Typed, remote, disk
<1>4. Cursors'  BY <1>1 DEF IInv, Cursors, Fetching, loop
<1>5. Sound'  BY <1>1, <1>2, <1>8 DEF IInv, Sound
<1>6. CacheWhole'  BY <1>1, <1>2, <1>8 DEF IInv, CacheWhole, remote, disk
<1>7. Returned'
  <2>1. \A i \in 1..Len(files) : files[i] \in Files /\ files[i] # target /\ cache[files[i]] # None
    BY <1>1, <1>2 DEF IInv, Returned, Fetching
  <2>2. \A i \in 1..Len(files) : cache'[files[i]] # None  BY <1>1, <1>2, <1>8, <2>1
  <2> QED  BY <1>1, <2>1, <2>2 DEF Returned, Fetching
<1> QED  BY <1>3, <1>4, <1>5, <1>6, <1>7 DEF IInv

LEMMA TakeConvertedKeeps == IInv /\ TakeConverted => IInv'
<1> SUFFICES ASSUME IInv, TakeConverted PROVE IInv'  OBVIOUS
<1>1. pc = "converted" /\ Keep(target) /\ UNCHANGED <<remote, disk, run, target>>
  BY DEF TakeConverted, fetch
<1>2. target \in Files /\ cache[target] # None  BY <1>1 DEF IInv, Typed, Sound
<1>3. target.kind = "part" => day <= run.to /\ target = Part(day, seq)
  BY <1>1 DEF IInv, Cursors, Fetching
<1> QED  BY <1>1, <1>2, <1>3, KeepKeeps

LEMMA DropEmptyKeeps == IInv /\ DropEmpty => IInv'
  BY ResumeKeeps DEF DropEmpty, Fetching, fetch

LEMMA MonthStepsKeep ==
  ASSUME IInv, MonthCached \/ MonthDownload \/ MonthOpen \/ Dailies \/ DaysDone \/ MonthEnd
  PROVE  IInv'
<1>1. CASE MonthCached
  <2>1. pc = "month" /\ month \in Months  BY <1>1 DEF MonthCached, IInv, Cursors
  <2>2. Monthly(month) \in Files /\ Monthly(month).kind = "month"  BY <2>1, FileKinds
  <2> QED  BY <1>1, <2>1, <2>2, KeepKeeps DEF MonthCached, fetch
<1>2. CASE MonthDownload
  <2>1. pc = "month" /\ month \in Months  BY <1>2 DEF MonthDownload, IInv, Cursors
  <2>2. Monthly(month) \in Files /\ Monthly(month).kind = "month"  BY <2>1, FileKinds
  <2> QED  BY <1>2, <2>1, <2>2, DownloadKeeps DEF MonthDownload
<1>3. CASE MonthOpen \/ DaysDone
  BY <1>3, MovesOn DEF MonthOpen, DaysDone, IInv, Cursors, loop, fetch
<1>4. CASE Dailies
  <2>1. PICK d \in Window(month) : day' = d  BY <1>4 DEF Dailies
  <2>2. month \in Months /\ d \in Month[month] /\ run.from <= d
    BY <1>4, <2>1, Calendar DEF Dailies, Window, IInv, Cursors, Typed
  <2>3. d \in Nat  BY <2>2, Calendar DEF Days
  <2> QED  BY <1>4, <2>1, <2>2, <2>3, MovesOn DEF Dailies, fetch
<1>5. CASE MonthEnd
  <2>1. month \in Months /\ run.to \in Days /\ day \in Nat /\ run.from <= day
    BY <1>5 DEF MonthEnd, IInv, Cursors, Typed
  <2>2. LastMonth \in Months  BY <2>1, Calendar DEF LastMonth
  <2>3. month < LastMonth => month + 1 \in Months  BY <2>1, <2>2, Calendar
  <2>4. pc' \in {"month", "done"} /\ (pc' = "month" => month < LastMonth) /\ month' = month + 1
    BY <1>5 DEF MonthEnd, NextMonth
  <2> QED  BY <1>5, <2>1, <2>3, <2>4, MovesOn DEF MonthEnd, fetch
<1> QED  BY <1>1, <1>2, <1>3, <1>4, <1>5

LEMMA DayStepsKeep == ASSUME IInv, DayCached \/ DayDownload  PROVE IInv'
<1>1. pc = "day" /\ day \in Window(month)  BY DEF DayCached, DayDownload
<1>2. day \in Days  BY <1>1 DEF Window, Days, IInv, Cursors
<1>3. Daily(day) \in Files /\ Daily(day).kind = "day"  BY <1>2, FileKinds
<1>4. CASE DayCached  BY <1>1, <1>3, <1>4, KeepKeeps DEF DayCached, fetch
<1>5. CASE DayDownload  BY <1>1, <1>3, <1>5, DownloadKeeps DEF DayDownload
<1> QED  BY <1>4, <1>5

LEMMA PartStepsKeep == ASSUME IInv, PartCached \/ PartDownload \/ PartsDone  PROVE IInv'
<1>1. CASE PartsDone  BY <1>1, MovesOn DEF PartsDone, IInv, Cursors, loop, fetch
<1>2. CASE PartCached \/ PartDownload
  <2>1. pc = "part" /\ day <= run.to  BY <1>2 DEF PartCached, PartDownload
  <2>2. day \in Nat /\ run.from \in Days /\ run.to \in Days /\ run.from <= day /\ seq \in 1..(Parts + 1)
    BY DEF IInv, Typed, Cursors
  <2>3. day \in Days  BY <2>1, <2>2, Between
  <2>4. Part(day, seq) \in Files  BY <2>2, <2>3, FileKinds
  <2>5. CASE PartCached  BY <2>1, <2>4, <2>5, KeepKeeps DEF PartCached, fetch
  <2>6. CASE PartDownload  BY <2>1, <2>4, <2>6, DownloadKeeps DEF PartDownload
  <2> QED  BY <1>2, <2>5, <2>6
<1> QED  BY <1>1, <1>2

LEMMA StartKeeps == ASSUME IInv, NEW from \in Days, NEW to \in Days, Start(from, to)  PROVE IInv'
<1>1. /\ pc' \in {"part", "month"} /\ files' = <<>> /\ seq' = 1 /\ day' = from
      /\ run' = [from |-> from, to |-> to, day |-> today] /\ month' = MonthOf(from)
      /\ UNCHANGED <<remote, disk, target>>
  BY DEF Start, fetch
<1>2. Typed'  BY <1>1 DEF IInv, Typed, remote, disk
<1>3. Cursors'
  BY <1>1, Calendar, FetchAssumption DEF Cursors, Fetching
<1> QED  BY <1>1, <1>2, <1>3 DEF IInv, Sound, CacheWhole, Returned, Fetching, remote, disk

LEMMA KillKeeps == IInv /\ Kill => IInv'
<1> SUFFICES ASSUME IInv, Kill PROVE IInv'  OBVIOUS
<1>1. /\ pc' = "idle" /\ run' = NoRun /\ month' = 1 /\ day' = 1 /\ seq' = 1
      /\ target' = Monthly(1) /\ files' = <<>> /\ UNCHANGED <<remote, disk>>
  BY DEF Kill
<1>2. Monthly(1) \in Files /\ NoRun \in [from : Days, to : Days, day : Nat] /\ NoRun.from = 1
  BY Calendar, FileKinds DEF NoRun
<1>3. Typed'  BY <1>1, <1>2 DEF IInv, Typed, remote, disk
<1>4. Cursors'  BY <1>1, <1>2, Calendar, FetchAssumption DEF Cursors, Fetching
<1> QED  BY <1>1, <1>3, <1>4 DEF IInv, Sound, CacheWhole, Returned, Fetching, remote, disk

LEMMA TickKeeps == IInv /\ Tick => IInv'
  BY DEF Tick, IInv, Typed, Cursors, Sound, CacheWhole, Returned, Fetching, disk, loop, fetch, told

LEMMA NextKeeps == IInv /\ [Next]_vars => IInv'
<1> SUFFICES ASSUME IInv, [Next]_vars PROVE IInv'  OBVIOUS
<1>1. CASE Step
  BY <1>1, MissingKeeps, AttemptFailsKeeps, ServedKeeps, ConvertFailsKeeps, ConvertKeeps,
     TakeConvertedKeeps, DropEmptyKeeps, MonthStepsKeep, DayStepsKeep, PartStepsKeep DEF Step
<1>2. CASE Kill \/ Tick  BY <1>2, KillKeeps, TickKeeps
<1>3. CASE \E from, to \in Days : from <= to /\ Start(from, to)  BY <1>3, StartKeeps
<1>4. CASE UNCHANGED vars
  BY <1>4 DEF vars, remote, disk, loop, fetch, IInv, Typed, Cursors, Sound, CacheWhole, Returned, Fetching, told
<1> QED  BY <1>1, <1>2, <1>3, <1>4 DEF Next

LEMMA InitHolds == Init => IInv
<1> SUFFICES ASSUME Init PROVE IInv  OBVIOUS
<1>1. archive \in [Files -> Content] /\ \A d \in Days : archive[Part(d, Parts + 1)] = None
  BY FetchAssumption DEF Init
<1>2. Monthly(1) \in Files /\ NoRun \in [from : Days, to : Days, day : Nat] /\ NoRun.from = 1
  BY Calendar, FileKinds DEF NoRun
<1>3. cache \in [Files -> Content]
  <2>1. None \in Content  BY DEF Content
  <2> QED  BY <2>1 DEF Init
<1>4. Typed  BY <1>1, <1>2, <1>3 DEF Init, Typed
<1>5. Cursors  BY <1>2, Calendar, FetchAssumption DEF Init, Cursors, Fetching
<1> QED  BY <1>4, <1>5 DEF Init, IInv, Sound, CacheWhole, Returned, Fetching

-----------------------------------------------------------------------------
\* The theorems.

\* The loops stay within the months, days and parts there are, what is renamed
\* exists, and nothing that is downloaded has been returned already.
THEOREM FetchInductive == Spec => []IInv
  BY InitHolds, NextKeeps, PTL DEF Spec

\* A .ticks file holds nothing but what its archive has, and all of it unless its
\* own conversion passed over a member or a chunk it could not read, whatever
\* failed, was cut short, retried or killed (common.rs:585-641).
THEOREM FetchCacheWhole == Spec => []CacheWhole
<1>1. IInv => CacheWhole  BY DEF IInv
<1> QED  BY <1>1, FetchInductive, PTL

\* So does every file a task returns: none is gone, none is of an archive that
\* never was, and one that lacks something is one whose conversion skipped it, in
\* this run, which then counts as one with a failure, or in an earlier one
\* (common.rs:747-753, 777, bitget.rs:102).
ReturnedIsWhole ==
  \A i \in 1..Len(files) :
    /\ cache[files[i]] # None /\ archive[files[i]] # None /\ cache[files[i]] \subseteq archive[files[i]]
    /\ cache[files[i]] # archive[files[i]] => files[i] \in lossy

THEOREM FetchReturnsWhole == Spec => []ReturnedIsWhole
<1>1. IInv => ReturnedIsWhole
  <2> SUFFICES ASSUME IInv, NEW i \in 1..Len(files)
               PROVE  /\ cache[files[i]] # None /\ archive[files[i]] # None
                      /\ cache[files[i]] \subseteq archive[files[i]]
                      /\ cache[files[i]] # archive[files[i]] => files[i] \in lossy
    BY DEF ReturnedIsWhole
  <2>1. files[i] \in Files /\ cache[files[i]] # None  BY DEF IInv, Typed, Returned
  <2> QED  BY <2>1 DEF IInv, CacheWhole
<1> QED  BY <1>1, FetchInductive, PTL

-----------------------------------------------------------------------------
(* Every month of the window is accounted for: what an undisturbed task on *)
(* monthly and daily archives returns.                                     *)

\* What the months of the window that are through promise.
Complete(m) ==
  /\ Obtainable(m) \subseteq Obtained(m)
  /\ m \in warned <=> (Closed(m) /\ Obtained(m) = {})

\* Nothing failed, and neither an incomplete file nor an empty one is kept.
Clean == ~faulted /\ lossy = {} /\ \A f \in Files : cache[f] = {} => Fetching /\ f = target

InDays == pc = "day" \/ (Fetching /\ target.kind = "day")

\* Of month the daily archives are what counts.
NoMonthly == Closed(month) => archive[Monthly(month)] \in {None, {}}
DayTaken(d) == d < run.day /\ archive[Daily(d)] \notin {None, {}} => Daily(d) \in Range(files)

\* Where a task on monthly and daily archives stands.
Placed ==
  /\ run.day <= today /\ month \in Nat /\ pc # "part"
  /\ Fetching => \/ target = Monthly(month) /\ Closed(month)
                 \/ target = Daily(day) /\ day \in Window(month)
  /\ InDays => \E lo \in Window(month) : lo <= day
  /\ used => pc = "monthEnd" /\ Closed(month) /\ Monthly(month) \in Range(files)
  /\ pc = "done" => month > LastMonth

\* Every file it returns is of one month: of this one from the mark on.
Filed ==
  /\ mark \in 0..Len(files)
  /\ \A i \in 1..Len(files) : \E k \in Months :
       /\ Covers(files[i]) \subseteq Month[k]
       /\ IF i <= mark THEN k < month ELSE k = month
  /\ \A m \in warned : m \in Nat /\ m < month

\* What it has dealt with.
Accounted ==
  /\ \A m \in MonthOf(run.from)..(month - 1) : Complete(m)
  /\ pc = "dailies" \/ InDays \/ (pc = "monthEnd" /\ ~used) => NoMonthly
  /\ InDays => \A d \in Window(month) : d < day => DayTaken(d)
  /\ pc = "monthEnd" /\ ~used => \A d \in Window(month) : DayTaken(d)

Whole == venue = "months" /\ pc # "idle" => Placed /\ Filed /\ (Clean => Accounted)

\* The months follow each other: no days of two of them.
LEMMA OneMonth ==
  ASSUME NEW m \in Months, NEW n \in Months, NEW S, S # {}, S \subseteq Month[m], S \subseteq Month[n]
  PROVE  m = n
<1>1. PICK x \in S : TRUE  OBVIOUS
<1>2. x \in Month[m] /\ x \in Month[n] /\ x \in Nat  BY <1>1, Calendar DEF Days
<1>3. m \in Nat /\ n \in Nat  BY Calendar
<1>4. ~(m < n) /\ ~(n < m)  BY <1>2, FetchAssumption
<1> QED  BY <1>3, <1>4

\* A month has no day missing.
LEMMA Gapless ==
  ASSUME NEW m \in Months, NEW d \in Month[m], NEW e \in Month[m], NEW x \in Nat, d <= x, x <= e
  PROVE  x \in Month[m]
<1>1. d \in Days /\ e \in Days /\ d \in Nat /\ e \in Nat  BY Calendar DEF Days
<1>2. x \in Days  BY <1>1, Between
<1>3. PICK n \in Months : x \in Month[n]  BY <1>2 DEF Days
<1>4. m \in Nat /\ n \in Nat  BY Calendar
<1>5. ~(n < m)
  <2> SUFFICES ASSUME n < m PROVE FALSE  OBVIOUS
  <2>1. x < d  BY <1>3, FetchAssumption
  <2> QED  BY <2>1, <1>1
<1>6. ~(m < n)
  <2> SUFFICES ASSUME m < n PROVE FALSE  OBVIOUS
  <2>1. e < x  BY <1>3, FetchAssumption
  <2> QED  BY <2>1, <1>1
<1> QED  BY <1>3, <1>4, <1>5, <1>6

LEMMA Covering ==
  /\ \A m \in Months : Covers(Monthly(m)) = Month[m]
  /\ \A d \in Days : Covers(Daily(d)) = {d}
  /\ \A f \in Files : Covers(f) # {}
<1>1. \A m \in Months : Covers(Monthly(m)) = Month[m]  BY DEF Covers, Monthly
<1>2. \A d \in Days : Covers(Daily(d)) = {d}  BY DEF Covers, Daily
<1>3. \A d \in Days, k \in 1..(Parts + 1) : Covers(Part(d, k)) = {d}  BY DEF Covers, Part
<1>4. \A m \in Months : Month[m] # {}  BY FetchAssumption
<1>5. ASSUME NEW f \in Files  PROVE Covers(f) # {}
  BY <1>1, <1>2, <1>3, <1>4 DEF Files, MonthFiles, DayFiles, PartFiles
<1> QED  BY <1>1, <1>2, <1>5

LEMMA Listed ==
  ASSUME IInv
  PROVE  /\ files \in Seq(Files) /\ Len(files) \in Nat
         /\ Range(files) = {files[i] : i \in 1..Len(files)}
         /\ \A f \in Range(files) : f \in Files /\ cache[f] # None
<1>1. files \in Seq(Files) /\ Len(files) \in Nat  BY DEF IInv, Typed
<1>2. Range(files) = {files[i] : i \in 1..Len(files)}  BY <1>1 DEF Range
<1> QED  BY <1>1, <1>2 DEF IInv, Returned

LEMMA RangeAppended ==
  ASSUME IInv, NEW f \in Files, files' = Append(files, f)
  PROVE  /\ Range(files') = Range(files) \cup {f} /\ Len(files') = Len(files) + 1
         /\ \A i \in 1..Len(files) : files'[i] = files[i]
         /\ files'[Len(files) + 1] = f
<1>1. files \in Seq(Files) /\ Len(files) \in Nat  BY Listed
<1>2. /\ files' \in Seq(Files) /\ Len(files') = Len(files) + 1
      /\ \A i \in 1..Len(files) : files'[i] = files[i]
      /\ files'[Len(files) + 1] = f
  BY <1>1
<1>3. Range(files') = {files'[i] : i \in 1..Len(files')}  BY <1>2 DEF Range
<1>4. 1..Len(files') = 1..Len(files) \cup {Len(files) + 1}  BY <1>1, <1>2
<1> QED  BY <1>1, <1>2, <1>3, <1>4, Listed

\* What was obtained of a month stays, whatever is done for another one.
LEMMA ObtainedKept ==
  ASSUME IInv, files' = files, \A i \in 1..Len(files) : cache'[files[i]] = cache[files[i]], NEW m
  PROVE  Obtained(m)' = Obtained(m)
<1>1. \A f \in Range(files) : cache'[f] = cache[f]  BY Listed
<1> QED  BY <1>1 DEF Obtained

LEMMA ObtainedAppended ==
  ASSUME IInv, cache' = cache, NEW f \in Files, files' = Append(files, f),
         NEW k \in Months, Covers(f) \subseteq Month[k], NEW m \in Months, m # k
  PROVE  Obtained(m)' = Obtained(m)
<1>1. ~(Covers(f) \subseteq Month[m])  BY Covering, OneMonth
<1>2. {g \in Range(files') : Covers(g) \subseteq Month[m]} = {g \in Range(files) : Covers(g) \subseteq Month[m]}
  BY <1>1, RangeAppended
<1> QED  BY <1>2 DEF Obtained

LEMMA CompleteKept ==
  ASSUME UNCHANGED <<archive, run, warned>>, NEW m, Obtained(m)' = Obtained(m), Complete(m)
  PROVE  Complete(m)'
<1>1. Obtainable(m)' = Obtainable(m)  BY DEF Obtainable, Closed, Window
<1>2. Closed(m)' = Closed(m)  BY DEF Closed
<1> QED  BY <1>1, <1>2 DEF Complete

LEMMA WindowMonths == ASSUME IInv  PROVE MonthOf(run.from) \in Nat /\ LastMonth \in Nat
<1>1. run.from \in Days /\ run.to \in Days  BY DEF IInv, Typed
<1>2. MonthOf(run.from) \in Months /\ MonthOf(run.to) \in Months  BY <1>1, Calendar
<1> QED  BY <1>2, Calendar DEF LastMonth

\* Where the file is not downloaded any more.
LEMMA Resumed == ASSUME IInv, Resume(target)  PROVE ~Fetching'
<1>1. target.kind \in {"month", "day", "part"}  BY FileKinds DEF IInv, Typed
<1>2. pc' \in {"dailies", "day", "part"}  BY <1>1 DEF Resume
<1> QED  BY <1>2 DEF Fetching

\* The months that are through are months.
LEMMA Through ==
  ASSUME IInv, pc # "done", NEW m \in MonthOf(run.from)..(month - 1)
  PROVE  m \in Months /\ m \in Nat /\ m # month
<1>1. run.from \in Days /\ month \in Months  BY DEF IInv, Typed, Cursors
<1>2. MonthOf(run.from) \in 1..Len(Month) /\ month \in 1..Len(Month) /\ Len(Month) \in Nat
  BY <1>1, Calendar
<1>3. m \in 1..Len(Month) /\ m # month  BY <1>2
<1> QED  BY <1>3, Calendar

-----------------------------------------------------------------------------
\* What the steps have in common.

LEMMA DownloadWhole ==
  ASSUME IInv, Placed, Filed, Clean => Accounted, pc \in {"month", "day"}, NEW f \in Files, cache[f] = None,
         Download(f), UNCHANGED <<remote, disk, run, loop, files, told>>,
         \/ pc = "month" /\ f = Monthly(month) /\ Closed(month)
         \/ pc = "day" /\ f = Daily(day) /\ day \in Window(month)
  PROVE  Placed' /\ Filed' /\ (Clean => Accounted)'
<1>1. pc' = "attempt" /\ target' = f /\ ~Fetching /\ Fetching'
  BY DEF Download, Fetching
<1>2. f.kind \in {"month", "day"} /\ (f.kind = "day" => pc = "day")
  BY DEF Monthly, Daily
<1>3. Window(month)' = Window(month) /\ Closed(month)' = Closed(month)
  BY DEF Window, Closed, loop
<1>4. InDays' => InDays  BY <1>1, <1>2 DEF InDays
<1>5. Placed'
  BY <1>1, <1>3, <1>4 DEF Placed, loop, remote, disk
<1>6. Filed'  BY DEF Filed, loop, told
<1>7. ASSUME Clean'  PROVE Clean
  <2>1. None # {}  BY FetchAssumption
  <2> QED  BY <1>1, <1>7, <2>1 DEF Clean, told, disk
<1>8. ASSUME Accounted  PROVE Accounted'
  <2>1. ASSUME NEW m \in MonthOf(run.from)..(month - 1)  PROVE Complete(m)'
    BY <1>8, <2>1, ObtainedKept, CompleteKept DEF Accounted, remote, disk, told
  <2>2. InDays' => NoMonthly'  BY <1>4, <1>8, <1>3 DEF Accounted, NoMonthly, loop, remote, disk
  <2>3. \A d : DayTaken(d)' = DayTaken(d)  BY DEF DayTaken, remote, disk
  <2> QED  BY <1>1, <1>3, <1>4, <1>8, <2>1, <2>2, <2>3 DEF Accounted, loop
<1> QED  BY <1>5, <1>6, <1>7, <1>8

LEMMA KeepWhole ==
  ASSUME IInv, Placed, Filed, Clean => Accounted, NEW f \in Files,
         pc \in {"month", "day", "converted"}, Keep(f),
         UNCHANGED <<remote, disk, run, target, told>>,
         pc = "converted" => cache[target] # {},
         \/ f = Monthly(month) /\ Closed(month)
         \/ f = Daily(day) /\ day \in Window(month) /\ InDays
  PROVE  Placed' /\ Filed' /\ (Clean => Accounted)'
<1>1. files' = Append(files, f) /\ month' = month /\ mark' = mark  BY DEF Keep
<1>2. month \in Months /\ month \in Nat /\ day \in Nat /\ ~used
  BY Calendar DEF IInv, Cursors, Placed
<1>3. Covers(f) \subseteq Month[month]
  BY <1>2, Covering DEF Window, Days
<1>4. /\ Range(files') = Range(files) \cup {f} /\ Len(files') = Len(files) + 1 /\ Len(files) \in Nat
      /\ \A i \in 1..Len(files) : files'[i] = files[i]
      /\ files'[Len(files) + 1] = f
  BY <1>1, RangeAppended, Listed
<1>5. \/ f = Monthly(month) /\ Closed(month) /\ pc' = "monthEnd" /\ used' /\ day' = day
      \/ f = Daily(day) /\ day \in Window(month) /\ InDays /\ pc' = "day" /\ ~used' /\ day' = day + 1
  <2>1. Monthly(month).kind = "month" /\ Daily(day).kind = "day"  BY DEF Monthly, Daily
  <2>2. CASE f = Monthly(month) /\ Closed(month)
    <3>1. f.kind = "month"  BY <2>1, <2>2
    <3> QED  BY <2>2, <3>1 DEF Keep
  <2>3. CASE f = Daily(day) /\ day \in Window(month) /\ InDays
    <3>1. f.kind = "day"  BY <2>1, <2>3
    <3> QED  BY <2>3, <3>1, <1>2 DEF Keep
  <2> QED  BY <2>2, <2>3
<1>6. Window(month)' = Window(month) /\ Closed(month)' = Closed(month) /\ ~Fetching'
  BY <1>1, <1>5 DEF Window, Closed, Fetching
<1>7. Placed'
  <2>1. InDays' => \E lo \in Window(month) : lo <= day'
    <3> SUFFICES ASSUME InDays' PROVE \E lo \in Window(month) : lo <= day'  OBVIOUS
    <3>1. InDays /\ day' = day + 1  BY <1>5, <1>6 DEF InDays
    <3>2. PICK lo \in Window(month) : lo <= day  BY <3>1 DEF Placed
    <3>3. lo \in Nat  BY <1>2, <3>2, Calendar DEF Window, Days
    <3> QED  BY <1>2, <3>1, <3>2, <3>3
  <2> QED  BY <1>1, <1>2, <1>4, <1>5, <1>6, <2>1 DEF Placed, remote, disk
<1>8. Filed'
  <2>1. mark \in Nat /\ mark <= Len(files)  BY <1>4 DEF Filed
  <2>2. ASSUME NEW i \in 1..Len(files')
        PROVE  \E k \in Months : Covers(files'[i]) \subseteq Month[k] /\ IF i <= mark THEN k < month ELSE k = month
    <3>1. CASE i \in 1..Len(files)  BY <3>1, <1>4 DEF Filed
    <3>2. CASE i = Len(files) + 1  BY <3>2, <1>2, <1>3, <1>4, <2>1
    <3> QED  BY <1>4, <3>1, <3>2
  <2>3. warned' = warned /\ mark' \in 0..Len(files')  BY <1>1, <1>4, <2>1 DEF told
  <2>4. \A m \in warned : m \in Nat /\ m < month  BY DEF Filed
  <2> QED  BY <1>1, <2>2, <2>3, <2>4 DEF Filed
<1>9. Clean' => Clean  BY <1>6 DEF Clean, told, disk
<1>10. ASSUME Accounted  PROVE Accounted'
  <2>1. ASSUME NEW m \in MonthOf(run.from)..(month - 1)  PROVE Complete(m)'
    <3>1. m \in Months /\ m # month  BY Through
    <3>2. Obtained(m)' = Obtained(m)  BY <3>1, <1>1, <1>2, <1>3, ObtainedAppended DEF disk
    <3> QED  BY <3>2, <1>10, CompleteKept DEF Accounted, remote, disk, told
  <2>2. InDays' => InDays /\ f = Daily(day) /\ day' = day + 1  BY <1>5, <1>6 DEF InDays
  <2>3. InDays' => NoMonthly'  BY <2>2, <1>1, <1>6, <1>10 DEF Accounted, NoMonthly, remote, disk
  <2>4. ASSUME InDays', NEW d \in Window(month), d < day'  PROVE DayTaken(d)'
    <3>1. d \in Nat  BY <1>2, Calendar DEF Window, Days
    <3>2. CASE d = day  BY <3>2, <2>2, <2>4, <1>4 DEF DayTaken
    <3>3. CASE d < day
      <4>1. DayTaken(d)  BY <3>3, <2>2, <2>4, <1>10 DEF Accounted
      <4> QED  BY <4>1, <1>4 DEF DayTaken, remote, disk
    <3> QED  BY <3>1, <3>2, <3>3, <2>2, <2>4, <1>2
  <2> QED  BY <1>1, <1>5, <1>6, <2>1, <2>3, <2>4 DEF Accounted
<1> QED  BY <1>7, <1>8, <1>9, <1>10

\* Going on without the file, where the archive had nothing or something failed.
LEMMA ResumeWhole ==
  ASSUME IInv, Placed, Filed, Clean => Accounted, Fetching, Resume(target),
         \/ UNCHANGED disk
         \/ cache' = [cache EXCEPT ![target] = None] /\ lossy' = lossy \ {target},
         UNCHANGED <<remote, run, month, mark, used, target, files, warned>>,
         Clean' => /\ Clean
                   /\ target.kind = "month" => archive[target] \in {None, {}}
                   /\ target.kind = "day" => DayTaken(day)
  PROVE  Placed' /\ Filed' /\ (Clean => Accounted)'
<1>1. month \in Months /\ month \in Nat /\ day \in Nat /\ ~used /\ pc # "done" /\ pc # "dailies"
  BY Calendar DEF IInv, Cursors, Placed, Fetching
<1>2. \/ target = Monthly(month) /\ target.kind = "month" /\ pc' = "dailies" /\ day' = day
      \/ target = Daily(day) /\ target.kind = "day" /\ day \in Window(month) /\ pc' = "day" /\ day' = day + 1
  <2>1. Monthly(month).kind = "month" /\ Daily(day).kind = "day"  BY DEF Monthly, Daily
  <2>2. target = Monthly(month) \/ (target = Daily(day) /\ day \in Window(month))  BY DEF Placed
  <2>3. CASE target = Monthly(month)
    <3>1. target.kind = "month"  BY <2>1, <2>3
    <3> QED  BY <2>3, <3>1 DEF Resume
  <2>4. CASE target = Daily(day) /\ day \in Window(month)
    <3>1. target.kind = "day"  BY <2>1, <2>4
    <3> QED  BY <2>4, <3>1 DEF Resume
  <2> QED  BY <2>2, <2>3, <2>4
<1>3. Window(month)' = Window(month) /\ Closed(month)' = Closed(month) /\ ~Fetching'
  BY <1>2 DEF Window, Closed, Fetching
<1>4. InDays' => InDays /\ day' = day + 1  BY <1>2, <1>3 DEF InDays
<1>5. Placed'
  <2>1. InDays' => \E lo \in Window(month) : lo <= day'
    <3> SUFFICES ASSUME InDays' PROVE \E lo \in Window(month) : lo <= day'  OBVIOUS
    <3>1. PICK lo \in Window(month) : lo <= day  BY <1>4 DEF Placed
    <3>2. lo \in Nat  BY <1>1, <3>1, Calendar DEF Window, Days
    <3> QED  BY <1>1, <1>4, <3>1, <3>2
  <2> QED  BY <1>1, <1>2, <1>3, <2>1 DEF Placed, remote, disk
<1>6. Filed'  BY DEF Filed
<1>7. ASSUME Clean'  PROVE Accounted'
  <2>1. Accounted  BY <1>7
  <2>2. \A i \in 1..Len(files) : cache'[files[i]] = cache[files[i]]
    <3>1. \A i \in 1..Len(files) : files[i] \in Files /\ files[i] # target  BY Listed DEF IInv, Returned
    <3>2. cache \in [Files -> Content]  BY DEF IInv, Typed
    <3> QED  BY <3>1, <3>2 DEF disk
  <2>3. ASSUME NEW m \in MonthOf(run.from)..(month - 1)  PROVE Complete(m)'
    BY <2>1, <2>2, <2>3, ObtainedKept, CompleteKept DEF Accounted, remote, disk
  <2>4. NoMonthly'
    <3>1. CASE target = Monthly(month)  BY <3>1, <1>7, <1>2 DEF NoMonthly, remote, disk, Monthly
    <3>2. CASE target.kind = "day"  BY <3>2, <2>1, <1>3 DEF Accounted, InDays, NoMonthly, remote, disk
    <3> QED  BY <1>2, <3>1, <3>2
  <2>5. \A d : DayTaken(d)' = DayTaken(d)  BY DEF DayTaken, remote, disk
  <2>6. ASSUME InDays', NEW d \in Window(month), d < day'  PROVE DayTaken(d)'
    <3>1. d \in Nat  BY <1>1, Calendar DEF Window, Days
    <3>2. target.kind = "day"  BY <1>2, <1>3, <2>6 DEF InDays
    <3>3. CASE d = day  BY <3>2, <3>3, <1>7, <2>5
    <3>4. CASE d < day  BY <3>4, <1>4, <2>1, <2>5, <2>6 DEF Accounted
    <3> QED  BY <3>1, <3>3, <3>4, <1>1, <1>4, <2>6
  <2> QED  BY <1>2, <1>3, <2>3, <2>4, <2>6 DEF Accounted
<1> QED  BY <1>5, <1>6, <1>7

\* A step that stays where it is.
LEMMA StaysWhole ==
  ASSUME IInv, Placed, Filed, Clean => Accounted, pc # "idle", Fetching, Fetching',
         UNCHANGED <<venue, archive, run, loop, target, files, warned>>, run.day <= today',
         \/ UNCHANGED <<disk, faulted>>
         \/ faulted' = TRUE
         \/ UNCHANGED <<faulted, lossy>> /\ cache' = [cache EXCEPT ![target] = archive[target]]
  PROVE  Placed' /\ Filed' /\ (Clean => Accounted)'
<1>1. /\ Window(month)' = Window(month) /\ Closed(month)' = Closed(month) /\ InDays' = InDays
      /\ pc \notin {"dailies", "monthEnd", "done"} /\ pc' \notin {"dailies", "monthEnd", "done", "part"}
  BY DEF Window, Closed, InDays, Fetching, loop
<1>2. Placed'  BY <1>1 DEF Placed, loop
<1>3. Filed'  BY DEF Filed, loop
<1>4. ASSUME Clean'  PROVE Accounted'
  <2>1. lossy' = lossy /\ (UNCHANGED cache \/ cache' = [cache EXCEPT ![target] = archive[target]])  BY <1>4 DEF Clean, disk
  <2>2. cache \in [Files -> Content] /\ ~faulted  BY <1>4 DEF IInv, Typed, Clean
  <2>3. \A f \in Files : f # target => cache'[f] = cache[f]  BY <2>1, <2>2 DEF disk
  <2>4. Clean  BY <1>4, <2>1, <2>2, <2>3 DEF Clean, disk
  <2>5. \A i \in 1..Len(files) : cache'[files[i]] = cache[files[i]]
    BY <2>3, Listed DEF IInv, Returned
  <2>6. ASSUME NEW m \in MonthOf(run.from)..(month - 1)  PROVE Complete(m)'
    BY <2>4, <2>5, <2>6, ObtainedKept, CompleteKept DEF Accounted
  <2>7. \A d : DayTaken(d)' = DayTaken(d)  BY DEF DayTaken
  <2>8. NoMonthly' = NoMonthly  BY <1>1 DEF NoMonthly, loop
  <2> QED  BY <1>1, <2>4, <2>6, <2>7, <2>8 DEF Accounted, loop
<1> QED  BY <1>2, <1>3, <1>4

-----------------------------------------------------------------------------
\* Every step, of a task on monthly and daily archives.

LEMMA MissingWhole ==
  ASSUME IInv, Placed, Filed, Clean => Accounted, Missing
  PROVE  Placed' /\ Filed' /\ (Clean => Accounted)'
<1>1. /\ pc = "attempt" /\ Fetching /\ ~Available(target) /\ Resume(target)
      /\ UNCHANGED <<remote, disk, run, month, mark, used, target, files, warned, faulted>>
  BY DEF Missing, Fetching, fetch, told
<1>2. ~Fetching'  BY <1>1, Resumed
<1>3. Clean' => Clean  BY <1>1, <1>2 DEF Clean, disk
<1>4. today \in Nat /\ run.day \in Nat /\ run.day <= today /\ month \in Months /\ day \in Nat
  BY <1>1 DEF IInv, Typed, Placed, Cursors
<1>5. target.kind = "month" => archive[target] \in {None, {}}
  <2> SUFFICES ASSUME target.kind = "month", archive[target] # None PROVE FALSE  OBVIOUS
  <2>1. target = Monthly(month) /\ Closed(month)  BY <1>1 DEF Placed, Daily
  <2>2. PICK d \in Covers(target) : ~(d < today)  BY <1>1 DEF Available
  <2>3. d \in Month[month] /\ d \in Nat  BY <1>4, <2>1, <2>2, Covering, Calendar DEF Days
  <2>4. d < run.day  BY <2>1, <2>3 DEF Closed
  <2> QED  BY <1>4, <2>2, <2>3, <2>4
<1>6. target.kind = "day" => DayTaken(day)
  <2> SUFFICES ASSUME target.kind = "day", day < run.day, archive[Daily(day)] # None PROVE FALSE
    BY DEF DayTaken
  <2>1. target = Daily(day) /\ day \in Window(month)  BY <1>1 DEF Placed, Monthly
  <2>2. Covers(target) = {day}  BY <1>4, <2>1, Covering DEF Window, Days
  <2>3. ~(day < today)  BY <1>1, <2>1, <2>2 DEF Available
  <2> QED  BY <1>4, <2>3
<1> QED  BY <1>1, <1>3, <1>5, <1>6, ResumeWhole

LEMMA ConvertingWhole ==
  ASSUME IInv, Placed, Filed, Clean => Accounted, Served \/ Convert \/ ConvertSkips \/ AttemptFails \/ ConvertFails
  PROVE  Placed' /\ Filed' /\ (Clean => Accounted)'
<1>1. run.day <= today  BY DEF Placed
<1>2. CASE Served
  BY <1>1, <1>2, StaysWhole DEF Served, Fetching, remote, disk, loop, fetch, told
<1>3. CASE Convert
  BY <1>1, <1>3, StaysWhole DEF Convert, Fetching, remote, disk, loop, fetch, told
<1>6. CASE ConvertSkips
  BY <1>1, <1>6, StaysWhole DEF ConvertSkips, Fetching, remote, disk, loop, fetch, told
<1>4. CASE ConvertFails
  BY <1>4, ResumeWhole DEF ConvertFails, Fetching, fetch, Clean
<1>5. CASE AttemptFails
  <2>1. /\ pc = "attempt" /\ Fetching /\ faulted' = TRUE
        /\ UNCHANGED <<remote, disk, run, month, mark, used, target, files, warned>>
    BY <1>5 DEF AttemptFails, Fetching
  <2>2. CASE Resume(target)  BY <2>1, <2>2, ResumeWhole DEF Clean
  <2>3. CASE UNCHANGED <<pc, day, seq>>
    BY <1>1, <2>1, <2>3, StaysWhole DEF Fetching, remote, disk, loop
  <2> QED  BY <1>5, <2>2, <2>3 DEF AttemptFails
<1> QED  BY <1>2, <1>3, <1>4, <1>5, <1>6

LEMMA ConvertedWhole ==
  ASSUME IInv, Placed, Filed, Clean => Accounted, TakeConverted \/ DropEmpty
  PROVE  Placed' /\ Filed' /\ (Clean => Accounted)'
<1>1. pc = "converted" /\ Fetching /\ UNCHANGED <<remote, run, target, warned>>
  BY DEF TakeConverted, DropEmpty, Fetching, fetch, told
<1>2. target \in Files /\ cache \in [Files -> Content]  BY DEF IInv, Typed
<1>3. \/ target = Monthly(month) /\ Closed(month)
      \/ target = Daily(day) /\ day \in Window(month) /\ InDays
  BY <1>1 DEF Placed, InDays, Daily
<1>4. CASE TakeConverted
  BY <1>1, <1>2, <1>3, <1>4, KeepWhole DEF TakeConverted, told
<1>5. CASE DropEmpty
  <2>1. /\ Resume(target) /\ cache[target] = {} /\ UNCHANGED <<month, mark, used, files>>
        /\ \/ cache' = [cache EXCEPT ![target] = None] /\ lossy' = lossy \ {target} /\ faulted' = faulted
           \/ UNCHANGED disk /\ faulted' = TRUE
    BY <1>5 DEF DropEmpty
  <2>2. ASSUME Clean'  PROVE Clean /\ archive[target] = {}
    <3>1. cache' = [cache EXCEPT ![target] = None] /\ ~faulted /\ lossy' = lossy \ {target}
      BY <2>1, <2>2 DEF Clean
    <3>2. ~Fetching'  BY <2>1, Resumed
    <3>3. target \notin lossy  BY <1>1, <3>1 DEF IInv, Sound
    <3>4. lossy = {}  BY <2>2, <3>1, <3>3 DEF Clean
    <3>5. \A f \in Files : cache[f] = {} => f = target  BY <1>2, <2>2, <3>1, <3>2 DEF Clean
    <3>6. cache[target] = archive[target]
      <4>1. {} # None  BY FetchAssumption
      <4> QED  BY <1>2, <2>1, <3>3, <4>1 DEF IInv, CacheWhole
    <3> QED  BY <1>1, <2>1, <3>1, <3>4, <3>5, <3>6 DEF Clean
  <2>3. ASSUME Clean', target.kind = "day"  PROVE DayTaken(day)
    BY <1>3, <2>2, <2>3 DEF DayTaken, Monthly
  <2> QED  BY <1>1, <2>1, <2>2, <2>3, ResumeWhole
<1> QED  BY <1>4, <1>5

LEMMA CachedWhole ==
  ASSUME IInv, Placed, Filed, Clean => Accounted,
         MonthCached \/ MonthDownload \/ DayCached \/ DayDownload
  PROVE  Placed' /\ Filed' /\ (Clean => Accounted)'
<1>1. pc \in {"month", "day"}  BY DEF MonthCached, MonthDownload, DayCached, DayDownload
<1>2. month \in Months  BY <1>1 DEF IInv, Cursors
<1>3. Monthly(month) \in Files  BY <1>2, FileKinds
<1>4. day \in Window(month) => Daily(day) \in Files
  <2>1. day \in Window(month) => day \in Days  BY <1>2 DEF Window, Days
  <2> QED  BY <2>1, FileKinds
<1>5. CASE MonthCached  BY <1>3, <1>5, KeepWhole DEF MonthCached, fetch
<1>6. CASE MonthDownload  BY <1>3, <1>6, DownloadWhole DEF MonthDownload
<1>7. CASE DayCached  BY <1>4, <1>7, KeepWhole DEF DayCached, fetch, InDays
<1>8. CASE DayDownload  BY <1>4, <1>8, DownloadWhole DEF DayDownload
<1> QED  BY <1>5, <1>6, <1>7, <1>8

\* Within the month, nothing obtained or given up.
LEMMA MovesWhole ==
  ASSUME IInv, Placed, Filed, Clean => Accounted, MonthOpen \/ Dailies \/ DaysDone
  PROVE  Placed' /\ Filed' /\ (Clean => Accounted)'
<1>1. /\ UNCHANGED <<remote, disk, run, month, mark, used, target, files, told>>
      /\ pc \in {"month", "dailies", "day"} /\ pc' \in {"dailies", "day", "monthEnd"}
  BY DEF MonthOpen, Dailies, DaysDone, loop, fetch
<1>2. /\ Window(month)' = Window(month) /\ Closed(month)' = Closed(month)
      /\ ~Fetching /\ ~Fetching' /\ month \in Months /\ ~used
  BY <1>1 DEF Window, Closed, Fetching, IInv, Cursors, Placed
<1>3. day \in Nat /\ \A d \in Window(month) : d \in Nat /\ d \in Month[month]
  BY <1>2, Calendar DEF IInv, Cursors, Window, Days
<1>4. InDays' => Dailies /\ day' \in Window(month) /\ \A d \in Window(month) : day' <= d
  BY <1>1, <1>2 DEF InDays, MonthOpen, DaysDone, Dailies
<1>5. Placed'
  <2>1. InDays' => \E lo \in Window(month) : lo <= day'
    <3> SUFFICES ASSUME InDays' PROVE \E lo \in Window(month) : lo <= day'  OBVIOUS
    <3>1. day' \in Window(month) /\ day' \in Nat  BY <1>3, <1>4
    <3>2. day' <= day'  BY <3>1
    <3> QED  BY <3>1, <3>2
  <2> QED  BY <1>1, <1>2, <2>1 DEF Placed, remote, disk
<1>6. Filed'  BY <1>1 DEF Filed, told
<1>7. Clean' => Clean  BY <1>1, <1>2 DEF Clean, told, disk
<1>8. ASSUME Accounted  PROVE Accounted'
  <2>1. ASSUME NEW m \in MonthOf(run.from)..(month - 1)  PROVE Complete(m)'
    BY <1>1, <1>8, <2>1, ObtainedKept, CompleteKept DEF Accounted, remote, disk, told
  <2>2. NoMonthly'
    <3>1. NoMonthly' = NoMonthly  BY <1>1, <1>2 DEF NoMonthly, remote, disk
    <3>2. CASE MonthOpen  BY <3>1, <3>2 DEF MonthOpen, NoMonthly
    <3>3. CASE Dailies \/ DaysDone  BY <3>1, <3>3, <1>8 DEF Accounted, InDays, Dailies, DaysDone
    <3> QED  BY <3>2, <3>3
  <2>3. \A d : DayTaken(d)' = DayTaken(d)  BY <1>1 DEF DayTaken, remote, disk
  <2>4. ASSUME InDays', NEW d \in Window(month), d < day'  PROVE FALSE
    BY <1>3, <1>4, <2>4
  <2>5. ASSUME pc' = "monthEnd", NEW d \in Window(month)  PROVE DayTaken(d)
    <3>1. pc = "day" /\ InDays /\ day \notin Window(month)
      BY <2>5 DEF MonthOpen, Dailies, DaysDone, InDays
    <3>2. PICK lo \in Window(month) : lo <= day  BY <3>1 DEF Placed
    <3>3. run.from \in Nat /\ run.to \in Nat  BY Calendar DEF IInv, Typed
    <3>4. ~(day <= d)
      <4> SUFFICES ASSUME day <= d PROVE FALSE  OBVIOUS
      <4>1. day \in Month[month]  BY <1>2, <1>3, <3>2, Gapless
      <4>2. day \in run.from..run.to  BY <1>3, <3>2, <3>3 DEF Window
      <4> QED  BY <3>1, <4>1, <4>2 DEF Window
    <3>5. d < day  BY <1>3, <3>4
    <3> QED  BY <3>1, <3>5, <1>8 DEF Accounted
  <2> QED  BY <1>1, <1>2, <2>1, <2>2, <2>3, <2>4, <2>5 DEF Accounted
<1> QED  BY <1>5, <1>6, <1>7, <1>8

\* The files of a month that is through: from the mark on.
LEMMA NothingObtained ==
  ASSUME IInv, Filed, Clean, ~Fetching, month \in Months
  PROVE  Obtained(month) = {} <=> Len(files) = mark
<1>1. mark \in Nat /\ mark <= Len(files) /\ Len(files) \in Nat  BY Listed DEF Filed
<1>2. ASSUME NEW i \in 1..Len(files)
      PROVE  Covers(files[i]) \subseteq Month[month] <=> i > mark
  <2>1. files[i] \in Files  BY Listed
  <2>2. PICK k \in Months : Covers(files[i]) \subseteq Month[k] /\ IF i <= mark THEN k < month ELSE k = month
    BY DEF Filed
  <2>3. k \in Nat /\ month \in Nat  BY Calendar
  <2>4. Covers(files[i]) \subseteq Month[month] => k = month  BY <2>1, <2>2, Covering, OneMonth
  <2> QED  BY <1>1, <2>2, <2>3, <2>4
<1>3. ASSUME NEW i \in 1..Len(files)  PROVE cache[files[i]] # {}
  BY Listed DEF Clean
<1>4. CASE Len(files) = mark
  <2>1. {g \in Range(files) : Covers(g) \subseteq Month[month]} = {}  BY <1>1, <1>2, <1>4, Listed
  <2> QED  BY <1>4, <2>1 DEF Obtained
<1>5. CASE Len(files) # mark
  <2>1. Len(files) \in 1..Len(files) /\ Len(files) > mark  BY <1>1, <1>5
  <2>2. /\ files[Len(files)] \in Range(files) /\ Covers(files[Len(files)]) \subseteq Month[month]
        /\ cache[files[Len(files)]] # {} /\ cache[files[Len(files)]] \in Content
        /\ cache[files[Len(files)]] # None
    BY <1>2, <1>3, <2>1, Listed DEF IInv, Typed
  <2>3. PICK x \in cache[files[Len(files)]] : TRUE  BY <2>2 DEF Content
  <2>4. x \in Obtained(month)  BY <2>2, <2>3 DEF Obtained
  <2> QED  BY <1>5, <2>4
<1> QED  BY <1>4, <1>5

LEMMA MonthEndWhole ==
  ASSUME IInv, Placed, Filed, Clean => Accounted, MonthEnd
  PROVE  Placed' /\ Filed' /\ (Clean => Accounted)'
<1>1. /\ UNCHANGED <<remote, disk, run, target, files, faulted>>
      /\ pc = "monthEnd" /\ pc' \in {"month", "done"} /\ month' = month + 1
      /\ used' = FALSE /\ mark' = Len(files)
      /\ pc' = "done" => ~(month < LastMonth)
      /\ warned' = IF Closed(month) /\ ~used /\ Len(files) = mark THEN warned \cup {month} ELSE warned
  BY DEF MonthEnd, NextMonth, fetch
<1>2. month \in Months /\ month \in Nat /\ Len(files) \in Nat /\ LastMonth \in Nat /\ ~Fetching /\ ~Fetching' /\ ~InDays'
  BY <1>1, Listed, Calendar, WindowMonths DEF IInv, Cursors, Fetching, InDays
<1>3. LastMonth' = LastMonth  BY <1>1 DEF LastMonth
<1>4. Placed'  BY <1>1, <1>2, <1>3 DEF Placed, remote, disk
<1>5. Filed'
  <2>1. mark' \in 0..Len(files)  BY <1>1, <1>2
  <2>2. ASSUME NEW i \in 1..Len(files)
        PROVE  \E k \in Months : Covers(files[i]) \subseteq Month[k] /\ IF i <= mark' THEN k < month' ELSE k = month'
    <3>1. PICK k \in Months : Covers(files[i]) \subseteq Month[k] /\ IF i <= mark THEN k < month ELSE k = month
      BY DEF Filed
    <3>2. k \in Nat /\ k < month' /\ i <= mark'  BY <1>1, <1>2, <3>1, Calendar
    <3> QED  BY <3>1, <3>2
  <2>3. \A m \in warned : m \in Nat /\ m < month'  BY <1>1, <1>2 DEF Filed
  <2>4. \A m \in warned' : m \in Nat /\ m < month'  BY <1>1, <1>2, <2>3 DEF Filed
  <2> QED  BY <1>1, <2>1, <2>2, <2>4 DEF Filed
<1>6. ASSUME Clean'  PROVE Accounted'
  <2>1. Clean /\ Accounted  BY <1>1, <1>2, <1>6 DEF Clean, disk
  <2>2. \A m : Obtained(m)' = Obtained(m)  BY <1>1, ObtainedKept DEF disk
  <2>3. \A m : Obtainable(m)' = Obtainable(m) /\ Closed(m)' = Closed(m)
    BY <1>1 DEF Obtainable, Closed, Window, remote, disk
  <2>4. Obtained(month) = {} <=> Len(files) = mark  BY <1>2, <2>1, NothingObtained
  <2>5. \A f \in Range(files) : Covers(f) \subseteq Month[month] => archive[f] \subseteq Obtained(month)
    BY <2>1, Listed DEF IInv, CacheWhole, Obtained, Clean
  <2>6. Obtainable(month) \subseteq Obtained(month)
    <3>1. CASE used
      <4>1. Closed(month) /\ Monthly(month) \in Range(files)  BY <3>1 DEF Placed
      <4>2. archive[Monthly(month)] \subseteq Obtained(month)  BY <1>2, <4>1, <2>5, Covering
      <4>3. archive[Monthly(month)] \notin {None, {}}
        BY <4>1, <2>1, <1>2, Listed DEF IInv, CacheWhole, Clean
      <4> QED  BY <4>1, <4>2, <4>3 DEF Obtainable
    <3>2. CASE ~used
      <4>1. NoMonthly /\ \A d \in Window(month) : DayTaken(d)  BY <1>1, <2>1, <3>2 DEF Accounted
      <4>2. Obtainable(month) =
              UNION {archive[Daily(d)] : d \in {x \in Window(month) : x < run.day /\ archive[Daily(x)] # None}}
        BY <4>1 DEF NoMonthly, Obtainable
      <4>3. ASSUME NEW d \in Window(month), d < run.day, archive[Daily(d)] # None
            PROVE  archive[Daily(d)] \subseteq Obtained(month)
        <5>1. d \in Days /\ d \in Month[month]  BY <1>2 DEF Window, Days
        <5>2. CASE archive[Daily(d)] = {}  BY <5>2
        <5>3. CASE archive[Daily(d)] # {}
          <6>1. Daily(d) \in Range(files)  BY <4>1, <4>3, <5>3 DEF DayTaken
          <6> QED  BY <2>5, <5>1, <6>1, Covering
        <5> QED  BY <5>2, <5>3
      <4> QED  BY <4>2, <4>3
    <3> QED  BY <3>1, <3>2
  <2>7. month \in warned' <=> Closed(month) /\ Obtained(month) = {}
    <3>1. month \notin warned  BY <1>2 DEF Filed
    <3>2. used => Obtained(month) # {}
      <4> SUFFICES ASSUME used PROVE Obtained(month) # {}  OBVIOUS
      <4>1. Monthly(month) \in Range(files)  BY DEF Placed
      <4>2. archive[Monthly(month)] \subseteq Obtained(month)  BY <1>2, <4>1, <2>5, Covering
      <4>3. cache[Monthly(month)] \in SUBSET Days /\ cache[Monthly(month)] # {} /\ cache[Monthly(month)] = archive[Monthly(month)]
        BY <4>1, <2>1, <1>2, Listed DEF IInv, Typed, CacheWhole, Clean, Content
      <4> QED  BY <4>2, <4>3
    <3> QED  BY <1>1, <2>4, <3>1, <3>2
  <2>8. ASSUME NEW m \in MonthOf(run.from)..(month' - 1)  PROVE Complete(m)'
    <3>1. MonthOf(run.from) \in Nat  BY WindowMonths
    <3>2. CASE m = month  BY <3>2, <2>2, <2>3, <2>6, <2>7 DEF Complete
    <3>3. CASE m # month
      <4>1. m \in MonthOf(run.from)..(month - 1)  BY <3>1, <3>3, <1>1, <1>2
      <4>2. Complete(m) /\ (m \in warned' <=> m \in warned)  BY <3>3, <4>1, <2>1, <1>1 DEF Accounted
      <4> QED  BY <4>2, <2>2, <2>3 DEF Complete
    <3> QED  BY <3>2, <3>3
  <2> QED  BY <1>1, <1>2, <2>8 DEF Accounted
<1> QED  BY <1>4, <1>5, <1>6

LEMMA StepWhole == IInv /\ Whole /\ Step => Whole'
<1> SUFFICES ASSUME IInv, Whole, Step, venue' = "months" PROVE Placed' /\ Filed' /\ (Clean => Accounted)'
  BY DEF Whole
<1>1. venue = "months" /\ pc # "idle"
  BY DEF Step, Missing, AttemptFails, Served, ConvertFails, ConvertSkips, Convert, TakeConverted, DropEmpty,
         MonthCached, MonthDownload, MonthOpen, Dailies, DayCached, DayDownload, DaysDone, MonthEnd,
         PartCached, PartDownload, PartsDone, remote, disk
<1>2. Placed /\ Filed /\ (Clean => Accounted)  BY <1>1 DEF Whole
<1>3. ~(PartCached \/ PartDownload \/ PartsDone)
  BY <1>2 DEF Placed, PartCached, PartDownload, PartsDone
<1> QED
  BY <1>2, <1>3, MissingWhole, ConvertingWhole, ConvertedWhole, CachedWhole, MovesWhole, MonthEndWhole DEF Step

LEMMA StartWhole == ASSUME IInv, NEW from \in Days, NEW to \in Days, Start(from, to)  PROVE Whole'
<1> SUFFICES ASSUME venue' = "months" PROVE Placed' /\ Filed' /\ Accounted'  BY DEF Whole
<1>1. /\ pc' = "month" /\ month' = MonthOf(from) /\ mark' = 0 /\ used' = FALSE /\ files' = <<>>
      /\ warned' = {} /\ run' = [from |-> from, to |-> to, day |-> today] /\ today' = today
  BY DEF Start, remote, disk
<1>2. today \in Nat /\ month' \in Nat  BY <1>1, Calendar DEF IInv, Typed
<1>3. ~Fetching' /\ ~InDays'  BY <1>1 DEF Fetching, InDays
<1>4. Placed'  BY <1>1, <1>2, <1>3 DEF Placed
<1>5. Filed'  BY <1>1 DEF Filed
<1>6. MonthOf(run'.from)..(month' - 1) = {}
  BY <1>1, <1>2
<1> QED  BY <1>1, <1>3, <1>4, <1>5, <1>6 DEF Accounted

LEMMA TickWhole == IInv /\ Whole /\ Tick => Whole'
<1> SUFFICES ASSUME IInv, Whole, Tick, venue' = "months", pc' # "idle"
             PROVE Placed' /\ Filed' /\ (Clean => Accounted)'
  BY DEF Whole
<1>1. UNCHANGED <<venue, archive, disk, pc, run, loop, fetch, files, told>> /\ today' = today + 1
  BY DEF Tick
<1>2. Placed /\ Filed /\ (Clean => Accounted)  BY <1>1 DEF Whole
<1>3. today \in Nat /\ run.day \in Nat  BY DEF IInv, Typed
<1>4. /\ Window(month)' = Window(month) /\ Closed(month)' = Closed(month) /\ InDays' = InDays
      /\ Fetching' = Fetching /\ LastMonth' = LastMonth
  BY <1>1 DEF Window, Closed, InDays, Fetching, LastMonth, loop, fetch
<1>5. Placed'  BY <1>1, <1>2, <1>3, <1>4 DEF Placed, loop, fetch
<1>6. Filed'  BY <1>1, <1>2 DEF Filed, loop, told
<1>7. Clean' = Clean  BY <1>1, <1>4 DEF Clean, fetch, told, disk
<1>8. ASSUME Accounted  PROVE Accounted'
  <2>1. ASSUME NEW m \in MonthOf(run.from)..(month - 1)  PROVE Complete(m)'
    BY <1>1, <1>8, <2>1, ObtainedKept, CompleteKept DEF Accounted, told, disk
  <2>2. NoMonthly' = NoMonthly  BY <1>1, <1>4 DEF NoMonthly, loop
  <2>3. \A d : DayTaken(d)' = DayTaken(d)  BY <1>1 DEF DayTaken
  <2> QED  BY <1>1, <1>4, <1>8, <2>1, <2>2, <2>3 DEF Accounted, loop
<1> QED  BY <1>2, <1>5, <1>6, <1>7, <1>8

LEMMA NextWhole == IInv /\ Whole /\ [Next]_vars => Whole'
<1> SUFFICES ASSUME IInv, Whole, [Next]_vars PROVE Whole'  OBVIOUS
<1>1. CASE Step  BY <1>1, StepWhole
<1>2. CASE Kill  BY <1>2 DEF Kill, Whole
<1>3. CASE Tick  BY <1>3, TickWhole
<1>4. CASE \E from, to \in Days : from <= to /\ Start(from, to)  BY <1>4, StartWhole
<1>5. CASE UNCHANGED vars
  <2>1. UNCHANGED <<venue, archive, today, cache, pc, run, month, day, seq, mark, used, target, left, files, warned, faulted, lossy>>
    BY <1>5 DEF vars, remote, disk, loop, fetch, told
  <2> QED
    <3>1. /\ Fetching' = Fetching /\ InDays' = InDays /\ LastMonth' = LastMonth
          /\ \A m : Window(m)' = Window(m) /\ Closed(m)' = Closed(m) /\ Obtained(m)' = Obtained(m)
      BY <2>1 DEF Fetching, InDays, LastMonth, Window, Closed, Obtained
    <3>2. /\ \A m : Complete(m)' = Complete(m)
          /\ \A d : DayTaken(d)' = DayTaken(d)
          /\ NoMonthly' = NoMonthly
      BY <2>1, <3>1 DEF Complete, Obtainable, DayTaken, NoMonthly, Window, Closed
    <3>3. Placed' = Placed  BY <2>1, <3>1 DEF Placed
    <3>4. Filed' = Filed  BY <2>1 DEF Filed
    <3>5. Clean' = Clean  BY <2>1, <3>1 DEF Clean
    <3>6. Accounted' = Accounted  BY <2>1, <3>1, <3>2 DEF Accounted
    <3> QED  BY <2>1, <3>3, <3>4, <3>5, <3>6 DEF Whole
<1> QED  BY <1>1, <1>2, <1>3, <1>4, <1>5 DEF Next

LEMMA WholeComplete == IInv /\ Whole => FaultFreeRunIsComplete
<1> SUFFICES ASSUME IInv, Whole, pc = "done", venue = "months", ~faulted, ~Residue,
                    NEW m \in MonthOf(run.from)..LastMonth
             PROVE Complete(m)
  BY DEF FaultFreeRunIsComplete, Complete
<1>1. Clean  BY DEF Clean, Residue
<1>2. Accounted /\ month \in Nat /\ month > LastMonth  BY <1>1 DEF Whole, Placed
<1>3. MonthOf(run.from) \in Nat /\ LastMonth \in Nat  BY WindowMonths
<1>4. m \in MonthOf(run.from)..(month - 1)  BY <1>2, <1>3
<1> QED  BY <1>2, <1>4 DEF Accounted

\* A task on monthly and daily archives in which nothing failed and that met no
\* empty file returns of every month of its window all that the archives had when
\* it began, and reports exactly the closed months it got nothing of
\* (common.rs:700-840): for any months, any archives, any window, and whatever the
\* tasks before it left in the cache.
THEOREM FetchComplete == Spec => []FaultFreeRunIsComplete
<1>1. Init => IInv /\ Whole  BY InitHolds DEF Init, Whole
<1>2. (IInv /\ Whole) /\ [Next]_vars => (IInv /\ Whole)'  BY NextKeeps, NextWhole
<1>3. IInv /\ Whole => FaultFreeRunIsComplete  BY WholeComplete
<1> QED  BY <1>1, <1>2, <1>3, PTL DEF Spec
=============================================================================
