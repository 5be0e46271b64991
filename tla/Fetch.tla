------------------------------- MODULE Fetch -------------------------------
(***************************************************************************)
(* One (pair, exchange) task of fetch-crypto-history: the archives of a    *)
(* window are downloaded, converted and kept as .ticks files.              *)
(*                                                                         *)
(* binance, bybit and okx publish one archive per month and one per day:   *)
(* fetch_monthly_daily takes the monthly one of a closed month and falls   *)
(* back to the daily ones.  bitget publishes numbered parts of a day.  A   *)
(* file is the set of the days whose trades it holds.                      *)
(*                                                                         *)
(* The temporary archive (.partial-dl-<nonce>) and the file being written  *)
(* (<name>.ticks.partial) are left out: nothing reads either, the first    *)
(* has a name of its own per download and the second is created anew.      *)
(***************************************************************************)
EXTENDS Integers, Sequences, FiniteSets, Functions

CONSTANTS
  Month,            \* Seq(SUBSET Nat): the days of each month, in order
  Parts,            \* bound: the parts of one day on bitget
  Published,        \* the archives a venue may hold: SUBSET [Files -> Content]
  MonthlyAttempts,  \* download attempts for a monthly archive
  DailyAttempts,    \* download attempts for a daily archive or a part
  LastDay,          \* bound: the clock stops here
  None              \* no file, no object

Months == DOMAIN Month
Days   == UNION {Month[m] : m \in Months}

Monthly(m) == [kind |-> "month", at |-> m, seq |-> 0]
Daily(d)   == [kind |-> "day",   at |-> d, seq |-> 0]
Part(d, k) == [kind |-> "part",  at |-> d, seq |-> k]

MonthFiles == {Monthly(m) : m \in Months}
DayFiles   == {Daily(d) : d \in Days}
PartFiles  == {Part(d, k) : d \in Days, k \in 1..(Parts + 1)}
Files      == MonthFiles \cup DayFiles \cup PartFiles

Venue(f)   == IF f.kind = "part" THEN "parts" ELSE "months"
Covers(f)  == IF f.kind = "month" THEN Month[f.at] ELSE {f.at}
Content    == (SUBSET Days) \cup {None}

ASSUME FetchAssumption ==
  /\ Month \in Seq(SUBSET Nat) /\ Parts \in Nat /\ LastDay \in Nat
  /\ 1 \in DOMAIN Month /\ 1 \in Month[1]
  /\ \A m \in Months : Month[m] # {}
  /\ \A m, n \in Months : m < n => \A d \in Month[m], e \in Month[n] : d < e
  /\ \A d, e \in Days : d..e \subseteq Days
  /\ \A c \in SUBSET Days : c # None
  /\ MonthlyAttempts \in Nat \ {0} /\ DailyAttempts \in Nat \ {0}
  /\ \A a \in Published :
       a \in [Files -> Content] /\ \A d \in Days : a[Part(d, Parts + 1)] = None

VARIABLES
  venue,    \* "months": binance, bybit, okx; "parts": bitget
  archive,  \* [Files -> Content]: the days the published archive has trades of; None: no such object
  today,    \* the calendar day
  cache,    \* [Files -> Content]: the .ticks files on disk; survives a kill
  pc,       \* where the task stands
  run,      \* the window, and the day the task read at its start
  month, day, seq, \* the loops' cursors
  target, left,    \* the file being downloaded and the attempts it has left
  files,    \* the files the task returns, in order
  used,     \* used_cached_month
  mark,     \* files_before_month
  warned,   \* history: the months the silent-gap guard reported in this run
  faulted,  \* history: a transfer, a conversion or a removal failed in this run
  lossy     \* history: the files whose conversion went on past what it could not read

remote == <<venue, archive, today>>
loop   == <<month, day, seq, mark, used>>
fetch  == <<target, left>>
told   == <<warned, faulted>>
disk   == <<cache, lossy>>
vars   == <<remote, disk, pc, run, loop, fetch, files, told>>

-----------------------------------------------------------------------------
\* Downloading and converting.

\* The object can be had: it exists and its days are over.
Available(f) == archive[f] # None /\ \A d \in Covers(f) : d < today

\* Mutant: a monthly archive that failed or was empty settles the month.
ResumeMonthSettled(f) ==
  CASE f.kind = "month" -> pc' = "monthEnd" /\ UNCHANGED <<day, seq>>
    [] f.kind = "day"   -> pc' = "day" /\ day' = day + 1 /\ UNCHANGED seq
    [] f.kind = "part"  -> pc' = "part" /\ day' = day + 1 /\ seq' = 1

\* Where the caller goes on once a file is dealt with.
Resume(f) ==
  CASE f.kind = "month" -> pc' = "dailies" /\ UNCHANGED <<day, seq>>
    [] f.kind = "day"   -> pc' = "day" /\ day' = day + 1 /\ UNCHANGED seq
    [] f.kind = "part"  -> pc' = "part" /\ day' = day + 1 /\ seq' = 1

\* Where it goes on once a file is part of the result.
Keep(f) ==
  /\ files' = Append(files, f)
  /\ CASE f.kind = "month" -> pc' = "monthEnd" /\ used' = TRUE /\ UNCHANGED <<day, seq>>
       [] f.kind = "day"   -> pc' = "day" /\ day' = day + 1 /\ UNCHANGED <<used, seq>>
       [] f.kind = "part"  -> pc' = "part" /\ seq' = seq + 1 /\ UNCHANGED <<used, day>>
  /\ UNCHANGED <<month, mark>>

Download(f) ==
  /\ pc' = "attempt"
  /\ target' = f
  /\ left' = IF f.kind = "month" THEN MonthlyAttempts ELSE DailyAttempts

\* HTTP 403 or 404 is final.
Missing ==
  /\ pc = "attempt" /\ ~Available(target)
  /\ Resume(target)
  /\ UNCHANGED <<remote, disk, run, month, mark, used, fetch, files, told>>

\* Mutant: the attempts start over instead of running out.
AttemptFailsForever ==
  /\ pc = "attempt" /\ faulted' = TRUE
  /\ left' = IF left > 1 THEN left - 1 ELSE MonthlyAttempts
  /\ UNCHANGED <<remote, disk, pc, run, loop, target, files, warned>>

\* A transport error, another status, or fewer bytes than Content-Length.
AttemptFails ==
  /\ pc = "attempt"
  /\ faulted' = TRUE
  /\ \/ left > 1 /\ left' = left - 1 /\ UNCHANGED <<pc, day, seq>>
     \/ left = 1 /\ left' = 0 /\ Resume(target)
  /\ UNCHANGED <<remote, disk, run, month, mark, used, target, files, warned>>

Served ==
  /\ pc = "attempt" /\ Available(target)
  /\ pc' = "convert"
  /\ UNCHANGED <<remote, disk, run, loop, fetch, files, told>>

\* Mutant: the file is written under its final name.
ConvertFailsInPlace ==
  /\ pc = "convert" /\ faulted' = TRUE
  /\ cache' = [cache EXCEPT ![target] = {}]
  /\ Resume(target)
  /\ UNCHANGED <<remote, lossy, run, month, mark, used, fetch, files, warned>>

\* The archive does not open (cut short with no Content-Length sent), a read
\* fails midway, or the disk does: the file under its final name is untouched.
ConvertFails ==
  /\ pc = "convert"
  /\ faulted' = TRUE
  /\ Resume(target)
  /\ UNCHANGED <<remote, disk, run, month, mark, used, fetch, files, warned>>

\* A member of the archive that cannot be opened is passed over, and so is a
\* chunk of rows that does not parse: what is left takes the final name.
ConvertSkips ==
  /\ pc = "convert"
  /\ faulted' = TRUE /\ lossy' = lossy \cup {target}
  /\ \E kept \in SUBSET archive[target] :
       kept # archive[target] /\ cache' = [cache EXCEPT ![target] = kept]
  /\ pc' = "converted"
  /\ UNCHANGED <<remote, run, loop, fetch, files, warned>>

\* The converted file takes its final name, whatever it holds.
Convert ==
  /\ pc = "convert"
  /\ cache' = [cache EXCEPT ![target] = archive[target]]
  /\ pc' = "converted"
  /\ UNCHANGED <<remote, lossy, run, loop, fetch, files, told>>

\* A file with ticks is part of the result, an empty one is removed; an error
\* of the removal is ignored.
TakeConverted ==
  /\ pc = "converted" /\ cache[target] # {}
  /\ Keep(target)
  /\ UNCHANGED <<remote, disk, run, fetch, told>>

DropEmpty ==
  /\ pc = "converted" /\ cache[target] = {}
  /\ \/ cache' = [cache EXCEPT ![target] = None] /\ lossy' = lossy \ {target} /\ UNCHANGED faulted
     \/ UNCHANGED disk /\ faulted' = TRUE
  /\ Resume(target)
  /\ UNCHANGED <<remote, run, month, mark, used, fetch, files, warned>>

-----------------------------------------------------------------------------
\* fetch_monthly_daily.

MonthOf(d)  == CHOOSE m \in Months : d \in Month[m]
Window(m)   == Month[m] \cap run.from..run.to
Closed(m)   == \A d \in Month[m] : d < run.day
LastMonth   == MonthOf(run.to)

NextMonth ==
  /\ month' = month + 1 /\ used' = FALSE /\ mark' = Len(files)
  /\ pc' = IF month < LastMonth THEN "month" ELSE "done"

MonthCached ==
  /\ pc = "month" /\ Closed(month) /\ cache[Monthly(month)] # None
  /\ Keep(Monthly(month))
  /\ UNCHANGED <<remote, disk, run, fetch, told>>

MonthDownload ==
  /\ pc = "month" /\ Closed(month) /\ cache[Monthly(month)] = None
  /\ Download(Monthly(month))
  /\ UNCHANGED <<remote, disk, run, loop, files, told>>

\* Of an open month only the daily archives are looked at.
MonthOpen ==
  /\ pc = "month" /\ ~Closed(month)
  /\ pc' = "dailies"
  /\ UNCHANGED <<remote, disk, run, loop, fetch, files, told>>

Dailies ==
  /\ pc = "dailies"
  /\ pc' = "day"
  /\ day' \in {d \in Window(month) : \A e \in Window(month) : d <= e}
  /\ UNCHANGED <<remote, disk, run, month, seq, mark, used, fetch, files, told>>

DayCached ==
  /\ pc = "day" /\ day \in Window(month) /\ cache[Daily(day)] # None
  /\ Keep(Daily(day))
  /\ UNCHANGED <<remote, disk, run, fetch, told>>

DayDownload ==
  /\ pc = "day" /\ day \in Window(month) /\ cache[Daily(day)] = None
  /\ Download(Daily(day))
  /\ UNCHANGED <<remote, disk, run, loop, files, told>>

DaysDone ==
  /\ pc = "day" /\ day \notin Window(month)
  /\ pc' = "monthEnd"
  /\ UNCHANGED <<remote, disk, run, loop, fetch, files, told>>

\* The silent-gap guard: a closed month that yielded no file is reported.
MonthEnd ==
  /\ pc = "monthEnd"
  /\ warned' = IF Closed(month) /\ ~used /\ Len(files) = mark
               THEN warned \cup {month} ELSE warned
  /\ NextMonth
  /\ UNCHANGED <<remote, disk, run, day, seq, fetch, files, faulted>>

-----------------------------------------------------------------------------
\* BitgetSource::fetch_ticks: the parts of a day are taken until one is missing,
\* fails or is empty.

PartCached ==
  /\ pc = "part" /\ day <= run.to /\ cache[Part(day, seq)] # None
  /\ Keep(Part(day, seq))
  /\ UNCHANGED <<remote, disk, run, fetch, told>>

PartDownload ==
  /\ pc = "part" /\ day <= run.to /\ cache[Part(day, seq)] = None
  /\ Download(Part(day, seq))
  /\ UNCHANGED <<remote, disk, run, loop, files, told>>

PartsDone ==
  /\ pc = "part" /\ day > run.to
  /\ pc' = "done"
  /\ UNCHANGED <<remote, disk, run, loop, fetch, files, told>>

-----------------------------------------------------------------------------
NoRun == [from |-> 1, to |-> 1, day |-> 1]

Idle == pc \in {"idle", "done"}

Start(from, to) ==
  /\ Idle
  /\ run' = [from |-> from, to |-> to, day |-> today]
  /\ month' = MonthOf(from) /\ day' = from /\ seq' = 1 /\ mark' = 0 /\ used' = FALSE
  /\ files' = <<>> /\ warned' = {} /\ faulted' = FALSE
  /\ pc' = IF venue = "parts" THEN "part" ELSE "month"
  /\ UNCHANGED <<remote, disk, fetch>>

Kill ==
  /\ ~Idle
  /\ pc' = "idle" /\ run' = NoRun
  /\ month' = 1 /\ day' = 1 /\ seq' = 1 /\ mark' = 0 /\ used' = FALSE
  /\ target' = Monthly(1) /\ left' = 0
  /\ files' = <<>> /\ warned' = {} /\ faulted' = FALSE
  /\ UNCHANGED <<remote, disk>>

Tick ==
  /\ today < LastDay
  /\ today' = today + 1
  /\ UNCHANGED <<venue, archive, disk, pc, run, loop, fetch, files, told>>

Init ==
  /\ venue \in {"months", "parts"}
  /\ archive \in {a \in Published : \A f \in Files : Venue(f) # venue => a[f] = None}
  /\ today = 1
  /\ cache = [f \in Files |-> None] /\ lossy = {}
  /\ pc = "idle"
  /\ run = NoRun
  /\ month = 1 /\ day = 1 /\ seq = 1 /\ mark = 0 /\ used = FALSE
  /\ target = Monthly(1) /\ left = 0
  /\ files = <<>> /\ warned = {} /\ faulted = FALSE

Step ==
  \/ Missing \/ AttemptFails \/ Served \/ ConvertFails \/ ConvertSkips \/ Convert
  \/ TakeConverted \/ DropEmpty
  \/ MonthCached \/ MonthDownload \/ MonthOpen \/ Dailies
  \/ DayCached \/ DayDownload \/ DaysDone \/ MonthEnd
  \/ PartCached \/ PartDownload \/ PartsDone

Next ==
  \/ Step \/ Kill \/ Tick
  \/ \E from, to \in Days : from <= to /\ Start(from, to)

\* The task runs to its end unless it is killed; a user need not start one.
Spec == Init /\ [][Next]_vars /\ WF_vars(Step)

\* common.rs:639-640 (download_and_convert): "Atomic rename so a partial/interrupted
\* download leaves the old cache file intact": whatever was killed, cut short or
\* retried, a .ticks file holds nothing but what its archive has, and all of it,
\* unless its own conversion passed over a member or a chunk it could not read
\* (common.rs:592-595, 606-612).  Such a file does keep its final name: a later run
\* takes it as it takes a whole one, and only the log told the two apart.
CacheWhole ==
  \A f \in Files : cache[f] # None =>
    /\ archive[f] # None /\ cache[f] \subseteq archive[f]
    /\ f \notin lossy => cache[f] = archive[f]

\* What a month can give: the monthly archive, or its daily ones.
Obtainable(m) ==
  IF Closed(m) /\ archive[Monthly(m)] \notin {None, {}} THEN archive[Monthly(m)]
  ELSE UNION {archive[Daily(d)] : d \in {x \in Window(m) : x < run.day /\ archive[Daily(x)] # None}}
Obtained(m) == UNION {cache[f] : f \in {g \in Range(files) : Covers(g) \subseteq Month[m]}}
Residue     == lossy # {} \/ \E f \in Files : cache[f] = {}

\* The per-month contract of fetch_monthly_daily (common.rs:700-840, the fix of
\* the silent ETH gap): a task in which nothing failed and that met no empty and no
\* incomplete file returns, of every month of its window, all that the archives had when it began;
\* it reports exactly the closed months it got nothing of.
FaultFreeRunIsComplete ==
  pc = "done" /\ venue = "months" /\ ~faulted /\ ~Residue =>
    \A m \in MonthOf(run.from)..LastMonth :
      /\ Obtainable(m) \subseteq Obtained(m)
      /\ m \in warned <=> (Closed(m) /\ Obtained(m) = {})

\* Every task that is not killed ends: attempts, days and parts run out.
FetchEnds == (pc = "month" \/ pc = "part") ~> Idle
=============================================================================
