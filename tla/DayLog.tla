------------------------------- MODULE DayLog -------------------------------
(***************************************************************************)
(* What one ticker's index directory promises to its readers, with no      *)
(* files, descriptors or buffers in sight: one append-only log per UTC     *)
(* day, owned by at most one writer at a time.                             *)
(*                                                                         *)
(*   - the live aggregator only appends, and only to the current day;      *)
(*   - an offline run may extend any log, and may start a log over only    *)
(*     when its day is closed, and at most once per run;                   *)
(*   - nobody else changes a log.                                          *)
(*                                                                         *)
(* IdxShards, the files-and-locks model of src/src/sharding.rs, is shown   *)
(* to implement this specification.                                        *)
(***************************************************************************)
EXTENDS Integers, SequencesExt

CONSTANTS
  Slots,   \* instants of the clock
  Days,    \* UTC dates
  DayOf,   \* [Slots -> Days], ts_ms_to_utc_date
  Records  \* what a log holds

VARIABLES
  now,     \* the clock
  owner,   \* who holds the ticker: "none", "live" or "run"
  log,     \* [Days -> Seq(Records)], what a reader of <date>.idx sees
  fresh    \* days the current offline run has already started over

vars == <<now, owner, log, fresh>>

Today == DayOf[now]

ClosedDays == {d \in Days : d < Today}

Init ==
  /\ now \in Slots
  /\ owner = "none"
  /\ log = [d \in Days |-> <<>>]
  /\ fresh = {}

Advance ==
  /\ now' \in Slots
  /\ now' > now
  /\ UNCHANGED <<owner, log, fresh>>

Acquire(w) ==
  /\ owner = "none"
  /\ owner' = w
  /\ fresh' = {}
  /\ UNCHANGED <<now, log>>

Release ==
  /\ owner' = "none"
  /\ fresh' = {}
  /\ UNCHANGED <<now, log>>

LiveAppend ==
  /\ owner = "live"
  /\ \E r \in Records : log' = [log EXCEPT ![Today] = Append(@, r)]
  /\ UNCHANGED <<now, owner, fresh>>

\* One step of an offline run: the logs in over are started over, at most
\* one other log grows. The run may end in the same step.
OfflineWrite ==
  /\ owner = "run"
  /\ owner' \in {"run", "none"}
  /\ log' \in [Days -> Seq(Records)]
  /\ \E over \in SUBSET (ClosedDays \ fresh), d \in Days :
       /\ \A e \in over : log'[e] = <<>>
       /\ d \notin over => IsPrefix(log[d], log'[d])
       /\ \A e \in Days \ (over \cup {d}) : log'[e] = log[e]
       /\ fresh' = IF owner' = "run" THEN fresh \cup over ELSE {}
  /\ UNCHANGED now

Next ==
  \/ Advance
  \/ \E w \in {"live", "run"} : Acquire(w)
  \/ Release
  \/ LiveAppend
  \/ OfflineWrite

Spec == Init /\ [][Next]_vars
=============================================================================
