------------------------------ MODULE History ------------------------------
(***************************************************************************)
(* The history of one metric of one machine: the rows of telemetry, the    *)
(* two continuous aggregates over them and the policies that refresh and   *)
(* drop (alembic/versions/0001_initial_schema.py), and what                *)
(* GET /api/equipment/{id}/telemetry answers (routes/telemetry.py,         *)
(* query_router.py).                                                       *)
(*                                                                         *)
(* A sample is the clock unit it was taken in.  An average, a minimum and  *)
(* a count are represented by the samples they are taken over, so that an  *)
(* aggregate is the set of samples it has seen.                            *)
(***************************************************************************)
EXTENDS Integers, FiniteSets

CONSTANTS
  HalfMinute, Minute, FiveMinutes, Hour,  \* the intervals of the schema
  Day, Week, Month,                       \* and of the router, in clock
  MaxRange,                               \* units; MaxRange: 90 days
  MaxStall,    \* bound on the time from a sample to its commit, an outage
               \* of the database between them included
  MaxOutage,   \* bound on the time the database is down
  MaxSamples,  \* bound on the samples stored
  MaxTime      \* bound on the clock

Lesser(m, n)  == IF m < n THEN m ELSE n
Greater(m, n) == IF m < n THEN n ELSE m

(* The resolutions that are continuous aggregates, and their policies. *)
Aggregates == {"1min", "1hour"}

Bucket(a) == IF a = "1min" THEN Minute ELSE Hour

StartOffset(a) == IF a = "1min" THEN 2 * Hour ELSE 2 * Day

EndOffset(a) == IF a = "1min" THEN Minute ELSE Hour

Schedule(a) == IF a = "1min" THEN HalfMinute ELSE FiveMinutes

(* From the start of a bucket to the time at which a refresh that sees all *)
(* its samples has run for certain.                                        *)
Lag(a) == Bucket(a) + Greater(EndOffset(a), MaxStall) + Schedule(a) + MaxOutage

(* The raw rows outlive the window of every refresh, stalls and outages    *)
(* are short of what the windows allow for, and the units are in order.    *)
ASSUME HistoryAssumption ==
  /\ {HalfMinute, Minute, FiveMinutes, Hour, Day} \subseteq Nat \ {0}
  /\ {Week, Month, MaxRange, MaxStall, MaxOutage, MaxSamples, MaxTime}
       \subseteq Nat
  /\ 2 * Hour <= Month
  /\ 2 * Day <= Month
  /\ \A a \in Aggregates : Lag(a) <= StartOffset(a)
  /\ Minute <= Hour /\ Hour <= Week

VARIABLES
  now,      \* the clock
  up,       \* the database answers
  since,    \* the time at which it came up or went down
  stored,   \* history: the samples ever committed
  raw,      \* the rows of telemetry
  agg,      \* agg[a]: the samples the rows of aggregate a are taken over
  last      \* last[a]: when the refresh of a last ran

vars == <<now, up, since, stored, raw, agg, last>>

(* upgrade: empty tables, WITH NO DATA, and the policies are scheduled. *)
Init ==
  /\ now = 0
  /\ up = TRUE
  /\ since = 0
  /\ stored = {}
  /\ raw = {}
  /\ agg = [a \in Aggregates |-> {}]
  /\ last = [a \in Aggregates |-> 0]
-----------------------------------------------------------------------------
(* Mutant of Stamps: the time is that of the clock of another host. *)
StampsAhead == {t \in 0..(now + 1) : now - t <= MaxStall}

(* The times of the samples that may be committed now: on_update stamps a  *)
(* sample with its own clock, then it waits in the buffer of ingest and    *)
(* for the write before it, be the database up then or not.                *)
Stamps == {t \in 0..now : now - t <= MaxStall}

(* write_batch commits a sample, which may have been taken before the      *)
(* database came up.  (A write that fails loses its batch: IngestWriter.)  *)
Insert ==
  \E t \in Stamps :
    /\ up
    /\ t \notin stored
    /\ Cardinality(stored) < MaxSamples
    /\ stored' = stored \cup {t}
    /\ raw' = raw \cup {t}
    /\ UNCHANGED <<now, up, since, agg, last>>

(* time_bucket *)
BucketOf(a, t) == t - (t % Bucket(a))

(* Mutants of InWindow: no start_offset; no end_offset. *)
InWindowFromEver(a, t) == BucketOf(a, t) + Bucket(a) <= now - EndOffset(a)

InWindowNarrow(a, t) ==
  /\ now - Bucket(a) - EndOffset(a) <= BucketOf(a, t)
  /\ BucketOf(a, t) + Bucket(a) <= now - EndOffset(a)

(* The bucket of t lies between start_offset and end_offset ago. *)
InWindow(a, t) ==
  /\ now - StartOffset(a) <= BucketOf(a, t)
  /\ BucketOf(a, t) + Bucket(a) <= now - EndOffset(a)

(* SELECT ... FROM telemetry GROUP BY bucket, for the buckets of the window. *)
Rows(a) == {t \in raw : InWindow(a, t)}

(* The refresh policy replaces the buckets of its window. *)
Refresh(a) ==
  /\ up
  /\ agg' = [agg EXCEPT ![a] = {t \in @ : ~InWindow(a, t)} \cup Rows(a)]
  /\ last' = [last EXCEPT ![a] = now]
  /\ UNCHANGED <<now, up, since, stored, raw>>

(* Chunks of a day are dropped whole. *)
ChunkEnd(t) == t - (t % Day) + Day

(* The retention policy.  It leaves the aggregates alone. *)
Retain ==
  /\ up
  /\ raw' = {t \in raw : ChunkEnd(t) > now - Month}
  /\ raw' # raw
  /\ UNCHANGED <<now, up, since, stored, agg, last>>

(* While the database is up, a refresh comes no later than its schedule    *)
(* says; after an outage it comes first of all.                            *)
OnSchedule == \A a \in Aggregates : now < last[a] + Schedule(a)

Tick ==
  /\ now < MaxTime
  /\ IF up THEN OnSchedule ELSE now < since + MaxOutage
  /\ now' = now + 1
  /\ UNCHANGED <<up, since, stored, raw, agg, last>>

(* Bound: two outages do not follow each other without the refreshes that  *)
(* are due between them.                                                   *)
DbDown ==
  /\ up
  /\ MaxOutage > 0
  /\ \A a \in Aggregates : now <= last[a] + Schedule(a)
  /\ up' = FALSE
  /\ since' = now
  /\ UNCHANGED <<now, stored, raw, agg, last>>

DbUp ==
  /\ ~up
  /\ now > since
  /\ up' = TRUE
  /\ since' = now
  /\ UNCHANGED <<now, stored, raw, agg, last>>

Next ==
  \/ Insert
  \/ \E a \in Aggregates : Refresh(a)
  \/ Retain
  \/ Tick
  \/ DbDown
  \/ DbUp

Spec == Init /\ [][Next]_vars
-----------------------------------------------------------------------------
(* The endpoint.  validate_range. *)
Valid(frm, to) == frm < to /\ to - frm <= MaxRange

(* select_interval *)
Selected(frm, to) ==
  IF to - frm < Hour THEN "raw"
  ELSE IF to - frm <= Week THEN "1min" ELSE "1hour"

(* Mutant of Answered: a bucket that starts at from is left out. *)
AnsweredAfter(i, frm, to) ==
  IF i = "raw" THEN {t \in raw : frm <= t /\ t < to}
  ELSE {t \in agg[i] : frm < BucketOf(i, t) /\ BucketOf(i, t) < to}

(* _query_raw and _query_agg: a bucket is in the range if its start is. *)
Answered(i, frm, to) ==
  IF i = "raw" THEN {t \in raw : frm <= t /\ t < to}
  ELSE {t \in agg[i] : frm <= BucketOf(i, t) /\ BucketOf(i, t) < to}
-----------------------------------------------------------------------------
(* Every variable has its type; what is shown has been stored. *)
TypeOK ==
  /\ now \in 0..MaxTime
  /\ up \in BOOLEAN
  /\ since \in 0..now
  /\ stored \subseteq 0..now
  /\ raw \subseteq stored
  /\ agg \in [Aggregates -> SUBSET stored]
  /\ last \in [Aggregates -> 0..now]

(* A refresh never takes out of an aggregate what retention has dropped    *)
(* from telemetry: the history of 1 minute and 1 hour is kept for ever.    *)
AggregatesOutliveRaw ==
  [][\A a \in Aggregates : agg[a] \subseteq agg'[a]]_vars

(* Once its lag has passed, every sample ever committed is in both         *)
(* aggregates, also one that was committed up to MaxStall late, in a       *)
(* bucket that was refreshed before or after an outage of up to MaxOutage  *)
(* that it waited for in the buffer of ingest.                             *)
AggregatesComplete ==
  \A a \in Aggregates, t \in stored :
    now > BucketOf(a, t) + Lag(a) => t \in agg[a]

Width(i) == IF i = "raw" THEN 0 ELSE Bucket(i)

(* An answer at resolution i is off by less than one bucket at each end: it *)
(* holds every sample of the range that is older than the lag, save those   *)
(* of the bucket from lies in, and none outside but the rest of the last    *)
(* bucket.                                                                  *)
OffByOneBucket(i, frm, to) ==
  LET answer == Answered(i, frm, to)
      due(t) == IF i = "raw" THEN t >= now - Month
                ELSE now > BucketOf(i, t) + Lag(i)
      whole  == IF i = "raw" THEN frm ELSE BucketOf(i, frm + Bucket(i) - 1)
  IN  /\ {t \in stored : whole <= t /\ t < to /\ due(t)} \subseteq answer
      /\ \A t \in answer : frm <= t /\ t < to + Width(i)

(* Every answer of get_telemetry to a range it accepts, at the resolution   *)
(* it chooses itself, is off by less than one bucket at each end, and that  *)
(* is no more than the range: it never chooses a bucket wider than it.      *)
AnswersOffByOneBucket ==
  \A frm \in 0..now, to \in 0..(now + 1) :
    Valid(frm, to) => /\ OffByOneBucket(Selected(frm, to), frm, to)
                      /\ Width(Selected(frm, to)) <= to - frm
=============================================================================
