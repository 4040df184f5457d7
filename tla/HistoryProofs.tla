--------------------------- MODULE HistoryProofs ---------------------------
(***************************************************************************)
(* What the policies of the schema guarantee for every value of the        *)
(* intervals, stalls and outages that HistoryAssumption admits, and for    *)
(* any number of samples: no aggregate loses a sample to retention, every  *)
(* sample reaches both aggregates in time, and an answer of the endpoint   *)
(* is off by less than one bucket at each end.                             *)
(***************************************************************************)
EXTENDS History, TLAPS

(* The latest time of the last refresh that can have missed a sample of    *)
(* the bucket.                                                             *)
LatestMiss(a, t) == BucketOf(a, t) + Bucket(a) + Greater(EndOffset(a), MaxStall)

(* Types, without the bounds of the run.                                   *)
TypeInv ==
  /\ now \in Nat
  /\ now <= MaxTime
  /\ up \in BOOLEAN
  /\ since \in 0..now
  /\ stored \subseteq 0..now
  /\ raw \subseteq stored
  /\ agg \in [Aggregates -> SUBSET stored]
  /\ last \in [Aggregates -> 0..now]

(* The last refresh of an aggregate is not longer ago than its schedule    *)
(* and one outage.                                                         *)
Scheduled ==
  \A a \in Aggregates :
    /\ now <= last[a] + Schedule(a) + MaxOutage
    /\ ~up => since <= last[a] + Schedule(a) /\ now <= since + MaxOutage

(* Only retention takes a row away, and only with its chunk.               *)
Retained == \A t \in stored \ raw : ChunkEnd(t) <= now - Month

(* A sample an aggregate has not seen is one its last refresh could not    *)
(* yet see.                                                                *)
Missed ==
  \A a \in Aggregates : \A t \in stored \ agg[a] : last[a] <= LatestMiss(a, t)

HistoryInv == TypeInv /\ Scheduled /\ Retained /\ Missed
-----------------------------------------------------------------------------
(* The intervals of a policy.                                              *)
LEMMA Intervals ==
  ASSUME NEW a \in Aggregates
  PROVE  /\ Bucket(a) \in Nat \ {0}
         /\ StartOffset(a) \in Nat
         /\ EndOffset(a) \in Nat
         /\ Schedule(a) \in Nat
         /\ MaxStall \in Nat /\ MaxOutage \in Nat /\ MaxTime \in Nat
         /\ Month \in Nat /\ Day \in Nat \ {0}
         /\ StartOffset(a) <= Month
         /\ Greater(EndOffset(a), MaxStall) \in Nat
         /\ Greater(EndOffset(a), MaxStall) >= EndOffset(a)
         /\ Greater(EndOffset(a), MaxStall) >= MaxStall
         /\ Bucket(a) + Greater(EndOffset(a), MaxStall) + Schedule(a) + MaxOutage
              <= StartOffset(a)
<1>1. /\ HalfMinute \in Nat /\ Minute \in Nat \ {0} /\ FiveMinutes \in Nat
      /\ Hour \in Nat \ {0} /\ Day \in Nat \ {0}
      /\ Month \in Nat /\ MaxStall \in Nat /\ MaxOutage \in Nat /\ MaxTime \in Nat
      /\ 2 * Hour <= Month /\ 2 * Day <= Month
  BY HistoryAssumption
<1>2. Lag(a) <= StartOffset(a)
  BY HistoryAssumption
<1> QED
  BY <1>1, <1>2 DEF Aggregates, Bucket, StartOffset, EndOffset, Schedule, Lag, Greater

(* time_bucket: a sample lies in its bucket.                               *)
LEMMA InBucket ==
  ASSUME NEW a \in Aggregates, NEW t \in Nat
  PROVE  /\ BucketOf(a, t) \in Int
         /\ BucketOf(a, t) <= t
         /\ t < BucketOf(a, t) + Bucket(a)
<1>1. Bucket(a) \in Nat \ {0}
  BY Intervals
<1>2. t % Bucket(a) \in 0..(Bucket(a) - 1)
  BY <1>1
<1> QED
  BY <1>1, <1>2 DEF BucketOf

(* A sample lies before the end of its chunk.                              *)
LEMMA InChunk ==
  ASSUME NEW t \in Nat
  PROVE  ChunkEnd(t) \in Int /\ t < ChunkEnd(t)
<1>1. Day \in Nat \ {0}
  BY HistoryAssumption
<1>2. t % Day \in 0..(Day - 1)
  BY <1>1
<1> QED
  BY <1>1, <1>2 DEF ChunkEnd

(* A row that retention has taken is out of the window of every refresh.   *)
LEMMA DroppedOutOfWindow ==
  ASSUME TypeInv, Retained, NEW a \in Aggregates, NEW t \in stored \ raw
  PROVE  now - StartOffset(a) > BucketOf(a, t)
<1>1. t \in Nat /\ now \in Nat
  BY DEF TypeInv
<1>2. ChunkEnd(t) <= now - Month
  BY DEF Retained
<1> QED
  BY <1>1, <1>2, Intervals, InBucket, InChunk

(* A sample that an aggregate misses is not yet out of the window of its   *)
(* refresh.                                                                *)
LEMMA MissedInReach ==
  ASSUME TypeInv, Scheduled, Missed,
         NEW a \in Aggregates, NEW t \in stored \ agg[a]
  PROVE  now <= BucketOf(a, t) + Lag(a) /\ now - StartOffset(a) <= BucketOf(a, t)
<1>1. t \in Nat /\ now \in Nat /\ last[a] \in Nat
  BY DEF TypeInv
<1>2. last[a] <= LatestMiss(a, t) /\ now <= last[a] + Schedule(a) + MaxOutage
  BY DEF Missed, Scheduled
<1> QED
  BY <1>1, <1>2, Intervals, InBucket DEF LatestMiss, Lag
-----------------------------------------------------------------------------
LEMMA InitHistoryInv == Init => HistoryInv
<1> SUFFICES ASSUME Init PROVE HistoryInv
  OBVIOUS
<1>1. MaxTime \in Nat
  BY HistoryAssumption
<1>2. TypeInv
  BY <1>1 DEF Init, TypeInv
<1>3. \A a \in Aggregates : Schedule(a) \in Nat /\ MaxOutage \in Nat
  BY Intervals
<1>4. Scheduled
  BY <1>3 DEF Init, Scheduled
<1> QED
  BY <1>2, <1>4 DEF Init, HistoryInv, Retained, Missed

(* A sample is committed, taken before the last start of the database      *)
(* perhaps: its lateness is what counts.                                   *)
LEMMA InsertHistoryInv == HistoryInv /\ Insert => HistoryInv'
<1> SUFFICES ASSUME HistoryInv,
                    NEW t \in 0..now,
                    now - t <= MaxStall,
                    stored' = stored \cup {t}, raw' = raw \cup {t},
                    UNCHANGED <<now, up, since, agg, last>>
             PROVE  HistoryInv'
  BY DEF Insert, Stamps
<1>1. now \in Nat
  BY DEF HistoryInv, TypeInv
<1>2. t \in 0..now /\ t \in Nat
  BY <1>1
<1>3. TypeInv'
  BY <1>2 DEF HistoryInv, TypeInv
<1>4. Scheduled'
  BY DEF HistoryInv, Scheduled
<1>5. Retained'
  BY DEF HistoryInv, Retained
<1>6. Missed'
  <2> SUFFICES ASSUME NEW a \in Aggregates, NEW u \in stored' \ agg'[a]
               PROVE  last[a] <= LatestMiss(a, u)
    BY DEF Missed, LatestMiss, BucketOf
  <2>1. CASE u \in stored
    BY <2>1 DEF HistoryInv, Missed
  <2>2. CASE u = t
    <3>1. last[a] \in 0..now
      BY DEF HistoryInv, TypeInv
    <3> QED
      BY <1>1, <1>2, <2>2, <3>1, Intervals, InBucket DEF LatestMiss
  <2> QED
    BY <2>1, <2>2
<1> QED
  BY <1>3, <1>4, <1>5, <1>6 DEF HistoryInv

(* What a refresh leaves in the aggregate it refreshes: all it had, and    *)
(* the rows of its window.                                                 *)
LEMMA RefreshKeeps ==
  ASSUME HistoryInv, NEW a \in Aggregates, Refresh(a)
  PROVE  /\ agg' \in [Aggregates -> SUBSET stored]
         /\ agg'[a] = agg[a] \cup Rows(a)
         /\ \A b \in Aggregates : b # a => agg'[b] = agg[b]
<1>1. agg \in [Aggregates -> SUBSET stored] /\ raw \subseteq stored
  BY DEF HistoryInv, TypeInv
<1>2. agg'[a] = {t \in agg[a] : ~InWindow(a, t)} \cup Rows(a)
  BY <1>1 DEF Refresh
<1>3. ASSUME NEW t \in agg[a], InWindow(a, t)
      PROVE  t \in Rows(a)
  <2>1. t \in stored
    BY <1>1
  <2>2. t \in raw
    <3> SUFFICES ASSUME t \notin raw PROVE FALSE
      OBVIOUS
    <3>1. now - StartOffset(a) > BucketOf(a, t)
      BY <2>1, DroppedOutOfWindow DEF HistoryInv
    <3>2. now \in Nat /\ t \in Nat
      BY <2>1 DEF HistoryInv, TypeInv
    <3> QED
      BY <1>3, <3>1, <3>2, Intervals, InBucket DEF InWindow
  <2> QED
    BY <1>3, <2>2 DEF Rows
<1>4. Rows(a) \subseteq stored
  BY <1>1 DEF Rows
<1> QED
  BY <1>1, <1>2, <1>3, <1>4 DEF Refresh

(* A refresh runs.                                                         *)
LEMMA RefreshHistoryInv ==
  ASSUME HistoryInv, NEW a \in Aggregates, Refresh(a)
  PROVE  HistoryInv'
<1>1. /\ UNCHANGED <<now, up, since, stored, raw>>
      /\ up
      /\ last' = [last EXCEPT ![a] = now]
  BY DEF Refresh
<1>2. TypeInv'
  BY <1>1, RefreshKeeps DEF HistoryInv, TypeInv
<1>3. Scheduled'
  <2> SUFFICES ASSUME NEW b \in Aggregates
               PROVE  now <= last'[b] + Schedule(b) + MaxOutage
    BY <1>1 DEF Scheduled
  <2>1. CASE b = a
    <3>1. last'[b] = now /\ now \in Nat
      BY <1>1, <2>1 DEF HistoryInv, TypeInv
    <3> QED
      BY <3>1, Intervals
  <2>2. CASE b # a
    BY <1>1, <2>2 DEF HistoryInv, TypeInv, Scheduled
  <2> QED
    BY <2>1, <2>2
<1>4. Retained'
  BY <1>1 DEF HistoryInv, Retained
<1>5. Missed'
  <2> SUFFICES ASSUME NEW b \in Aggregates, NEW t \in stored, t \notin agg'[b]
               PROVE  last'[b] <= LatestMiss(b, t)
    BY <1>1 DEF Missed, LatestMiss, BucketOf
  <2>1. CASE b # a
    <3>1. last'[b] = last[b] /\ agg'[b] = agg[b]
      BY <1>1, <2>1, RefreshKeeps DEF HistoryInv, TypeInv
    <3> QED
      BY <3>1 DEF HistoryInv, Missed
  <2>2. CASE b = a
    <3>1. t \notin agg[a] /\ t \notin Rows(a) /\ t \in stored
      BY <2>2, RefreshKeeps
    <3>2. now <= BucketOf(a, t) + Lag(a) /\ now - StartOffset(a) <= BucketOf(a, t)
      BY <3>1, MissedInReach DEF HistoryInv
    <3>3. now \in Nat /\ t \in Nat
      <4>1. stored \subseteq 0..now /\ now \in Nat
        BY DEF HistoryInv, TypeInv
      <4>2. t \in 0..now
        BY <4>1
      <4> QED
        BY <4>1, <4>2
    <3>4. t \in raw
      BY <3>1, <3>2, <3>3, DroppedOutOfWindow, Intervals, InBucket DEF HistoryInv
    <3>5. ~(BucketOf(a, t) + Bucket(a) <= now - EndOffset(a))
      BY <3>1, <3>2, <3>4 DEF Rows, InWindow
    <3>6. last'[b] = now
      BY <1>1, <2>2 DEF HistoryInv, TypeInv
    <3> QED
      BY <2>2, <3>3, <3>5, <3>6, Intervals, InBucket DEF LatestMiss
  <2> QED
    BY <2>1, <2>2
<1> QED
  BY <1>2, <1>3, <1>4, <1>5 DEF HistoryInv

(* Retention runs.                                                         *)
LEMMA RetainHistoryInv == HistoryInv /\ Retain => HistoryInv'
<1> SUFFICES ASSUME HistoryInv,
                    raw' = {t \in raw : ChunkEnd(t) > now - Month},
                    UNCHANGED <<now, up, since, stored, agg, last>>
             PROVE  HistoryInv'
  BY DEF Retain
<1>1. TypeInv' /\ Scheduled' /\ Missed'
  BY DEF HistoryInv, TypeInv, Scheduled, Missed, LatestMiss, BucketOf
<1>2. Retained'
  <2> SUFFICES ASSUME NEW t \in stored, t \notin raw'
               PROVE  ChunkEnd(t) <= now - Month
    BY DEF Retained, ChunkEnd
  <2>1. t \in Nat /\ now \in Nat /\ Month \in Nat
    BY HistoryAssumption DEF HistoryInv, TypeInv
  <2> QED
    BY <2>1, InChunk DEF HistoryInv, Retained
<1> QED
  BY <1>1, <1>2 DEF HistoryInv

(* Time passes.                                                            *)
LEMMA TickHistoryInv == HistoryInv /\ Tick => HistoryInv'
<1> SUFFICES ASSUME HistoryInv, Tick PROVE HistoryInv'
  OBVIOUS
<1>1. /\ now \in Nat /\ since \in Nat /\ since <= now
      /\ now < MaxTime /\ now' = now + 1 /\ now' \in Nat
      /\ UNCHANGED <<up, since, stored, raw, agg, last>>
      /\ MaxTime \in Nat /\ Month \in Nat
  BY HistoryAssumption DEF HistoryInv, TypeInv, Tick
<1>2. 0..now \subseteq 0..now'
  BY <1>1
<1>3. TypeInv'
  BY <1>1, <1>2 DEF HistoryInv, TypeInv
<1>4. Scheduled'
  <2> SUFFICES ASSUME NEW a \in Aggregates
               PROVE  /\ now' <= last[a] + Schedule(a) + MaxOutage
                      /\ ~up => /\ since <= last[a] + Schedule(a)
                                /\ now' <= since + MaxOutage
    BY <1>1 DEF Scheduled
  <2>1. last[a] \in Nat /\ Schedule(a) \in Nat /\ MaxOutage \in Nat
    BY Intervals DEF HistoryInv, TypeInv
  <2>2. CASE up
    <3>1. now < last[a] + Schedule(a)
      BY <2>2 DEF Tick, OnSchedule
    <3> QED
      BY <1>1, <2>1, <2>2, <3>1
  <2>3. CASE ~up
    <3>1. now < since + MaxOutage /\ since <= last[a] + Schedule(a)
      BY <2>3 DEF Tick, HistoryInv, Scheduled
    <3> QED
      BY <1>1, <2>1, <2>3, <3>1
  <2> QED
    BY <2>2, <2>3
<1>5. Retained'
  <2> SUFFICES ASSUME NEW t \in stored \ raw
               PROVE  ChunkEnd(t) <= now' - Month
    BY <1>1 DEF Retained, ChunkEnd
  <2>1. t \in Nat
    BY DEF HistoryInv, TypeInv
  <2>2. ChunkEnd(t) <= now - Month
    BY DEF HistoryInv, Retained
  <2> QED
    BY <1>1, <2>1, <2>2, InChunk
<1>6. Missed'
  BY <1>1 DEF HistoryInv, Missed, LatestMiss, BucketOf
<1> QED
  BY <1>3, <1>4, <1>5, <1>6 DEF HistoryInv

(* The database stops or comes back.                                       *)
LEMMA DbHistoryInv == HistoryInv /\ (DbDown \/ DbUp) => HistoryInv'
<1> SUFFICES ASSUME HistoryInv, DbDown \/ DbUp PROVE HistoryInv'
  OBVIOUS
<1>1. /\ UNCHANGED <<now, stored, raw, agg, last>>
      /\ since' = now
      /\ now \in Nat
      /\ up' \in BOOLEAN
  BY DEF DbDown, DbUp, HistoryInv, TypeInv
<1>2. TypeInv' /\ Retained' /\ Missed'
  BY <1>1 DEF HistoryInv, TypeInv, Retained, ChunkEnd, Missed, LatestMiss, BucketOf
<1>3. Scheduled'
  <2> SUFFICES ASSUME NEW a \in Aggregates
               PROVE  /\ now <= last[a] + Schedule(a) + MaxOutage
                      /\ ~up' => /\ now <= last[a] + Schedule(a)
                                 /\ now <= now + MaxOutage
    BY <1>1 DEF Scheduled
  <2>1. now <= last[a] + Schedule(a) + MaxOutage
    BY DEF HistoryInv, Scheduled
  <2>2. ~up' => now <= last[a] + Schedule(a)
    BY DEF DbDown, DbUp
  <2> QED
    BY <1>1, <2>1, <2>2, Intervals
<1> QED
  BY <1>2, <1>3 DEF HistoryInv

LEMMA NextHistoryInv == HistoryInv /\ [Next]_vars => HistoryInv'
<1> SUFFICES ASSUME HistoryInv, [Next]_vars PROVE HistoryInv'
  OBVIOUS
<1>1. CASE Insert
  BY <1>1, InsertHistoryInv
<1>2. ASSUME NEW a \in Aggregates, Refresh(a) PROVE HistoryInv'
  BY <1>2, RefreshHistoryInv
<1>3. CASE Retain
  BY <1>3, RetainHistoryInv
<1>4. CASE Tick
  BY <1>4, TickHistoryInv
<1>5. CASE DbDown \/ DbUp
  BY <1>5, DbHistoryInv
<1>6. CASE UNCHANGED vars
  BY <1>6 DEF vars, HistoryInv, TypeInv, Scheduled, Retained, Missed, ChunkEnd,
              LatestMiss, BucketOf
<1> QED
  BY <1>1, <1>2, <1>3, <1>4, <1>5, <1>6 DEF Next

LEMMA HistoryInvariant == Spec => []HistoryInv
BY InitHistoryInv, NextHistoryInv, PTL DEF Spec
-----------------------------------------------------------------------------
(* Every variable keeps its type, and no row or aggregate holds a sample   *)
(* that was never committed.                                               *)
THEOREM HistoryTypeCorrect == Spec => []TypeOK
<1>1. HistoryInv => TypeOK
  BY DEF HistoryInv, TypeInv, TypeOK
<1> QED
  BY <1>1, HistoryInvariant, PTL

(* The refresh policies and retention of the schema fit: no refresh takes  *)
(* a sample out of an aggregate.                                           *)
THEOREM OutliveCorrect == Spec => AggregatesOutliveRaw
<1>1. HistoryInv /\ [Next]_vars
        => [\A a \in Aggregates : agg[a] \subseteq agg'[a]]_vars
  <2> SUFFICES ASSUME HistoryInv, Next
               PROVE  \A a \in Aggregates : agg[a] \subseteq agg'[a]
    OBVIOUS
  <2>1. ASSUME NEW b \in Aggregates, Refresh(b)
        PROVE  \A a \in Aggregates : agg[a] \subseteq agg'[a]
    BY <2>1, RefreshKeeps
  <2>2. CASE Insert \/ Retain \/ Tick \/ DbDown \/ DbUp
    BY <2>2 DEF Insert, Retain, Tick, DbDown, DbUp
  <2> QED
    BY <2>1, <2>2 DEF Next
<1> QED
  BY <1>1, HistoryInvariant, PTL DEF Spec, AggregatesOutliveRaw

(* Every committed sample is in both aggregates once the lag of each has   *)
(* passed, samples included that waited for the database in the buffer of  *)
(* ingest: for every stall and outage that HistoryAssumption admits.       *)
THEOREM CompleteCorrect == Spec => []AggregatesComplete
<1>1. HistoryInv => AggregatesComplete
  <2> SUFFICES ASSUME HistoryInv, NEW a \in Aggregates, NEW t \in stored,
                      now > BucketOf(a, t) + Lag(a), t \notin agg[a]
               PROVE  FALSE
    BY DEF AggregatesComplete
  <2>1. now <= BucketOf(a, t) + Lag(a)
    BY MissedInReach DEF HistoryInv
  <2>2. now \in Nat /\ t \in Nat
    BY DEF HistoryInv, TypeInv
  <2> QED
    BY <2>1, <2>2, Intervals, InBucket DEF Lag
<1> QED
  BY <1>1, HistoryInvariant, PTL

(* Multiples of the width of a bucket do not step over a bucket: one at    *)
(* most t is not above the start of the bucket of t.                       *)
LEMMA MultipleBelow ==
  ASSUME NEW b \in Nat \ {0}, NEW q \in Nat, NEW t \in Nat, b * q <= t
  PROVE  b * q <= t - (t % b)
<1> DEFINE p == t \div b
<1>1. p \in Nat /\ t = b * p + (t % b) /\ t % b \in 0..(b - 1)
  OBVIOUS
<1> HIDE DEF p
<1>2. SUFFICES ASSUME p < q PROVE FALSE
  <2>1. CASE q <= p
    <3>1. PICK d \in Nat : p = q + d
      <4>1. p - q \in Nat
        BY <1>1, <2>1
      <4> QED
        BY <1>1, <4>1
    <3>2. b * p = b * q + b * d /\ b * d >= 0 /\ b * q \in Nat
      BY <3>1
    <3> QED
      BY <1>1, <3>2
  <2> QED
    BY <1>1, <1>2, <2>1
<1>3. PICK d \in Nat : q = p + 1 + d
  <2>1. q - p - 1 \in Nat
    BY <1>1, <1>2
  <2> QED
    BY <1>1, <2>1
<1>4. b * q = b * p + b + b * d /\ b * d >= 0 /\ b * p \in Nat
  BY <1>1, <1>3
<1> QED
  BY <1>1, <1>4

(* The first whole bucket after from starts there or later, and the bucket *)
(* of every sample from then on starts at from or later.                   *)
LEMMA WholeBuckets ==
  ASSUME NEW a \in Aggregates, NEW frm \in Nat, NEW t \in Nat,
         BucketOf(a, frm + Bucket(a) - 1) <= t
  PROVE  frm <= BucketOf(a, t)
<1> DEFINE b == Bucket(a)
           u == frm + b - 1
           q == u \div b
<1>1. b \in Nat \ {0}
  BY Intervals
<1> HIDE DEF b
<1>2. u \in Nat
  BY <1>1
<1> HIDE DEF u
<1>3. q \in Nat /\ u = b * q + (u % b) /\ u % b \in 0..(b - 1)
  BY <1>1, <1>2
<1> HIDE DEF q
<1>4. b * q \in Nat
  BY <1>1, <1>3
<1>5. BucketOf(a, u) = b * q
  BY <1>2, <1>3, <1>4 DEF BucketOf, b
<1>6. b * q <= t
  BY <1>5 DEF u, b
<1>7. b * q <= BucketOf(a, t)
  BY <1>1, <1>3, <1>6, MultipleBelow DEF BucketOf, b
<1>8. frm <= b * q
  BY <1>1, <1>3, <1>4 DEF u
<1>9. BucketOf(a, t) \in Int
  BY InBucket
<1> QED
  BY <1>4, <1>7, <1>8, <1>9

(* A client may name the resolution itself (interval), and ask for times   *)
(* that have not come yet.                                                 *)
EveryIntervalOffByOneBucket ==
  \A i \in {"raw"} \cup Aggregates, frm \in Nat, to \in Nat :
    OffByOneBucket(i, frm, to)

(* Whatever range the endpoint is asked for, and from whichever of the     *)
(* three tables it answers, the answer is off by less than one bucket at   *)
(* each end.                                                               *)
THEOREM EveryIntervalCorrect == Spec => []EveryIntervalOffByOneBucket
<1>1. HistoryInv => EveryIntervalOffByOneBucket
  <2> SUFFICES ASSUME HistoryInv, NEW frm \in Nat, NEW to \in Nat,
                      NEW i \in {"raw"} \cup Aggregates
               PROVE  OffByOneBucket(i, frm, to)
    BY DEF EveryIntervalOffByOneBucket
  <2>1. /\ now \in Nat /\ frm \in Nat /\ to \in Nat /\ Month \in Nat
        /\ stored \subseteq Nat /\ raw \subseteq stored
    BY HistoryAssumption DEF HistoryInv, TypeInv
  <2>2. CASE i = "raw"
    <3>1. Answered(i, frm, to) = {t \in raw : frm <= t /\ t < to}
      BY <2>2 DEF Answered
    <3>2. ASSUME NEW t \in stored, t >= now - Month PROVE t \in raw
      <4>1. t \notin raw => ChunkEnd(t) <= now - Month
        BY DEF HistoryInv, Retained
      <4> QED
        BY <2>1, <3>2, <4>1, InChunk
    <3>3. \A t \in raw : t < to => t < to + Width(i)
      BY <2>1, <2>2 DEF Width
    <3> QED
      BY <2>2, <3>1, <3>2, <3>3 DEF OffByOneBucket
  <2>3. CASE i \in Aggregates
    <3>1. i # "raw"
      BY <2>3 DEF Aggregates
    <3>2. Answered(i, frm, to)
            = {t \in agg[i] : frm <= BucketOf(i, t) /\ BucketOf(i, t) < to}
      BY <3>1 DEF Answered
    <3>3. agg[i] \subseteq stored
      BY <2>3 DEF HistoryInv, TypeInv
    <3>4. ASSUME NEW t \in stored, now > BucketOf(i, t) + Lag(i) PROVE t \in agg[i]
      <4>1. t \notin agg[i] => now <= BucketOf(i, t) + Lag(i)
        BY <2>3, MissedInReach DEF HistoryInv
      <4>2. t \in Nat
        BY <2>1
      <4>3. BucketOf(i, t) + Lag(i) \in Int
        BY <2>3, <4>2, InBucket, Intervals DEF Lag
      <4> QED
        BY <2>1, <3>4, <4>1, <4>3
    <3>5. ASSUME NEW t \in stored, t < to,
                 BucketOf(i, frm + Bucket(i) - 1) <= t
          PROVE  frm <= BucketOf(i, t) /\ BucketOf(i, t) < to
      <4>1. t \in Nat
        BY <2>1
      <4>2. frm <= BucketOf(i, t)
        BY <2>1, <2>3, <3>5, <4>1, WholeBuckets
      <4> QED
        BY <2>1, <2>3, <3>5, <4>1, <4>2, InBucket
    <3>6. ASSUME NEW t \in agg[i], frm <= BucketOf(i, t), BucketOf(i, t) < to
          PROVE  frm <= t /\ t < to + Width(i)
      <4>1. t \in Nat
        BY <2>1, <3>3
      <4>2. Width(i) = Bucket(i) /\ Bucket(i) \in Nat
        BY <2>3, <3>1, Intervals DEF Width
      <4> QED
        BY <2>1, <2>3, <3>6, <4>1, <4>2, InBucket
    <3> QED
      BY <3>1, <3>2, <3>4, <3>5, <3>6 DEF OffByOneBucket
  <2> QED
    BY <2>2, <2>3
<1> QED
  BY <1>1, HistoryInvariant, PTL

(* And so are the answers at the resolution get_telemetry chooses, whose   *)
(* buckets are no wider than the range.                                    *)
THEOREM AnswersCorrect == Spec => []AnswersOffByOneBucket
<1>1. HistoryInv /\ EveryIntervalOffByOneBucket => AnswersOffByOneBucket
  <2> SUFFICES ASSUME HistoryInv, EveryIntervalOffByOneBucket,
                      NEW frm \in 0..now, NEW to \in 0..(now + 1)
               PROVE  /\ OffByOneBucket(Selected(frm, to), frm, to)
                      /\ Valid(frm, to) => Width(Selected(frm, to)) <= to - frm
    BY DEF AnswersOffByOneBucket
  <2>1. Selected(frm, to) \in {"raw"} \cup Aggregates
    BY DEF Selected, Aggregates
  <2>2. frm \in Nat /\ to \in Nat
    BY DEF HistoryInv, TypeInv
  <2>3. ASSUME Valid(frm, to) PROVE Width(Selected(frm, to)) <= to - frm
    <3>1. /\ Minute \in Nat /\ Hour \in Nat /\ Week \in Nat
          /\ Minute <= Hour /\ Hour <= Week
      BY HistoryAssumption
    <3> QED
      BY <2>2, <2>3, <3>1 DEF Valid, Selected, Width, Bucket
  <2> QED
    BY <2>1, <2>2, <2>3 DEF EveryIntervalOffByOneBucket
<1> QED
  BY <1>1, HistoryInvariant, EveryIntervalCorrect, PTL
=============================================================================
