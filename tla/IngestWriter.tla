---------------------------- MODULE IngestWriter ----------------------------
(***************************************************************************)
(* The path of a sample from on_update to the telemetry table: on_update   *)
(* (an event-loop callback) adds samples to the buffer, the main loop of   *)
(* ingest/main.py drains it and awaits DbWriter.write_batch.  Updates go   *)
(* on arriving while the write is awaited, the write may fail before or    *)
(* after the database commits it, and the process may stop at any moment.  *)
(*                                                                         *)
(* log and fate are history variables: the samples taken, in order, and    *)
(* what became of each.                                                    *)
(***************************************************************************)
EXTENDS BatchBuffer

CONSTANTS
  Equipment,    \* equipment ids
  NumMetrics,   \* metrics of one machine
  MaxTime,      \* bound on the clock
  MaxSamples,   \* bound on the samples taken
  MaxCrashes    \* bound on the restarts of the process

ASSUME WriterAssumption ==
  /\ NumMetrics \in Nat
  /\ MaxTime \in Nat
  /\ MaxSamples \in Nat
  /\ MaxCrashes \in Nat

VARIABLES
  now,       \* the wall clock
  known,     \* known[e]: how many metrics st.metrics of e holds
  buf,       \* buffer
  inflight,  \* the batch write_batch is awaiting; <<>> while the loop sleeps
  rows,      \* the telemetry table
  crashes,   \* restarts so far
  log,       \* history: the samples taken
  fate       \* history: what became of each

vars == <<now, known, buf, inflight, rows, crashes, log, fate>>

Metrics == 1..NumMetrics

Samples == [id : Nat, time : Nat, eq : Equipment, metric : Nat]

Fates == {"pending", "stored", "conflict", "failed", "overflow", "crashed"}

(* The primary key of the table. *)
Key(s) == <<s.time, s.eq, s.metric>>

Ids(ss) == {ss[i].id : i \in 1..Len(ss)}
-----------------------------------------------------------------------------
Init ==
  /\ now = 0
  /\ known = [e \in Equipment |-> 0]
  /\ buf = Empty
  /\ inflight = <<>>
  /\ rows = {}
  /\ crashes = 0
  /\ log = <<>>
  /\ fate = <<>>

(* One sample per metric in st.metrics, all with the time of this call. *)
NewSamples(e, n) ==
  [k \in 1..n |-> [id |-> Len(log) + k, time |-> now, eq |-> e, metric |-> k]]

(* on_update: a notification has set one metric, a new one or a known one, *)
(* or another field; with no metric yet (n = 0) the handler returns.       *)
Update(e, n) ==
  /\ n \in {known[e], known[e] + 1} \cap Metrics
  /\ Len(log) + n <= MaxSamples
  /\ now + MaxAge <= MaxTime
  /\ known' = [known EXCEPT ![e] = n]
  /\ buf' = AddAll(buf, NewSamples(e, n))
  /\ log' = log \o NewSamples(e, n)
  /\ LET dropped == (Len(buf.items) + n) - Len(buf'.items)
         first   == Len(log) - Len(buf.items)
     IN  fate' = [i \in 1..(Len(fate) + n) |->
                    IF i \in (first + 1)..(first + dropped) THEN "overflow"
                    ELSE IF i <= Len(fate) THEN fate[i] ELSE "pending"]
  /\ UNCHANGED <<now, inflight, rows, crashes>>

(* One iteration of the main loop that flushes: drain comes before the     *)
(* await, so the buffer is empty while the write is under way.             *)
Poll ==
  /\ inflight = <<>>
  /\ ShouldFlush(buf, now)
  /\ inflight' = buf.items
  /\ buf' = Drained(buf)
  /\ UNCHANGED <<now, known, rows, crashes, log, fate>>

(* An iteration that finds nothing to flush goes back to sleep. *)
Idle ==
  /\ inflight = <<>>
  /\ ~ShouldFlush(buf, now)
  /\ UNCHANGED vars

(* Mutant of Inserted: the batch goes through a dict by key before         *)
(* executemany, so that its last sample of a key is kept.                  *)
InsertedLast(batch) ==
  {batch[i] : i \in {k \in 1..Len(batch) :
     /\ \A r \in rows : Key(r) # Key(batch[k])
     /\ \A j \in (k + 1)..Len(batch) : Key(batch[j]) # Key(batch[k])}}

(* INSERT ... ON CONFLICT (time, equipment_id, metric_name) DO NOTHING,    *)
(* row by row: a row whose key is in the table or in an earlier row of the *)
(* batch is skipped.                                                       *)
Inserted(batch) ==
  {batch[i] : i \in {k \in 1..Len(batch) :
     /\ \A r \in rows : Key(r) # Key(batch[k])
     /\ \A j \in 1..(k - 1) : Key(batch[j]) # Key(batch[k])}}

(* executemany is one transaction: all of the batch is inserted. *)
Commit(batch) ==
  /\ rows' = rows \cup Inserted(batch)
  /\ fate' = [i \in 1..Len(fate) |->
                IF i \notin Ids(batch) THEN fate[i]
                ELSE IF log[i] \in Inserted(batch) THEN "stored"
                ELSE "conflict"]

(* Mutant of WriteCommitted: the buffer is drained after the await. *)
WriteThenDrain ==
  /\ inflight # <<>>
  /\ Commit(inflight)
  /\ inflight' = <<>>
  /\ buf' = Drained(buf)
  /\ UNCHANGED <<now, known, crashes, log>>

(* write_batch returns, or it raises although the rows were committed (the *)
(* answer was lost): the loop logs the error and goes on in the same way.  *)
WriteCommitted ==
  /\ inflight # <<>>
  /\ Commit(inflight)
  /\ inflight' = <<>>
  /\ UNCHANGED <<now, known, buf, crashes, log>>

(* Mutant of WriteFailed: the batch is added to the buffer again. *)
WriteRequeued ==
  /\ inflight # <<>>
  /\ Len(inflight) + Len(buf.items) <= Limit
  /\ inflight' = <<>>
  /\ buf' = AddAll(buf, inflight)
  /\ UNCHANGED <<now, known, rows, crashes, log, fate>>

(* write_batch raises and nothing was committed; the batch is not retried. *)
WriteFailed ==
  /\ inflight # <<>>
  /\ inflight' = <<>>
  /\ fate' = [i \in 1..Len(fate) |->
                IF i \in Ids(inflight) THEN "failed" ELSE fate[i]]
  /\ UNCHANGED <<now, known, buf, rows, crashes, log>>

(* The process stops, by a signal or an error: the finally clause closes   *)
(* the connections and flushes nothing.  A batch under way is committed or *)
(* not.  The service is then started again.                                *)
Crash ==
  /\ crashes < MaxCrashes
  /\ crashes' = crashes + 1
  /\ known' = [e \in Equipment |-> 0]
  /\ buf' = Empty
  /\ inflight' = <<>>
  /\ \E committed \in BOOLEAN :
       LET saved == IF committed THEN Inserted(inflight) ELSE {}
       IN  /\ rows' = rows \cup saved
           /\ fate' = [i \in 1..Len(fate) |->
                         IF log[i] \in saved THEN "stored"
                         ELSE IF fate[i] # "pending" THEN fate[i]
                         ELSE IF committed /\ i \in Ids(inflight)
                              THEN "conflict" ELSE "crashed"]
  /\ UNCHANGED <<now, log>>

Tick ==
  /\ now < MaxTime
  /\ now' = now + 1
  /\ UNCHANGED <<known, buf, inflight, rows, crashes, log, fate>>

Next ==
  \/ \E e \in Equipment, n \in Metrics : Update(e, n)
  \/ Poll
  \/ Idle
  \/ WriteCommitted
  \/ WriteFailed
  \/ Crash
  \/ Tick

Spec == Init /\ [][Next]_vars

(* The loop polls every 0.2 s, the database answers a statement with a     *)
(* result or an error, and time passes.                                    *)
FairSpec ==
  /\ Spec
  /\ WF_vars(Poll)
  /\ WF_vars(WriteCommitted \/ WriteFailed)
  /\ WF_vars(Tick)
-----------------------------------------------------------------------------
(* Every variable has its type, and the buffer never holds more than       *)
(* batch_overflow_limit samples.                                           *)
TypeOK ==
  /\ now \in Nat
  /\ known \in [Equipment -> Nat]
  /\ buf \in [items : Seq(Samples), oldest : Nat \cup {NoTime}]
  /\ Len(buf.items) <= Limit
  /\ inflight \in Seq(Samples)
  /\ rows \subseteq Samples
  /\ crashes \in 0..MaxCrashes
  /\ log \in Seq(Samples)
  /\ fate \in Seq(Fates)
  /\ Len(fate) = Len(log)

(* The buffer holds the newest samples taken by this process, without a    *)
(* gap, whatever was dropped on the left while a write was awaited.        *)
BufferIsNewest ==
  \A i \in 1..Len(buf.items) :
    buf.items[i] = log[Len(log) - Len(buf.items) + i]

(* Nothing is lost silently: a sample that is not stored and was not       *)
(* dropped for a named reason is in the batch being written or in the      *)
(* buffer, in exactly one of them, and the batch is older than the buffer. *)
Accounted ==
  /\ {i \in 1..Len(fate) : fate[i] = "pending"}
       = Ids(inflight) \cup Ids(buf.items)
  /\ \A i \in Ids(inflight), j \in Ids(buf.items) : i < j

(* _oldest_time is the time of the leftmost sample, None on an empty       *)
(* buffer: the age test of should_flush looks at the right sample also     *)
(* after drops on the left, a drain and a restart.                         *)
OldestMatchesHead ==
  buf.oldest = IF buf.items = <<>> THEN NoTime ELSE buf.items[1].time

(* The table and the histories agree, and of two samples with one key the  *)
(* table keeps the one taken first: a sample is ignored by ON CONFLICT     *)
(* only in favour of a stored sample that was taken earlier.               *)
DbKeepsFirst ==
  /\ rows = {log[i] : i \in {k \in 1..Len(log) : fate[k] = "stored"}}
  /\ \A r, s \in rows : Key(r) = Key(s) => r = s
  /\ \A i \in 1..Len(log) : fate[i] = "conflict" =>
       \E r \in rows : Key(r) = Key(log[i]) /\ r.id < i

(* The writer implements TelemetryLog: every sample is settled once and    *)
(* the table receives samples in the order on_update took them, across     *)
(* overflow, failed writes, lost answers and restarts.                     *)
Settled(f) == IF f \in {"pending", "stored"} THEN f ELSE "lost"

Promise == INSTANCE TelemetryLog
             WITH fate <- [i \in 1..Len(fate) |-> Settled(fate[i])]

ImplementsLog == Promise!Spec

(* No sample stays in the buffer for ever, not even one that arrives alone *)
(* after a burst: size or age gets it into a batch.                        *)
EverySettled ==
  \A i \in 1..MaxSamples :
    (i <= Len(fate) /\ fate[i] = "pending")
      ~> (i <= Len(fate) /\ fate[i] # "pending")
=============================================================================
