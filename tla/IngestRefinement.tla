-------------------------- MODULE IngestRefinement --------------------------
(***************************************************************************)
(* The ingest writer keeps the promise of TelemetryLog, and the table      *)
(* keeps the first of two samples with one key, for every buffer size,     *)
(* age, limit, set of machines and pattern of failures.                    *)
(***************************************************************************)
EXTENDS IngestWriterProofs, FiniteSetTheorems

(* Every stored sample was taken before every pending one: a batch is      *)
(* stored while all that is younger is still pending or already lost.      *)
StoredFirst ==
  \A i, j \in 1..Len(fate) :
    fate[i] = "stored" /\ fate[j] = "pending" => i < j

LogInv == TypeInv /\ AccountInv /\ StoredFirst

(* What an update does to the fates. *)
Taken ==
  /\ Len(fate') > Len(fate)
  /\ \A i \in 1..Len(fate') :
       IF i <= Len(fate)
       THEN \/ fate'[i] = fate[i]
            \/ fate[i] = "pending" /\ fate'[i] = "overflow"
       ELSE fate'[i] \in {"pending", "overflow"}

(* What the end of a write, or of the process, does to the fates: pending  *)
(* samples of the batch may be stored, and what stays pending is younger.  *)
SettledSome ==
  /\ Len(fate') = Len(fate)
  /\ \A i \in 1..Len(fate) :
       \/ fate'[i] = fate[i]
       \/ /\ fate[i] = "pending"
          /\ fate'[i] \in Fates \ {"pending"}
          /\ fate'[i] = "stored" => i \in Ids(inflight)
  /\ \A j \in 1..Len(fate) : fate'[j] = "pending" => j \notin Ids(inflight)

(* A sample of the batch under way is pending and taken before Behind. *)
LEMMA BatchIsPending ==
  ASSUME TypeInv, AccountInv, NEW i \in Ids(inflight)
  PROVE  /\ i \in 1..Len(fate)
         /\ i <= Behind
         /\ fate[i] = "pending"
<1>1. Len(log) \in Nat /\ Len(buf.items) \in Nat /\ Len(fate) = Len(log)
  BY LenProperties DEF TypeInv, TypeOK
<1>2. i \in 1..Behind /\ Behind <= Len(log) /\ Behind \in Nat
  BY <1>1 DEF AccountInv, BatchIsOlder, Behind
<1>3. i \in 1..Len(fate)
  BY <1>1, <1>2
<1> QED
  BY <1>2, <1>3 DEF AccountInv, PendingAreHeld

(* A row inserted for the i-th sample is a sample of the batch. *)
LEMMA InsertedIsOfBatch ==
  ASSUME TypeInv, AccountInv, NEW i \in 1..Len(fate),
         log[i] \in Inserted(inflight)
  PROVE  i \in Ids(inflight)
<1>1. Len(fate) = Len(log) /\ log[i].id = i
  BY DEF TypeInv, TypeOK, AccountInv, Numbered
<1>2. PICK m \in 1..Len(inflight) : log[i] = inflight[m]
  BY DEF Inserted
<1> QED
  BY <1>1, <1>2 DEF Ids

(* An update takes samples. *)
LEMMA UpdateTakes ==
  ASSUME TypeInv, AccountInv, NEW e \in Equipment, NEW n \in Metrics,
         Update(e, n)
  PROVE  Taken
<1> DEFINE p == Len(buf.items)
           q == Len(buf'.items)
           g == Len(log)
<1> HIDE DEF p, q, g
<1>1. n \in Nat \ {0}
  BY WriterAssumption DEF Metrics
<1>2. /\ p \in Nat /\ g \in Nat /\ p <= g /\ Len(fate) = g
      /\ Behind = g - p /\ buf.items \in Seq(Samples)
  BY LenProperties DEF TypeInv, TypeOK, AccountInv, Behind, p, g
<1>3. q = IF p + n > Limit THEN Limit ELSE p + n
  <2>1. /\ NewSamples(e, n) \in Seq(Samples)
        /\ Len(NewSamples(e, n)) = n
    BY <1>1, NewSamplesProperties DEF TypeInv
  <2>2. Extends(buf', buf, NewSamples(e, n))
    BY <2>1, AddAllProperties DEF Update, TypeInv, TypeOK, Buffers
  <2> QED
    BY <2>1, <2>2 DEF Extends, p, q
<1>4. q \in Nat /\ q <= p + n
  BY <1>1, <1>2, <1>3, LimitPositive
<1>5. fate' = [i \in 1..(g + n) |->
                 IF i \in ((g - p) + 1)..((g - p) + ((p + n) - q))
                 THEN "overflow"
                 ELSE IF i <= g THEN fate[i] ELSE "pending"]
  BY <1>2 DEF Update, g, p, q
<1>6. Len(fate') = g + n
  <2>1. log' = log \o NewSamples(e, n) /\ Len(NewSamples(e, n)) = n
        /\ NewSamples(e, n) \in Seq(Samples) /\ log \in Seq(Samples)
    BY <1>1, NewSamplesProperties DEF Update, TypeInv, TypeOK
  <2>2. Len(log') = g + n
    BY <2>1, ConcatProperties DEF g
  <2>3. Next
    BY DEF Next
  <2> QED
    BY <2>2, <2>3, TypeStep DEF TypeInv, TypeOK
<1>7. ASSUME NEW i \in 1..(g + n)
      PROVE  IF i <= g THEN \/ fate'[i] = fate[i]
                            \/ fate[i] = "pending" /\ fate'[i] = "overflow"
             ELSE fate'[i] \in {"pending", "overflow"}
  <2>1. CASE i > g
    BY <1>1, <1>2, <1>5, <2>1
  <2>2. CASE i <= g /\ i \notin ((g - p) + 1)..((g - p) + ((p + n) - q))
    BY <1>5, <2>2
  <2>3. CASE i <= g /\ i \in ((g - p) + 1)..((g - p) + ((p + n) - q))
    <3>1. i > Behind /\ i \in 1..Len(fate)
      BY <1>1, <1>2, <1>4, <2>3
    <3>2. fate[i] = "pending"
      BY <3>1 DEF AccountInv, PendingAreHeld
    <3> QED
      BY <1>5, <2>3, <3>2
  <2> QED
    BY <1>1, <1>2, <2>1, <2>2, <2>3
<1> QED
  BY <1>1, <1>2, <1>6, <1>7 DEF Taken

(* The end of a write and a stop of the process settle samples. *)
LEMMA EndsSettle ==
  ASSUME TypeInv, AccountInv, WriteCommitted \/ WriteFailed \/ Crash
  PROVE  SettledSome
<1>1. Len(fate') = Len(fate)
  <2>1. log' = log /\ Next
    BY DEF WriteCommitted, WriteFailed, Crash, Next
  <2> QED
    BY <2>1, TypeStep DEF TypeInv, TypeOK
<1>2. \A i \in Ids(inflight) : i \in 1..Len(fate) /\ fate[i] = "pending"
  BY BatchIsPending
<1>3. CASE WriteCommitted
  <2>1. fate' = [i \in 1..Len(fate) |->
                   IF i \notin Ids(inflight) THEN fate[i]
                   ELSE IF log[i] \in Inserted(inflight) THEN "stored"
                   ELSE "conflict"]
    BY <1>3 DEF WriteCommitted, Commit
  <2> QED
    BY <1>1, <1>2, <2>1 DEF SettledSome, Fates
<1>4. CASE WriteFailed
  <2>1. fate' = [i \in 1..Len(fate) |->
                   IF i \in Ids(inflight) THEN "failed" ELSE fate[i]]
    BY <1>4 DEF WriteFailed
  <2> QED
    BY <1>1, <1>2, <2>1 DEF SettledSome, Fates
<1>5. CASE Crash
  <2>1. PICK committed \in BOOLEAN :
          LET saved == IF committed THEN Inserted(inflight) ELSE {}
          IN  fate' = [i \in 1..Len(fate) |->
                         IF log[i] \in saved THEN "stored"
                         ELSE IF fate[i] # "pending" THEN fate[i]
                         ELSE IF committed /\ i \in Ids(inflight)
                              THEN "conflict" ELSE "crashed"]
    BY <1>5 DEF Crash
  <2> DEFINE saved == IF committed THEN Inserted(inflight) ELSE {}
  <2>2. \A i \in 1..Len(fate) : log[i] \in saved => i \in Ids(inflight)
    BY InsertedIsOfBatch
  <2> HIDE DEF saved
  <2>3. fate' = [i \in 1..Len(fate) |->
                   IF log[i] \in saved THEN "stored"
                   ELSE IF fate[i] # "pending" THEN fate[i]
                   ELSE IF committed /\ i \in Ids(inflight)
                        THEN "conflict" ELSE "crashed"]
    BY <2>1 DEF saved
  <2> QED
    BY <1>1, <1>2, <2>2, <2>3 DEF SettledSome, Fates
<1> QED
  BY <1>3, <1>4, <1>5

(* Every step takes samples, settles samples, or leaves the fates alone. *)
LEMMA FateSteps ==
  ASSUME TypeInv, AccountInv, [Next]_vars
  PROVE  Taken \/ SettledSome \/ UNCHANGED fate
BY UpdateTakes, EndsSettle DEF Next, Poll, Idle, Tick, vars

LEMMA LogStep == LogInv /\ [Next]_vars => LogInv'
<1> SUFFICES ASSUME LogInv, [Next]_vars PROVE LogInv'
  OBVIOUS
<1>1. TypeInv' /\ AccountInv'
  BY TypeStep, AccountStep DEF LogInv
<1>2. Len(fate) \in Nat /\ Len(fate') \in Nat
  BY <1>1, LenProperties DEF LogInv, TypeInv, TypeOK
<1>3. CASE Taken
  <2>1. ASSUME NEW i \in 1..Len(fate'), NEW j \in 1..Len(fate'),
               fate'[i] = "stored", fate'[j] = "pending"
        PROVE  i < j
    <3>1. i <= Len(fate) /\ fate[i] = "stored"
      BY <1>3, <2>1 DEF Taken
    <3>2. j <= Len(fate) => fate[j] = "pending"
      BY <1>3, <2>1 DEF Taken
    <3> QED
      BY <1>2, <2>1, <3>1, <3>2 DEF LogInv, StoredFirst
  <2> QED
    BY <1>1, <2>1 DEF LogInv, StoredFirst
<1>4. CASE SettledSome
  <2>1. ASSUME NEW i \in 1..Len(fate), NEW j \in 1..Len(fate),
               fate'[i] = "stored", fate'[j] = "pending"
        PROVE  i < j
    <3>1. fate[j] = "pending" /\ j \notin Ids(inflight)
      BY <1>4, <2>1 DEF SettledSome, Fates
    <3>2. CASE fate[i] = "stored"
      BY <3>1, <3>2 DEF LogInv, StoredFirst
    <3>3. CASE fate[i] # "stored"
      <4>1. i \in Ids(inflight)
        BY <1>4, <2>1, <3>3 DEF SettledSome
      <4>2. i <= Behind
        BY <4>1, BatchIsPending DEF LogInv
      <4>3. j > Behind
        BY <3>1 DEF LogInv, AccountInv, PendingAreHeld
      <4>4. Behind \in Int
        BY LenProperties DEF LogInv, TypeInv, TypeOK, Behind
      <4> QED
        BY <4>2, <4>3, <4>4
    <3> QED
      BY <3>2, <3>3
  <2>2. Len(fate') = Len(fate)
    BY <1>4 DEF SettledSome
  <2> QED
    BY <1>1, <2>1, <2>2 DEF LogInv, StoredFirst
<1>5. CASE UNCHANGED fate
  BY <1>1, <1>5 DEF LogInv, StoredFirst
<1> QED
  BY <1>3, <1>4, <1>5, FateSteps DEF LogInv

LEMMA LogInit == Init => LogInv
<1> SUFFICES ASSUME Init PROVE LogInv
  OBVIOUS
<1>1. TypeInv /\ AccountInv
  BY TypeInit, AccountInit
<1>2. Len(fate) = 0
  BY DEF Init
<1> QED
  BY <1>1, <1>2 DEF LogInv, StoredFirst

LEMMA LogCorrect == Spec => []LogInv
BY LogInit, LogStep, PTL DEF Spec
-----------------------------------------------------------------------------
(* The mapping of the fates to those of TelemetryLog. *)
Mapped == [i \in 1..Len(fate) |-> Settled(fate[i])]

LEMMA MappedLength ==
  ASSUME NEW f \in Seq(Fates)
  PROVE  Len([i \in 1..Len(f) |-> Settled(f[i])]) = Len(f)
<1> DEFINE g == [i \in 1..Len(f) |-> Settled(f[i])]
<1>1. Len(f) \in Nat
  BY LenProperties
<1>2. g \in [1..Len(f) -> {Settled(f[i]) : i \in 1..Len(f)}]
  OBVIOUS
<1> QED
  BY <1>1, <1>2, FunctionIsSeq

LEMMA TakeMaps ==
  ASSUME TypeInv, TypeInv', Taken
  PROVE  Promise!Take
<1>1. Len(Mapped) = Len(fate) /\ Len(fate) \in Nat
  BY MappedLength, LenProperties DEF TypeInv, TypeOK, Mapped
<1>2. Len(Mapped') = Len(fate') /\ Len(fate') \in Nat
  BY MappedLength, LenProperties DEF TypeInv, TypeOK, Mapped, Settled
<1>3. \A i \in 1..Len(fate') : Mapped'[i] = Settled(fate'[i])
  BY DEF Mapped, Settled
<1>4. \A i \in 1..Len(fate) : Mapped[i] = Settled(fate[i])
  BY DEF Mapped
<1>5. Len(Mapped') > Len(Mapped)
  BY <1>1, <1>2 DEF Taken
<1>6. ASSUME NEW i \in 1..Len(Mapped')
      PROVE  IF i <= Len(Mapped)
             THEN \/ Mapped'[i] = Mapped[i]
                  \/ Mapped[i] = "pending" /\ Mapped'[i] = "lost"
             ELSE Mapped'[i] \in {"pending", "lost"}
  <2>1. Mapped'[i] = Settled(fate'[i])
    BY <1>2, <1>3
  <2>2. i <= Len(fate) => Mapped[i] = Settled(fate[i])
    BY <1>2, <1>4
  <2> QED
    BY <1>1, <1>2, <2>1, <2>2 DEF Taken, Settled
<1> QED
  BY <1>5, <1>6 DEF Promise!Take, Mapped

LEMMA SettleMaps ==
  ASSUME LogInv, TypeInv', SettledSome
  PROVE  Promise!Settle
<1>1. Len(Mapped) = Len(fate)
  BY MappedLength DEF LogInv, TypeInv, TypeOK, Mapped
<1>2. Len(Mapped') = Len(fate') /\ Len(fate') = Len(fate)
  BY MappedLength DEF SettledSome, TypeInv, TypeOK, Mapped, Settled
<1>3. \A i \in 1..Len(fate) :
        Mapped'[i] = Settled(fate'[i]) /\ Mapped[i] = Settled(fate[i])
  BY <1>2 DEF Mapped, Settled
<1>4. \A i \in 1..Len(fate) :
        \/ Mapped'[i] = Mapped[i]
        \/ Mapped[i] = "pending" /\ Mapped'[i] \in {"stored", "lost"}
  BY <1>3 DEF SettledSome, Settled
<1>5. \A i, j \in 1..Len(fate) :
        Mapped[i] = "stored" /\ Mapped[j] = "pending" => i < j
  BY <1>3 DEF LogInv, StoredFirst, Settled
<1> QED
  BY <1>1, <1>2, <1>4, <1>5 DEF Promise!Settle, Mapped

(* The ingest writer implements TelemetryLog: across overflow, failed      *)
(* writes, lost answers and restarts, every sample is settled once, and    *)
(* the table receives samples in the order on_update took them.            *)
THEOREM RefinementCorrect == Spec => ImplementsLog
<1>1. Init => Promise!Init
  <2> SUFFICES ASSUME Init PROVE Mapped = <<>>
    BY DEF Promise!Init, Mapped
  <2>1. Len(fate) = 0
    BY DEF Init
  <2> QED
    BY <2>1 DEF Mapped
<1>2. LogInv /\ LogInv' /\ [Next]_vars => [Promise!Next]_Mapped
  <2> SUFFICES ASSUME LogInv, LogInv', [Next]_vars
               PROVE  Promise!Take \/ Promise!Settle \/ Mapped' = Mapped
    BY DEF Promise!Next
  <2>1. Taken \/ SettledSome \/ UNCHANGED fate
    BY FateSteps DEF LogInv
  <2>2. UNCHANGED fate => Mapped' = Mapped
    BY DEF Mapped, Settled
  <2> QED
    BY <2>1, <2>2, TakeMaps, SettleMaps DEF LogInv
<1> QED
  BY <1>1, <1>2, LogCorrect, PTL DEF Spec, ImplementsLog, Promise!Spec, Mapped

-----------------------------------------------------------------------------
(* The table.  The batch under way is a piece of log, in order; the table  *)
(* holds the stored samples; a key is there once; and what ON CONFLICT     *)
(* ignored has an older sample of its key in the table.                    *)
BatchFromLog ==
  /\ \A m \in 1..Len(inflight) :
       /\ inflight[m].id \in 1..Len(log)
       /\ inflight[m] = log[inflight[m].id]
  /\ \A l, m \in 1..Len(inflight) :
       l < m => inflight[l].id < inflight[m].id

RowsAreStored ==
  rows = {log[i] : i \in {k \in 1..Len(log) : fate[k] = "stored"}}

KeysOnce == \A r, s \in rows : Key(r) = Key(s) => r = s

OlderWins ==
  \A i \in 1..Len(log) : fate[i] = "conflict" =>
    \E r \in rows : Key(r) = Key(log[i]) /\ r.id < i

TableInv == BatchFromLog /\ RowsAreStored /\ KeysOnce /\ OlderWins

(* A sample of the batch that is not inserted has lost to an older one,    *)
(* which is in the table once the batch is.                                *)
LEMMA ConflictIsOlder ==
  ASSUME LogInv, TableInv, NEW m \in 1..Len(inflight),
         inflight[m] \notin Inserted(inflight)
  PROVE  \E r \in rows \cup Inserted(inflight) :
           Key(r) = Key(inflight[m]) /\ r.id < inflight[m].id
<1> DEFINE T == {j \in 1..Len(inflight) : Key(inflight[j]) = Key(inflight[m])}
<1>1. Len(inflight) \in Nat /\ Len(log) \in Nat /\ Len(fate) = Len(log)
  BY LenProperties DEF LogInv, TypeInv, TypeOK
<1>2. m \in T /\ T \subseteq Nat
  BY <1>1
<1>3. PICK a \in T : \A b \in T : a <= b
  BY <1>2, SmallestInSet
<1>4. a \in 1..Len(inflight) /\ Key(inflight[a]) = Key(inflight[m])
  BY <1>3
<1>5. CASE inflight[a] \in Inserted(inflight)
  <2>1. a # m /\ a <= m
    BY <1>2, <1>3, <1>5
  <2>2. a < m
    BY <1>1, <1>4, <2>1
  <2>3. inflight[a].id < inflight[m].id
    BY <1>4, <2>2 DEF TableInv, BatchFromLog
  <2> QED
    BY <1>4, <1>5, <2>3
<1>6. CASE inflight[a] \notin Inserted(inflight)
  <2>1. \A j \in 1..(a - 1) : j \in 1..Len(inflight) /\ ~(a <= j)
    BY <1>1, <1>4
  <2>2. \A j \in 1..(a - 1) : Key(inflight[j]) # Key(inflight[a])
    BY <1>3, <1>4, <2>1
  <2>3. PICK r \in rows : Key(r) = Key(inflight[a])
    BY <1>4, <1>6, <2>2 DEF Inserted
  <2>4. PICK k \in 1..Len(log) : r = log[k] /\ fate[k] = "stored"
    BY DEF TableInv, RowsAreStored
  <2>5. r.id = k
    BY <2>4 DEF LogInv, AccountInv, Numbered
  <2>6. inflight[m].id \in Ids(inflight)
    BY DEF Ids
  <2>7. inflight[m].id \in 1..Len(fate) /\ fate[inflight[m].id] = "pending"
    BY <2>6, BatchIsPending DEF LogInv
  <2>8. k < inflight[m].id
    BY <1>1, <2>4, <2>7 DEF LogInv, StoredFirst
  <2> QED
    BY <1>4, <2>3, <2>5, <2>8
<1> QED
  BY <1>5, <1>6

(* The table after the rows of saved were added, all or none of those that *)
(* the statement inserts.                                                  *)
LEMMA TableAfterSave ==
  ASSUME LogInv, TableInv, NEW saved \in {{}, Inserted(inflight)},
         log' = log, inflight' = <<>>, rows' = rows \cup saved,
         \A k \in 1..Len(log) :
           fate'[k] = "stored" <=> fate[k] = "stored" \/ log[k] \in saved,
         \A k \in 1..Len(log) :
           fate'[k] = "conflict" =>
             \/ fate[k] = "conflict"
             \/ /\ saved = Inserted(inflight)
                /\ k \in Ids(inflight)
                /\ log[k] \notin saved
  PROVE  TableInv'
<1>1. Len(inflight') = 0
  OBVIOUS
<1>2. BatchFromLog'
  BY <1>1 DEF BatchFromLog
<1>3. RowsAreStored'
  <2>1. ASSUME NEW r \in saved
        PROVE  \E k \in 1..Len(log) : r = log[k]
    <3>1. PICK m \in 1..Len(inflight) : r = inflight[m]
      BY <2>1 DEF Inserted
    <3> QED
      BY <3>1 DEF TableInv, BatchFromLog
  <2>2. saved = {log[i] : i \in {k \in 1..Len(log) : log[k] \in saved}}
    BY <2>1
  <2>3. rows = {log[i] : i \in {k \in 1..Len(log) : fate[k] = "stored"}}
    BY DEF TableInv, RowsAreStored
  <2>4. rows' = {log[i] : i \in {k \in 1..Len(log) : fate'[k] = "stored"}}
    BY <2>2, <2>3
  <2> QED
    BY <2>4 DEF RowsAreStored
<1>4. KeysOnce'
  <2>1. \A r \in rows, s \in saved : Key(r) # Key(s)
    BY DEF Inserted
  <2>2. ASSUME NEW r \in saved, NEW s \in saved, Key(r) = Key(s)
        PROVE  r = s
    <3>1. PICK l \in 1..Len(inflight) :
            /\ r = inflight[l]
            /\ \A j \in 1..(l - 1) : Key(inflight[j]) # Key(inflight[l])
      BY <2>2 DEF Inserted
    <3>2. PICK m \in 1..Len(inflight) :
            /\ s = inflight[m]
            /\ \A j \in 1..(m - 1) : Key(inflight[j]) # Key(inflight[m])
      BY <2>2 DEF Inserted
    <3>3. l \in Nat \ {0} /\ m \in Nat \ {0}
      BY LenProperties DEF LogInv, TypeInv, TypeOK
    <3>4. ~(l < m) /\ ~(m < l)
      BY <2>2, <3>1, <3>2, <3>3
    <3>5. l = m
      BY <3>3, <3>4
    <3> QED
      BY <3>1, <3>2, <3>5
  <2>3. \A r, s \in rows : Key(r) = Key(s) => r = s
    BY DEF TableInv, KeysOnce
  <2>4. \A r, s \in rows' : Key(r) = Key(s) => r = s
    BY <2>1, <2>2, <2>3
  <2> QED
    BY <2>4 DEF KeysOnce, Key
<1>5. OlderWins'
  <2>1. ASSUME NEW i \in 1..Len(log), fate'[i] = "conflict"
        PROVE  \E r \in rows' : Key(r) = Key(log[i]) /\ r.id < i
    <3>1. CASE fate[i] = "conflict"
      BY <3>1 DEF TableInv, OlderWins
    <3>2. CASE /\ saved = Inserted(inflight)
               /\ i \in Ids(inflight)
               /\ log[i] \notin saved
      <4>1. PICK m \in 1..Len(inflight) : inflight[m].id = i
        BY <3>2 DEF Ids
      <4>2. inflight[m] = log[i]
        BY <4>1 DEF TableInv, BatchFromLog
      <4> QED
        BY <3>2, <4>1, <4>2, ConflictIsOlder
    <3> QED
      BY <2>1, <3>1, <3>2
  <2> QED
    BY <2>1 DEF OlderWins, Key
<1> QED
  BY <1>2, <1>3, <1>4, <1>5 DEF TableInv

LEMMA TableInit == Init => TableInv
<1> SUFFICES ASSUME Init PROVE TableInv
  OBVIOUS
<1>1. Len(log) = 0 /\ Len(inflight) = 0 /\ rows = {}
  BY DEF Init
<1> QED
  BY <1>1 DEF TableInv, BatchFromLog, RowsAreStored, KeysOnce, OlderWins

LEMMA TableStep == LogInv /\ TableInv /\ [Next]_vars => TableInv'
<1> SUFFICES ASSUME LogInv, TableInv, [Next]_vars PROVE TableInv'
  OBVIOUS
<1>0. /\ log \in Seq(Samples) /\ buf.items \in Seq(Samples)
      /\ Len(log) \in Nat /\ Len(buf.items) \in Nat /\ Behind \in Nat
      /\ Len(fate) = Len(log)
  BY LenProperties DEF LogInv, TypeInv, TypeOK, AccountInv, Behind
<1>1. ASSUME NEW e \in Equipment, NEW n \in Metrics, Update(e, n)
      PROVE  TableInv'
  <2> DEFINE new == NewSamples(e, n)
             g   == Len(log)
  <2> HIDE DEF new, g
  <2>1. n \in Nat /\ n # 0 /\ g \in Nat
    BY <1>0, WriterAssumption DEF Metrics, g
  <2>2. new \in Seq(Samples) /\ Len(new) = n
    BY <2>1, NewSamplesProperties DEF LogInv, TypeInv, new
  <2>3. log' = log \o new
    BY <1>1 DEF Update, new
  <2>4. /\ Len(log') = Len(log) + n
        /\ \A i \in 1..Len(log) : i \in 1..Len(log') /\ log'[i] = log[i]
    <3>1. /\ Len(log') = g + n
          /\ \A i \in 1..(g + n) :
               log'[i] = IF i <= g THEN log[i] ELSE new[i - g]
      <4>1. log \in Seq(Samples)
        BY <1>0
      <4>2. /\ Len(log \o new) = Len(log) + Len(new)
            /\ \A i \in 1..(Len(log) + Len(new)) :
                 (log \o new)[i] = IF i <= Len(log) THEN log[i]
                                   ELSE new[i - Len(log)]
        BY <2>2, <4>1, ConcatProperties
      <4> QED
        BY <2>2, <2>3, <4>2 DEF g
    <3>2. \A i \in 1..g : i \in 1..(g + n) /\ i <= g
      BY <2>1
    <3> QED
      BY <3>1, <3>2 DEF g
  <2>5. Taken
    BY <1>1, UpdateTakes DEF LogInv
  <2>6. Len(fate') = Len(log')
    BY TypeStep DEF LogInv, TypeInv, TypeOK
  <2>7. \A k \in 1..Len(log') :
          /\ fate'[k] = "stored" => k \in 1..Len(log) /\ fate[k] = "stored"
          /\ fate'[k] = "conflict" => k \in 1..Len(log) /\ fate[k] = "conflict"
    BY <1>0, <2>1, <2>4, <2>5, <2>6 DEF Taken
  <2>8. \A k \in 1..Len(log) : fate[k] = "stored" => fate'[k] = "stored"
    BY <1>0, <2>4, <2>5, <2>6 DEF Taken
  <2>9. rows' = rows /\ inflight' = inflight
    BY <1>1 DEF Update
  <2>10. BatchFromLog'
    BY <2>4, <2>9 DEF TableInv, BatchFromLog
  <2>11. RowsAreStored'
    <3>1. {log'[i] : i \in {k \in 1..Len(log') : fate'[k] = "stored"}}
            = {log[i] : i \in {k \in 1..Len(log) : fate[k] = "stored"}}
      BY <2>4, <2>7, <2>8
    <3> QED
      BY <2>9, <3>1 DEF TableInv, RowsAreStored
  <2>12. KeysOnce' /\ OlderWins'
    BY <2>4, <2>7, <2>9 DEF TableInv, KeysOnce, OlderWins, Key
  <2> QED
    BY <2>10, <2>11, <2>12 DEF TableInv
<1>2. ASSUME Poll PROVE TableInv'
  <2>1. inflight' = buf.items /\ UNCHANGED <<rows, log, fate>>
    BY <1>2 DEF Poll
  <2>2. ASSUME NEW m \in 1..Len(buf.items)
        PROVE  /\ Behind + m \in 1..Len(log)
               /\ buf.items[m] = log[Behind + m]
               /\ buf.items[m].id = Behind + m
    <3>1. Behind + m \in 1..Len(log)
      BY <1>0 DEF Behind
    <3>2. buf.items[m] = log[Behind + m]
      BY DEF LogInv, AccountInv, BufferIsNewest, Behind
    <3> QED
      BY <3>1, <3>2 DEF LogInv, AccountInv, Numbered
  <2>3. \A m \in 1..Len(buf.items) :
          /\ buf.items[m].id \in 1..Len(log)
          /\ buf.items[m] = log[buf.items[m].id]
    BY <2>2
  <2>4. \A l, m \in 1..Len(buf.items) :
          l < m => buf.items[l].id < buf.items[m].id
    BY <1>0, <2>2
  <2>5. BatchFromLog'
    BY <2>1, <2>3, <2>4 DEF BatchFromLog
  <2> QED
    BY <2>1, <2>5 DEF TableInv, RowsAreStored, KeysOnce, OlderWins, Key
<1>3. ASSUME WriteCommitted PROVE TableInv'
  <2>1. fate' = [i \in 1..Len(fate) |->
                   IF i \notin Ids(inflight) THEN fate[i]
                   ELSE IF log[i] \in Inserted(inflight) THEN "stored"
                   ELSE "conflict"]
    BY <1>3 DEF WriteCommitted, Commit
  <2>2. /\ log' = log /\ inflight' = <<>>
        /\ rows' = rows \cup Inserted(inflight)
    BY <1>3 DEF WriteCommitted, Commit
  <2>3. \A i \in 1..Len(log) : log[i] \in Inserted(inflight) => i \in Ids(inflight)
    BY <1>0, InsertedIsOfBatch DEF LogInv
  <2>4. \A i \in Ids(inflight) : fate[i] = "pending"
    BY BatchIsPending DEF LogInv
  <2> QED
    BY <1>0, <2>1, <2>2, <2>3, <2>4, TableAfterSave
<1>4. ASSUME WriteFailed PROVE TableInv'
  <2>1. fate' = [i \in 1..Len(fate) |->
                   IF i \in Ids(inflight) THEN "failed" ELSE fate[i]]
    BY <1>4 DEF WriteFailed
  <2>2. log' = log /\ inflight' = <<>> /\ rows' = rows \cup {}
    BY <1>4 DEF WriteFailed
  <2>3. \A i \in Ids(inflight) : fate[i] = "pending"
    BY BatchIsPending DEF LogInv
  <2> QED
    BY <1>0, <2>1, <2>2, <2>3, TableAfterSave
<1>5. ASSUME Crash PROVE TableInv'
  <2>1. PICK committed \in BOOLEAN :
          LET saved == IF committed THEN Inserted(inflight) ELSE {}
          IN  /\ rows' = rows \cup saved
              /\ fate' = [i \in 1..Len(fate) |->
                            IF log[i] \in saved THEN "stored"
                            ELSE IF fate[i] # "pending" THEN fate[i]
                            ELSE IF committed /\ i \in Ids(inflight)
                                 THEN "conflict" ELSE "crashed"]
    BY <1>5 DEF Crash
  <2> DEFINE saved == IF committed THEN Inserted(inflight) ELSE {}
  <2>2. committed => saved = Inserted(inflight)
    OBVIOUS
  <2>3. saved \in {{}, Inserted(inflight)}
    OBVIOUS
  <2> HIDE DEF saved
  <2>4. /\ rows' = rows \cup saved
        /\ fate' = [i \in 1..Len(fate) |->
                      IF log[i] \in saved THEN "stored"
                      ELSE IF fate[i] # "pending" THEN fate[i]
                      ELSE IF committed /\ i \in Ids(inflight)
                           THEN "conflict" ELSE "crashed"]
    BY <2>1 DEF saved
  <2>5. log' = log /\ inflight' = <<>>
    BY <1>5 DEF Crash
  <2> QED
    BY <1>0, <2>2, <2>3, <2>4, <2>5, TableAfterSave
<1>6. ASSUME UNCHANGED <<rows, log, fate, inflight>> PROVE TableInv'
  BY <1>6 DEF TableInv, BatchFromLog, RowsAreStored, KeysOnce, OlderWins, Key
<1> QED
  BY <1>1, <1>2, <1>3, <1>4, <1>5, <1>6 DEF Next, Idle, Tick, vars

(* The table and the histories agree, a key is stored once, and of two     *)
(* samples with one key the one taken first stays.                         *)
THEOREM DbCorrect == Spec => []DbKeepsFirst
<1>1. Init => LogInv /\ TableInv
  BY LogInit, TableInit
<1>2. LogInv /\ TableInv /\ [Next]_vars => (LogInv /\ TableInv)'
  BY LogStep, TableStep
<1>3. LogInv /\ TableInv => DbKeepsFirst
  BY DEF TableInv, RowsAreStored, KeysOnce, OlderWins, DbKeepsFirst
<1> QED
  BY <1>1, <1>2, <1>3, PTL DEF Spec

-----------------------------------------------------------------------------
(* What a crash, or a write that fails, can take: at no time are more than *)
(* two buffers of samples neither stored nor given up, the batch under way *)
(* and the buffer that fills behind it.                                    *)
AtRisk == {i \in 1..Len(fate) : fate[i] = "pending"}

AtMostTwoBuffers == IsFiniteSet(AtRisk) /\ Cardinality(AtRisk) <= 2 * Limit

LEMMA IdsBounded ==
  ASSUME NEW S, NEW ss \in Seq(S)
  PROVE  IsFiniteSet(Ids(ss)) /\ Cardinality(Ids(ss)) <= Len(ss)
<1> DEFINE n == Len(ss)
           f == [i \in 1..n |-> ss[i].id]
<1>1. n \in Nat
  BY LenProperties
<1>2. f \in Surjection(1..n, Ids(ss))
  BY DEF Surjection, Ids
<1>3. IsFiniteSet(1..n) /\ Cardinality(1..n) = n
  BY <1>1, FS_Interval
<1> HIDE DEF n, f
<1>4. IsFiniteSet(Ids(ss)) /\ Cardinality(Ids(ss)) <= Cardinality(1..n)
  BY <1>2, <1>3, FS_Surjection
<1> QED
  BY <1>3, <1>4 DEF n

BatchBounded == Len(inflight) <= Limit

LEMMA BatchBoundedStep ==
  TypeInv /\ BatchBounded /\ [Next]_vars => BatchBounded'
<1> SUFFICES ASSUME TypeInv, BatchBounded, [Next]_vars PROVE BatchBounded'
  OBVIOUS
<1>1. CASE Poll
  BY <1>1 DEF Poll, BatchBounded, TypeInv, TypeOK
<1>2. CASE inflight' = <<>>
  <2>1. Len(inflight') = 0
    BY <1>2
  <2> QED
    BY <2>1, LimitPositive DEF BatchBounded
<1>3. CASE UNCHANGED inflight
  BY <1>3 DEF BatchBounded
<1> QED
  BY <1>1, <1>2, <1>3
  DEF Next, Update, Idle, WriteCommitted, WriteFailed, Crash, Tick, vars

(* A crash loses at most two buffers of samples, for every limit.          *)
THEOREM AtRiskCorrect == Spec => []AtMostTwoBuffers
<1>1. Init => BatchBounded
  <2> SUFFICES ASSUME Init PROVE BatchBounded
    OBVIOUS
  <2>1. Len(inflight) = 0
    BY DEF Init
  <2> QED
    BY <2>1, LimitPositive DEF BatchBounded
<1>2. TypeInv /\ AccountInv /\ BatchBounded => AtMostTwoBuffers
  <2> SUFFICES ASSUME TypeInv, AccountInv, BatchBounded PROVE AtMostTwoBuffers
    OBVIOUS
  <2> DEFINE B == Ids(inflight)
             R == (Behind + 1)..Len(log)
  <2>1. /\ Len(log) \in Nat /\ Len(fate) = Len(log) /\ Behind \in Nat
        /\ Len(buf.items) \in Nat /\ Len(buf.items) <= Limit
        /\ Behind = Len(log) - Len(buf.items)
        /\ Len(inflight) <= Limit /\ inflight \in Seq(Samples)
        /\ Len(inflight) \in Nat /\ Limit \in Nat
    BY LenProperties, LimitPositive
    DEF TypeInv, TypeOK, AccountInv, Behind, BatchBounded
  <2>2. IsFiniteSet(B) /\ Cardinality(B) <= Limit
    <3>1. IsFiniteSet(B) /\ Cardinality(B) <= Len(inflight)
      BY <2>1, IdsBounded
    <3> QED
      BY <2>1, <3>1, FS_CardinalityType
  <2>3. IsFiniteSet(R) /\ Cardinality(R) <= Limit
    <3> DEFINE p == Behind + 1
               q == Len(log)
    <3>1. p \in Int /\ q \in Int /\ q - p + 1 <= Limit /\ 0 <= Limit
      BY <2>1
    <3> HIDE DEF p, q
    <3>2. IsFiniteSet(p..q) /\ Cardinality(p..q) <= Limit
      BY <2>1, <3>1, FS_Interval
    <3> QED
      BY <3>2 DEF p, q
  <2>4. AtRisk \subseteq B \cup R
    <3> SUFFICES ASSUME NEW k \in 1..Len(fate), fate[k] = "pending"
                 PROVE  k \in B \/ k \in R
      BY DEF AtRisk
    <3>1. k \in B \/ k > Behind
      BY DEF AccountInv, PendingAreHeld
    <3> QED
      BY <2>1, <3>1
  <2> HIDE DEF B, R
  <2>5. IsFiniteSet(B \cup R) /\ Cardinality(B \cup R) <= 2 * Limit
    <3>1. /\ IsFiniteSet(B \cup R)
          /\ Cardinality(B \cup R)
               = Cardinality(B) + Cardinality(R) - Cardinality(B \cap R)
      BY <2>2, <2>3, FS_Union
    <3>2. IsFiniteSet(B \cap R)
      BY <2>2, FS_Intersection
    <3>3. /\ Cardinality(B) \in Nat /\ Cardinality(R) \in Nat
          /\ Cardinality(B \cap R) \in Nat
      BY <2>2, <2>3, <3>2, FS_CardinalityType
    <3> QED
      BY <2>1, <2>2, <2>3, <3>1, <3>3
  <2>6. IsFiniteSet(AtRisk) /\ Cardinality(AtRisk) <= Cardinality(B \cup R)
    BY <2>4, <2>5, FS_Subset
  <2>7. Cardinality(AtRisk) \in Nat /\ Cardinality(B \cup R) \in Nat
    BY <2>5, <2>6, FS_CardinalityType
  <2> QED
    BY <2>1, <2>5, <2>6, <2>7 DEF AtMostTwoBuffers
<1>3. Spec => [](TypeInv /\ AccountInv)
  BY AccountCorrect
<1> QED
  BY <1>1, <1>2, <1>3, BatchBoundedStep, PTL DEF Spec
=============================================================================
