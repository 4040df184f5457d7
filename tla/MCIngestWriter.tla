--------------------------- MODULE MCIngestWriter ---------------------------
(* IngestWriter for TLC, and the closed form AddAll against repeated Add.  *)
EXTENDS IngestWriter, SequencesExt

CONSTANTS e1, e2

SampleTimes == [time : 0..1]

(* Of a sample the buffer looks at the time only. *)
Buffers ==
  {[items |-> items, oldest |-> IF items = <<>> THEN NoTime ELSE items[1].time] :
     items \in BoundedSeq(SampleTimes, Limit)}

(* on_update's loop, one add after another, does what AddAll does: it drops *)
(* the same samples on the left and leaves the same oldest time, however    *)
(* full the buffer and however long the update.                             *)
ASSUME AddAllIsFold ==
  \A b \in Buffers : \A ss \in BoundedSeq(SampleTimes, Limit + 1) :
    AddAll(b, ss) = FoldLeft(Add, b, ss)
=============================================================================
