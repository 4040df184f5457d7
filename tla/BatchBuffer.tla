---------------------------- MODULE BatchBuffer ----------------------------
(***************************************************************************)
(* The ingest service's sample buffer (ingest/batch_buffer.py): a deque of *)
(* samples and the time of its oldest one, flushed on size or on age and   *)
(* bounded by dropping from the left.  A buffer is a record; the operators *)
(* are the methods of class BatchBuffer.                                   *)
(***************************************************************************)
EXTENDS Integers, Sequences

CONSTANTS
  MaxSize,        \* batch_max_size
  MaxAge,         \* batch_max_age_seconds, in clock units
  OverflowLimit,  \* batch_overflow_limit; 0 stands for None and for 0
  NoTime          \* None, in _oldest_time

ASSUME BufferAssumption ==
  /\ MaxSize \in Nat \ {0}
  /\ MaxAge \in Nat
  /\ OverflowLimit \in Nat
  /\ NoTime \notin Nat

(* overflow_limit or (max_size * 100) *)
Limit == IF OverflowLimit = 0 THEN MaxSize * 100 ELSE OverflowLimit

Empty == [items |-> <<>>, oldest |-> NoTime]

(* Mutants of Trim: one sample too many; drops on the right. *)
TrimOneTooMany(items, oldest) ==
  LET over == Len(items) - Limit - 1
  IN  IF over > 0
      THEN [items  |-> SubSeq(items, over + 1, Len(items)),
            oldest |-> items[over + 1].time]
      ELSE [items |-> items, oldest |-> oldest]

TrimRight(items, oldest) ==
  IF Len(items) > Limit
  THEN [items |-> SubSeq(items, 1, Limit), oldest |-> items[1].time]
  ELSE [items |-> items, oldest |-> oldest]

(* The buffer that holds the newest Limit of items, none of them ever      *)
(* dropped silently from the right.                                        *)
Trim(items, oldest) ==
  LET over == Len(items) - Limit
  IN  IF over > 0
      THEN [items  |-> SubSeq(items, over + 1, Len(items)),
            oldest |-> items[over + 1].time]
      ELSE [items |-> items, oldest |-> oldest]

(* BatchBuffer.add *)
Add(b, s) ==
  Trim(Append(b.items, s), IF b.oldest = NoTime THEN s.time ELSE b.oldest)

(* The loop "for metric: buffer.add(Sample(...))" of on_update, in closed  *)
(* form; AddAllLoop (IngestWriterProofs) and AddAllIsFold (MCIngestWriter) *)
(* show that it is what repeated Add computes.                             *)
AddAll(b, ss) ==
  IF ss = <<>> THEN b
  ELSE Trim(b.items \o ss, IF b.oldest = NoTime THEN ss[1].time ELSE b.oldest)

(* Mutant of ShouldFlush: the age is not looked at. *)
FlushOnSizeOnly(b, now) ==
  /\ b.items # <<>>
  /\ Len(b.items) >= MaxSize

ShouldFlush(b, now) ==
  /\ b.items # <<>>
  /\ \/ Len(b.items) >= MaxSize
     \/ b.oldest # NoTime /\ now - b.oldest >= MaxAge

(* Mutant of Drained: the oldest time is not reset. *)
DrainedKeepsOldest(b) == [items |-> <<>>, oldest |-> b.oldest]

(* drain returns b.items and leaves this buffer. *)
Drained(b) == [items |-> <<>>, oldest |-> NoTime]
=============================================================================
