--------------------------- MODULE WsSessionProofs ---------------------------
(***************************************************************************)
(* What holds of a WebSocket session for every set of machines, every size *)
(* of the queue and every number of requests and messages.                 *)
(***************************************************************************)
EXTENDS WsSession, SequenceTheorems, FiniteSetTheorems, TLAPS

(* Sequences of numbers: what happens to a stream when its last part is    *)
(* put in at the end of a queue, with or without a drop, or moved on.      *)
LEMMA MovedOn ==
  ASSUME NEW S, NEW a \in Seq(S), NEW q \in Seq(S), q # <<>>
  PROVE  (a \o <<Head(q)>>) \o Tail(q) = a \o q
<1>1. /\ Head(q) \in S /\ Tail(q) \in Seq(S) /\ Len(Tail(q)) = Len(q) - 1
      /\ \A i \in 1..Len(Tail(q)) : Tail(q)[i] = q[i + 1]
  BY HeadTailProperties
<1>2. Len(q) \in Nat \ {0}
  BY EmptySeq
<1> DEFINE h == <<Head(q)>>
<1>3. h \in Seq(S) /\ Len(h) = 1 /\ h[1] = q[1]
  BY <1>1
<1> HIDE DEF h
<1>4. h \o Tail(q) = q
  <2>1. /\ h \o Tail(q) \in Seq(S)
        /\ Len(h \o Tail(q)) = Len(q)
        /\ \A i \in 1..Len(q) :
             (h \o Tail(q))[i] = IF i <= 1 THEN h[i] ELSE Tail(q)[i - 1]
    <3>1. /\ h \o Tail(q) \in Seq(S)
          /\ Len(h \o Tail(q)) = Len(h) + Len(Tail(q))
          /\ \A i \in 1..(Len(h) + Len(Tail(q))) :
               (h \o Tail(q))[i] = IF i <= Len(h) THEN h[i]
                                   ELSE Tail(q)[i - Len(h)]
      <4>1. Tail(q) \in Seq(S) /\ h \in Seq(S)
        BY <1>1, <1>3
      <4> QED
        BY <4>1, ConcatProperties
    <3>2. Len(h) + Len(Tail(q)) = Len(q) /\ Len(h) = 1
      BY <1>1, <1>2, <1>3
    <3> QED
      BY <3>1, <3>2
  <2>2. ASSUME NEW i \in 1..Len(q) PROVE (h \o Tail(q))[i] = q[i]
    <3>1. CASE i = 1
      BY <1>3, <2>1, <3>1
    <3>2. CASE i # 1
      <4>1. i - 1 \in 1..Len(Tail(q)) /\ (i - 1) + 1 = i /\ ~(i <= 1)
        BY <1>1, <1>2, <3>2
      <4> QED
        BY <1>1, <2>1, <4>1
    <3> QED
      BY <3>1, <3>2
  <2> QED
    BY <2>1, <2>2, SeqEqual
<1> QED
  BY <1>1, <1>3, <1>4, ConcatAssociative DEF h

LEMMA PutLast ==
  ASSUME NEW S, NEW a \in Seq(S), NEW q \in Seq(S), NEW m \in S
  PROVE  LET t == a \o q
             u == a \o Append(q, m)
         IN  /\ Len(u) = Len(t) + 1
             /\ u[Len(u)] = m
             /\ \A i \in 1..Len(t) : u[i] = t[i]
<1> DEFINE o == <<m>>
           t == a \o q
<1>1. o \in Seq(S) /\ Len(o) = 1 /\ o[1] = m
  OBVIOUS
<1>2. Append(q, m) = q \o o
  BY AppendIsConcat
<1>3. a \o Append(q, m) = t \o o
  BY <1>1, <1>2, ConcatAssociative
<1>4. t \in Seq(S) /\ Len(t) \in Nat
  BY ConcatProperties, LenProperties
<1> HIDE DEF o, t
<1>5. /\ Len(t \o o) = Len(t) + 1
      /\ \A i \in 1..(Len(t) + 1) :
           (t \o o)[i] = IF i <= Len(t) THEN t[i] ELSE o[i - Len(t)]
  <2>1. t \in Seq(S) /\ o \in Seq(S) /\ Len(o) = 1
    BY <1>1, <1>4
  <2>2. /\ Len(t \o o) = Len(t) + Len(o)
        /\ \A i \in 1..(Len(t) + Len(o)) :
             (t \o o)[i] = IF i <= Len(t) THEN t[i] ELSE o[i - Len(t)]
    BY <2>1, ConcatProperties
  <2> QED
    BY <2>1, <2>2
<1>6. (t \o o)[Len(t) + 1] = m
  BY <1>1, <1>4, <1>5
<1>7. \A i \in 1..Len(t) : (t \o o)[i] = t[i]
  BY <1>4, <1>5
<1> QED
  BY <1>3, <1>5, <1>6, <1>7 DEF t

LEMMA PutDropping ==
  ASSUME NEW S, NEW a \in Seq(S), NEW q \in Seq(S), q # <<>>, NEW m \in S
  PROVE  LET t == a \o q
             u == a \o Append(Tail(q), m)
         IN  /\ Len(u) = Len(t)
             /\ Len(u) \in Nat \ {0}
             /\ u[Len(u)] = m
             /\ \A i \in 1..(Len(u) - 1) :
                  u[i] = t[IF i <= Len(a) THEN i ELSE i + 1]
<1> DEFINE r == Append(Tail(q), m)
           t == a \o q
           u == a \o r
<1>1. /\ Tail(q) \in Seq(S) /\ Len(Tail(q)) = Len(q) - 1
      /\ \A i \in 1..Len(Tail(q)) : Tail(q)[i] = q[i + 1]
      /\ Len(q) \in Nat \ {0} /\ Len(a) \in Nat
  BY HeadTailProperties, EmptySeq, LenProperties
<1>2. /\ r \in Seq(S) /\ Len(r) = Len(q) /\ r[Len(q)] = m
      /\ \A i \in 1..(Len(q) - 1) : r[i] = q[i + 1]
  <2>1. /\ r \in Seq(S) /\ Len(r) = Len(Tail(q)) + 1
        /\ r[Len(Tail(q)) + 1] = m
        /\ \A i \in 1..Len(Tail(q)) : r[i] = Tail(q)[i]
    BY <1>1, AppendProperties
  <2>2. Len(Tail(q)) + 1 = Len(q)
    BY <1>1
  <2> QED
    BY <1>1, <2>1, <2>2
<1> HIDE DEF r, u
<1>3. /\ Len(t) = Len(a) + Len(q)
      /\ \A i \in 1..(Len(a) + Len(q)) :
           t[i] = IF i <= Len(a) THEN a[i] ELSE q[i - Len(a)]
  BY ConcatProperties
<1>4. /\ Len(u) = Len(a) + Len(q)
      /\ \A i \in 1..(Len(a) + Len(q)) :
           u[i] = IF i <= Len(a) THEN a[i] ELSE r[i - Len(a)]
  <2>1. /\ Len(u) = Len(a) + Len(r)
        /\ \A i \in 1..(Len(a) + Len(r)) :
             u[i] = IF i <= Len(a) THEN a[i] ELSE r[i - Len(a)]
    <3>1. r \in Seq(S)
      BY <1>2
    <3> QED
      BY <3>1, ConcatProperties DEF u
  <2> QED
    BY <1>2, <2>1
<1> HIDE DEF t
<1>5. u[Len(u)] = m
  <2>1. /\ Len(u) \in 1..(Len(a) + Len(q)) /\ ~(Len(u) <= Len(a))
        /\ Len(u) - Len(a) = Len(q)
    BY <1>1, <1>4
  <2> QED
    BY <1>2, <1>4, <2>1
<1>6. ASSUME NEW i \in 1..(Len(u) - 1)
      PROVE  u[i] = t[IF i <= Len(a) THEN i ELSE i + 1]
  <2>1. i \in 1..(Len(a) + Len(q)) /\ i + 1 \in 1..(Len(a) + Len(q))
    BY <1>1, <1>4
  <2>2. CASE i <= Len(a)
    BY <1>3, <1>4, <2>1, <2>2
  <2>3. CASE ~(i <= Len(a))
    <3>1. /\ i - Len(a) \in 1..(Len(q) - 1) /\ ~(i + 1 <= Len(a))
          /\ (i - Len(a)) + 1 = (i + 1) - Len(a)
      BY <1>1, <1>4, <2>3
    <3> QED
      BY <1>2, <1>3, <1>4, <2>1, <2>3, <3>1
  <2> QED
    BY <2>2, <2>3
<1>7. Len(u) = Len(t) /\ Len(u) \in Nat \ {0}
  BY <1>1, <1>3, <1>4
<1> QED
  BY <1>5, <1>6, <1>7 DEF t, u, r

Increasing(s, n) == \A i, j \in 1..n : i < j => s[i] < s[j]

(* The first q - 1 elements of u are the elements f[1], f[2], ... of t, in *)
(* that order, and the last one is greater than all of t.                  *)
Picks(u, q, t, p, f) ==
  /\ p \in Nat /\ q \in Nat \ {0} /\ u[q] \in Int
  /\ f \in [1..(q - 1) -> 1..p] /\ Increasing(f, q - 1)
  /\ \A i \in 1..(q - 1) : u[i] = t[f[i]]
  /\ \A i \in 1..p : t[i] < u[q]

LEMMA PicksInOrder ==
  ASSUME NEW t, NEW u, NEW p, NEW q, NEW f,
         Increasing(t, p), Picks(u, q, t, p, f)
  PROVE  Increasing(u, q)
<1> USE DEF Increasing, Picks
<1> TAKE i, j \in 1..q
<1> HAVE i < j
<1>1. i \in 1..(q - 1) /\ f[i] \in 1..p /\ u[i] = t[f[i]]
  OBVIOUS
<1>2. CASE j = q
  BY <1>1, <1>2
<1>3. CASE j # q
  <2>1. j \in 1..(q - 1) /\ f[j] \in 1..p /\ u[j] = t[f[j]]
    BY <1>3
  <2> QED
    BY <1>1, <2>1
<1> QED
  BY <1>2, <1>3

-----------------------------------------------------------------------------
(* The stream.  Messages taken and messages waiting are in the order of    *)
(* their numbers, and what was taken or dropped is what comes before what  *)
(* is waiting: the head of arrived is then the message after the last one  *)
(* the forwarder took, which is what a drop must not disturb.              *)
StreamTypes ==
  /\ pushed \in Nat
  /\ arrived \in Seq(0..pushed)
  /\ queue \in Seq(1..pushed) /\ Len(queue) <= QueueMax
  /\ sending \in Seq(1..pushed) /\ Len(sending) <= 1
  /\ sent \in Seq(1..pushed)
  /\ dropped \in Nat

StreamInv ==
  /\ StreamTypes
  /\ InOrder
  /\ NewestKept
  /\ DropsCounted
  /\ Forwarded <= pushed

streams == <<pushed, arrived, queue, sending, sent, dropped>>

LEMMA TakenIsSeq ==
  ASSUME StreamTypes
  PROVE  /\ Taken \in Seq(1..pushed)
         /\ sent \o sending \in Seq(1..pushed)
         /\ Len(Taken) \in Nat
         /\ Forwarded \in Nat
         /\ \A i \in 1..Len(Taken) : Taken[i] \in 1..pushed
<1>1. Taken \in Seq(1..pushed) /\ sent \o sending \in Seq(1..pushed)
  BY ConcatProperties DEF StreamTypes, Taken
<1>2. Len(Taken) \in Nat
  BY <1>1, LenProperties
<1> QED
  BY <1>1, <1>2, ElementOfSeq DEF StreamTypes, Forwarded

LEMMA StreamInit == Init => StreamInv
<1> SUFFICES ASSUME Init PROVE StreamInv
  OBVIOUS
<1>1. /\ sent = <<>> /\ sending = <<>> /\ queue = <<>> /\ arrived = <<>>
      /\ pushed = 0 /\ dropped = 0
  BY DEF Init
<1>2. StreamTypes
  BY <1>1, SessionAssumption DEF StreamTypes
<1>3. Taken = <<>>
  BY <1>1, <1>2, ConcatEmptySeq DEF StreamTypes, Taken
<1>4. Len(Taken) = 0 /\ Forwarded = 0 /\ Len(arrived) = 0
  BY <1>1, <1>3 DEF Forwarded
<1>5. Waiting = {}
  BY <1>4 DEF Waiting
<1> QED
  BY <1>1, <1>2, <1>4, <1>5 DEF StreamInv, InOrder, NewestKept, DropsCounted

(* The sender moves messages on and leaves the stream as it is. *)
LEMMA SameStream ==
  ASSUME StreamInv, Taken' = Taken, UNCHANGED <<pushed, arrived, dropped>>,
         queue' \in Seq(1..pushed), Len(queue') <= QueueMax,
         sending' \in Seq(1..pushed), Len(sending') <= 1,
         sent' \in Seq(1..pushed)
  PROVE  StreamInv'
BY DEF StreamInv, StreamTypes, InOrder, NewestKept, DropsCounted, Forwarded,
       Waiting

LEMMA TakeKeepsStream == StreamInv /\ Take => Taken' = Taken
<1> SUFFICES ASSUME StreamInv, Take PROVE Taken' = Taken
  OBVIOUS
<1>1. /\ sending = <<>> /\ queue # <<>> /\ sending' = <<Head(queue)>>
      /\ queue' = Tail(queue) /\ sent' = sent
  BY DEF Take
<1>2. queue \in Seq(1..pushed) /\ sent \in Seq(1..pushed)
  BY DEF StreamInv, StreamTypes
<1>3. sent \o sending = sent
  BY <1>1, <1>2, ConcatEmptySeq
<1>4. (sent \o <<Head(queue)>>) \o Tail(queue) = sent \o queue
  BY <1>1, <1>2, MovedOn
<1> QED
  BY <1>1, <1>3, <1>4 DEF Taken

LEMMA TakeStream == StreamInv /\ Take => StreamInv'
<1> SUFFICES ASSUME StreamInv, Take PROVE StreamInv'
  OBVIOUS
<1>1. /\ sending = <<>> /\ queue # <<>> /\ sending' = <<Head(queue)>>
      /\ queue' = Tail(queue)
      /\ UNCHANGED <<pushed, arrived, dropped, sent>>
  BY DEF Take
<1>2. queue \in Seq(1..pushed) /\ sent \in Seq(1..pushed) /\ pushed \in Nat
  BY DEF StreamInv, StreamTypes
<1>3. /\ Head(queue) \in 1..pushed /\ Tail(queue) \in Seq(1..pushed)
      /\ Len(Tail(queue)) = Len(queue) - 1 /\ Len(queue) \in Nat
  BY <1>1, <1>2, HeadTailProperties, LenProperties
<1>4. Taken' = Taken
  BY TakeKeepsStream
<1>5. Len(queue') <= QueueMax
  BY <1>1, <1>3, SessionAssumption DEF StreamInv, StreamTypes
<1>6. sending' \in Seq(1..pushed) /\ Len(sending') <= 1
  BY <1>1, <1>3
<1> QED
  BY <1>1, <1>2, <1>3, <1>4, <1>5, <1>6, SameStream

LEMMA SentStream == StreamInv /\ Sent => StreamInv'
<1> SUFFICES ASSUME StreamInv, Sent PROVE StreamInv'
  OBVIOUS
<1>1. /\ sent' = sent \o sending /\ sending' = <<>>
      /\ UNCHANGED <<pushed, arrived, dropped, queue>>
  BY DEF Sent
<1>2. /\ queue \in Seq(1..pushed) /\ sent \o sending \in Seq(1..pushed)
      /\ Len(queue) <= QueueMax
  BY TakenIsSeq DEF StreamInv, StreamTypes
<1>3. Taken' = Taken
  BY <1>1, <1>2, ConcatEmptySeq DEF Taken
<1>4. sending' \in Seq(1..pushed) /\ Len(sending') <= 1
  BY <1>1
<1> QED
  BY <1>1, <1>2, <1>3, <1>4, SameStream

(* A message the forwarder takes is the one after the last it took. *)
LEMMA HeadIsNext ==
  ASSUME StreamInv, arrived # <<>>, Head(arrived) # 0
  PROVE  /\ Head(arrived) = Forwarded + 1
         /\ Head(arrived) \in 1..pushed
<1>1. /\ Len(arrived) \in Nat \ {0} /\ Head(arrived) = arrived[1]
      /\ pushed \in Nat /\ Forwarded \in Nat
  BY EmptySeq, TakenIsSeq DEF StreamInv, StreamTypes
<1>2. arrived[1] \in Waiting
  BY <1>1 DEF Waiting
<1>3. arrived[1] \in (Forwarded + 1)..pushed
  BY <1>2 DEF StreamInv, DropsCounted
<1>4. Forwarded + 1 \in Waiting
  BY <1>1, <1>3 DEF StreamInv, DropsCounted
<1>5. PICK j \in 1..Len(arrived) : arrived[j] = Forwarded + 1
  BY <1>4 DEF Waiting
<1>6. ~(arrived[1] < arrived[j])
  BY <1>1, <1>3, <1>5
<1>7. ~(1 < j)
  BY <1>1, <1>4, <1>5, <1>6 DEF StreamInv, InOrder, Waiting
<1>8. j = 1
  BY <1>1, <1>7
<1> QED
  BY <1>1, <1>3, <1>5, <1>8

(* What is waiting once the head of arrived was read. *)
LEMMA WaitingTail ==
  ASSUME StreamInv, arrived # <<>>, arrived' = Tail(arrived)
  PROVE  /\ arrived' \in Seq(0..pushed)
         /\ Head(arrived) = 0 => Waiting' = Waiting
         /\ Head(arrived) # 0 => Waiting' = Waiting \ {Head(arrived)}
         /\ \A i, j \in 1..Len(arrived') :
              i < j /\ arrived'[i] # 0 /\ arrived'[j] # 0
                => arrived'[i] < arrived'[j]
<1>1. /\ arrived \in Seq(0..pushed)
      /\ Len(arrived) \in Nat \ {0} /\ Head(arrived) = arrived[1]
      /\ pushed \in Nat
  BY EmptySeq DEF StreamInv, StreamTypes
<1>2. /\ arrived' \in Seq(0..pushed) /\ Len(arrived') = Len(arrived) - 1
      /\ \A i \in 1..Len(arrived') : arrived'[i] = arrived[i + 1]
  BY <1>1, HeadTailProperties
<1>3. \A i \in 1..Len(arrived') : i + 1 \in 1..Len(arrived) /\ 1 < i + 1
  BY <1>1, <1>2
<1>4. \A k \in 1..Len(arrived) :
        k # 1 => k - 1 \in 1..Len(arrived') /\ arrived'[k - 1] = arrived[k]
  <2> TAKE k \in 1..Len(arrived)
  <2> HAVE k # 1
  <2>1. k - 1 \in 1..Len(arrived') /\ (k - 1) + 1 = k
    BY <1>1, <1>2
  <2> QED
    BY <1>2, <2>1
<1>5. {arrived'[i] : i \in 1..Len(arrived')} \cup {arrived[1]}
        = {arrived[i] : i \in 1..Len(arrived)}
  <2>1. 1 \in 1..Len(arrived)
    BY <1>1
  <2> QED
    BY <1>2, <1>3, <1>4, <2>1
<1>6. arrived[1] # 0 => \A i \in 1..Len(arrived') : arrived'[i] # arrived[1]
  <2> HAVE arrived[1] # 0
  <2> TAKE i \in 1..Len(arrived')
  <2>1. /\ arrived'[i] = arrived[i + 1] /\ i + 1 \in 1..Len(arrived)
        /\ 1 \in 1..Len(arrived) /\ 1 < i + 1
    BY <1>1, <1>2, <1>3
  <2>2. arrived[1] \in Nat
    BY <1>1, <2>1, ElementOfSeq
  <2>3. arrived[i + 1] # 0 => arrived[1] < arrived[i + 1]
    BY <2>1 DEF StreamInv, InOrder
  <2> QED
    BY <2>1, <2>2, <2>3
<1>7. ASSUME NEW i \in 1..Len(arrived'), NEW j \in 1..Len(arrived'), i < j,
             arrived'[i] # 0, arrived'[j] # 0
      PROVE  arrived'[i] < arrived'[j]
  <2>1. /\ arrived'[i] = arrived[i + 1] /\ i + 1 \in 1..Len(arrived)
        /\ arrived'[j] = arrived[j + 1] /\ j + 1 \in 1..Len(arrived)
    BY <1>2, <1>3, <1>7
  <2>2. i + 1 < j + 1
    BY <1>7
  <2> QED
    BY <1>7, <2>1, <2>2 DEF StreamInv, InOrder
<1>8. Head(arrived) = 0 => Waiting' = Waiting
  BY <1>1, <1>5 DEF Waiting
<1>9. Head(arrived) # 0 => Waiting' = Waiting \ {Head(arrived)}
  <2> DEFINE old == {arrived[i] : i \in 1..Len(arrived)}
             new == {arrived'[i] : i \in 1..Len(arrived')}
  <2>1. new \cup {arrived[1]} = old
    BY <1>5
  <2>2. arrived[1] # 0 => arrived[1] \notin new
    BY <1>6
  <2>3. Waiting = old \ {0} /\ Waiting' = new \ {0}
    BY DEF Waiting
  <2> HIDE DEF old, new
  <2> QED
    BY <1>1, <2>1, <2>2, <2>3
<1> QED
  BY <1>2, <1>7, <1>8, <1>9

(* What a message does that the forwarder puts into the queue. *)
LEMMA EnqueueStream ==
  ASSUME StreamInv, arrived # <<>>, arrived' = Tail(arrived),
         Head(arrived) # 0, Enqueue(Head(arrived)),
         UNCHANGED <<pushed, sent, sending>>
  PROVE  StreamInv'
<1> DEFINE m == Head(arrived)
           a == sent \o sending
<1>1. m = Forwarded + 1 /\ m \in 1..pushed
  BY HeadIsNext
<1>2. /\ a \in Seq(1..pushed) /\ queue \in Seq(1..pushed)
      /\ Taken = a \o queue /\ Taken' = a \o queue'
      /\ Taken \in Seq(1..pushed) /\ Len(Taken) \in Nat /\ Forwarded \in Nat
      /\ \A i \in 1..Len(Taken) : Taken[i] \in 1..pushed
      /\ Len(a) \in Nat /\ Len(queue) \in Nat /\ dropped \in Nat
      /\ pushed \in Nat /\ Len(queue) <= QueueMax
  BY TakenIsSeq, LenProperties DEF StreamInv, StreamTypes, Taken
<1>3. m \in Waiting
  BY <1>1, <1>2 DEF StreamInv, DropsCounted
<1>4. \A i \in 1..Len(Taken) : Taken[i] < m
  BY <1>3 DEF StreamInv, InOrder
<1>5. /\ arrived' \in Seq(0..pushed)
      /\ Waiting' = Waiting \ {m}
      /\ \A i, j \in 1..Len(arrived') :
           i < j /\ arrived'[i] # 0 /\ arrived'[j] # 0
             => arrived'[i] < arrived'[j]
  BY WaitingTail
<1> HIDE DEF m, a
<1>6. /\ queue' \in Seq(1..pushed) /\ Len(queue') <= QueueMax
      /\ dropped' \in Nat
      /\ Len(Taken') \in Nat \ {0}
      /\ Taken'[Len(Taken')] = m
      /\ Len(Taken') + dropped' = Forwarded + 1
      /\ \A i, j \in 1..Len(Taken') : i < j => Taken'[i] < Taken'[j]
  <2>1. CASE Len(queue) < QueueMax
    <3>1. queue' = Append(queue, m) /\ dropped' = dropped
      BY <2>1 DEF Enqueue, PutOr, m
    <3>2. /\ queue' \in Seq(1..pushed) /\ Len(queue') = Len(queue) + 1
      BY <1>1, <1>2, <3>1, AppendProperties
    <3>3. /\ Len(Taken') = Len(Taken) + 1
          /\ Taken'[Len(Taken')] = m
          /\ \A i \in 1..Len(Taken) : Taken'[i] = Taken[i]
      BY <1>1, <1>2, <3>1, PutLast
    <3>4. \A i, j \in 1..Len(Taken') : i < j => Taken'[i] < Taken'[j]
      <4> DEFINE f == [i \in 1..Len(Taken) |-> i]
      <4>1. /\ Len(Taken') - 1 = Len(Taken) /\ Len(Taken') \in Nat \ {0}
            /\ m \in Int
        BY <1>1, <1>2, <3>3
      <4>2. f \in [1..(Len(Taken') - 1) -> 1..Len(Taken)]
        BY <4>1
      <4>3. Increasing(f, Len(Taken') - 1)
        BY <4>1 DEF Increasing
      <4>4. \A i \in 1..(Len(Taken') - 1) : Taken'[i] = Taken[f[i]]
        BY <3>3, <4>1
      <4>5. Increasing(Taken, Len(Taken))
        BY DEF StreamInv, InOrder, Increasing
      <4> HIDE DEF f
      <4> QED
        <5>1. Picks(Taken', Len(Taken'), Taken, Len(Taken), f)
          BY <1>2, <1>4, <3>3, <4>1, <4>2, <4>3, <4>4 DEF Picks
        <5> QED
          BY <4>5, <5>1, PicksInOrder DEF Increasing
    <3>5. Len(queue') <= QueueMax
      BY <1>2, <2>1, <3>2, SessionAssumption
    <3>6. /\ Len(Taken') \in Nat \ {0}
          /\ Len(Taken') + dropped' = Forwarded + 1
      BY <1>2, <3>1, <3>3 DEF Forwarded
    <3> QED
      BY <1>2, <3>1, <3>2, <3>3, <3>4, <3>5, <3>6
  <2>2. CASE ~(Len(queue) < QueueMax)
    <3>1. queue' = Append(Tail(queue), m) /\ dropped' = dropped + 1
      BY <2>2 DEF Enqueue, PutOr, m
    <3>2. Len(queue) = QueueMax /\ queue # <<>>
      <4>1. Len(queue) = QueueMax /\ Len(queue) # 0
        BY <1>2, <2>2, SessionAssumption
      <4> QED
        BY <4>1, EmptySeq
    <3>3. /\ queue' \in Seq(1..pushed) /\ Len(queue') = Len(queue)
      <4>1. /\ Tail(queue) \in Seq(1..pushed)
            /\ Len(Tail(queue)) = Len(queue) - 1
        BY <1>2, <3>2, HeadTailProperties
      <4>2. Len(queue') = Len(Tail(queue)) + 1 /\ queue' \in Seq(1..pushed)
        BY <1>1, <3>1, <4>1, AppendProperties
      <4> QED
        BY <1>2, <4>1, <4>2
    <3>4. /\ Len(Taken') = Len(Taken)
          /\ Len(Taken') \in Nat \ {0}
          /\ Taken'[Len(Taken')] = m
          /\ \A i \in 1..(Len(Taken') - 1) :
               Taken'[i] = Taken[IF i <= Len(a) THEN i ELSE i + 1]
      <4>1. LET t == a \o queue
                u == a \o Append(Tail(queue), m)
            IN  /\ Len(u) = Len(t)
                /\ Len(u) \in Nat \ {0}
                /\ u[Len(u)] = m
                /\ \A i \in 1..(Len(u) - 1) :
                     u[i] = t[IF i <= Len(a) THEN i ELSE i + 1]
        BY <1>1, <1>2, <3>2, PutDropping
      <4>2. Taken = a \o queue /\ Taken' = a \o Append(Tail(queue), m)
        BY <1>2, <3>1
      <4> QED
        BY <4>1, <4>2, Zenon
    <3>5. \A i, j \in 1..Len(Taken') : i < j => Taken'[i] < Taken'[j]
      <4> DEFINE f == [i \in 1..(Len(Taken') - 1) |->
                         IF i <= Len(a) THEN i ELSE i + 1]
      <4>1. Len(Taken') = Len(Taken) /\ Len(Taken') \in Nat \ {0} /\ m \in Int
        BY <1>1, <1>2, <3>4
      <4>2. f \in [1..(Len(Taken') - 1) -> 1..Len(Taken)]
        BY <1>2, <4>1
      <4>3. Increasing(f, Len(Taken') - 1)
        BY <1>2, <4>1 DEF Increasing
      <4>4. \A i \in 1..(Len(Taken') - 1) : Taken'[i] = Taken[f[i]]
        BY <3>4
      <4>5. Increasing(Taken, Len(Taken))
        BY DEF StreamInv, InOrder, Increasing
      <4> HIDE DEF f
      <4> QED
        <5>1. Picks(Taken', Len(Taken'), Taken, Len(Taken), f)
          BY <1>2, <1>4, <3>4, <4>1, <4>2, <4>3, <4>4 DEF Picks
        <5> QED
          BY <4>5, <5>1, PicksInOrder DEF Increasing
    <3>6. Len(Taken') + dropped' = Forwarded + 1
      <4>1. Len(Taken') + (dropped + 1) = (Len(Taken) + dropped) + 1
        BY <1>2, <3>4
      <4> QED
        BY <3>1, <4>1 DEF Forwarded
    <3>7. Len(queue') <= QueueMax /\ dropped' \in Nat
      <4>1. dropped' = dropped + 1 /\ Len(queue') = Len(queue)
        BY <3>1, <3>3
      <4> QED
        BY <1>2, <4>1
    <3> QED
      BY <3>3, <3>4, <3>5, <3>6, <3>7
  <2> QED
    BY <2>1, <2>2
<1>7. Forwarded' = Forwarded + 1
  BY <1>6 DEF Forwarded
<1>8. Waiting' = (Forwarded' + 1)..pushed'
  <2>1. Waiting = (Forwarded + 1)..pushed
    BY DEF StreamInv, DropsCounted
  <2> QED
    BY <1>1, <1>2, <1>5, <1>7, <2>1
<1>9. StreamTypes'
  BY <1>5, <1>6 DEF StreamInv, StreamTypes
<1>10. InOrder'
  <2>1. \A i \in 1..Len(Taken') : Taken'[i] \in 1..pushed
    BY <1>9, TakenIsSeq, <1>2, <1>6, ConcatProperties, ElementOfSeq
  <2>2. ASSUME NEW i \in 1..Len(Taken'), NEW w \in Waiting'
        PROVE  Taken'[i] < w
    <3>1. m < w /\ w \in Int
      BY <1>1, <1>2, <1>7, <1>8
    <3>2. Taken'[i] <= m
      BY <1>1, <1>6, <2>1
    <3> QED
      BY <1>1, <2>1, <3>1, <3>2
  <2> QED
    BY <1>5, <1>6, <2>2 DEF InOrder
<1>11. NewestKept'
  <2>1. Len(Taken') # 0
    BY <1>6
  <2> QED
    BY <1>1, <1>6, <1>7, <2>1 DEF NewestKept
<1> QED
  BY <1>1, <1>2, <1>7, <1>8, <1>9, <1>10, <1>11 DEF StreamInv, DropsCounted

LEMMA ForwardStream == StreamInv /\ Forward => StreamInv'
<1> SUFFICES ASSUME StreamInv, Forward PROVE StreamInv'
  OBVIOUS
<1>1. /\ arrived # <<>> /\ arrived' = Tail(arrived)
      /\ UNCHANGED <<pushed, sent, sending>>
  BY DEF Forward
<1>2. CASE Head(arrived) = 0
  <2>1. UNCHANGED <<queue, dropped>>
    BY <1>2 DEF Forward
  <2>2. UNCHANGED <<Taken, Forwarded>>
    BY <1>1, <2>1 DEF Taken, Forwarded
  <2> QED
    BY <1>1, <1>2, <2>1, <2>2, WaitingTail
    DEF StreamInv, StreamTypes, InOrder, NewestKept, DropsCounted
<1>3. CASE Head(arrived) # 0
  BY <1>1, <1>3, EnqueueStream DEF Forward
<1> QED
  BY <1>2, <1>3

LEMMA ExecuteStream == StreamInv /\ Execute => StreamInv'
<1> SUFFICES ASSUME StreamInv, Execute PROVE StreamInv'
  OBVIOUS
<1>1. /\ UNCHANGED <<pushed, queue, sending, sent, dropped>>
      /\ arrived' \in {arrived, Append(arrived, 0)}
  BY DEF Execute, streamVars
<1>2. UNCHANGED <<Taken, Forwarded>>
  BY <1>1 DEF Taken, Forwarded
<1>3. CASE arrived' = arrived
  BY <1>1, <1>2, <1>3
  DEF StreamInv, StreamTypes, InOrder, NewestKept, DropsCounted, Waiting
<1>4. CASE arrived' = Append(arrived, 0)
  <2>1. arrived \in Seq(0..pushed) /\ Len(arrived) \in Nat /\ 0 \in 0..pushed
    BY LenProperties DEF StreamInv, StreamTypes
  <2>2. /\ arrived' \in Seq(0..pushed)
        /\ Len(arrived') = Len(arrived) + 1
        /\ arrived'[Len(arrived) + 1] = 0
        /\ \A i \in 1..Len(arrived) : arrived'[i] = arrived[i]
    BY <1>4, <2>1, AppendProperties
  <2>3. \A i \in 1..Len(arrived') :
          arrived'[i] # 0 => i \in 1..Len(arrived) /\ arrived'[i] = arrived[i]
    BY <2>1, <2>2
  <2>4. \A i \in 1..Len(arrived) : i \in 1..Len(arrived')
    BY <2>1, <2>2
  <2>5. Waiting' = Waiting
    BY <2>2, <2>3, <2>4 DEF Waiting
  <2> QED
    BY <1>1, <1>2, <2>2, <2>3, <2>5
    DEF StreamInv, StreamTypes, InOrder, NewestKept, DropsCounted
<1> QED
  BY <1>1, <1>3, <1>4

LEMMA NumbersAreSeq ==
  ASSUME NEW n \in Nat, NEW c \in Nat
  PROVE  LET g == [i \in 1..c |-> n + i]
         IN  /\ g \in Seq(0..(n + c))
             /\ Len(g) = c
             /\ \A i \in 1..c : g[i] = n + i
<1> DEFINE g == [i \in 1..c |-> n + i]
<1>1. g \in [1..c -> 0..(n + c)]
  OBVIOUS
<1>2. g \in Seq(0..(n + c))
  BY <1>1, SeqDef
<1>3. DOMAIN g = 1..Len(g) /\ Len(g) \in Nat
  BY <1>2, LenProperties
<1>4. DOMAIN g = 1..c
  OBVIOUS
<1>5. Len(g) = c
  BY <1>3, <1>4
<1> QED
  BY <1>2, <1>5

LEMMA CopiesAreNat ==
  ASSUME NEW e, NEW S
  PROVE  Cardinality({e, All} \cap S) \in Nat
<1>1. IsFiniteSet({e, All})
  <2>1. IsFiniteSet({e}) /\ {e, All} = {e} \cup {All}
    BY FS_Singleton
  <2> QED
    BY <2>1, FS_AddElement
<1> QED
  BY <1>1, FS_Intersection, FS_CardinalityType

LEMMA PublishStream ==
  ASSUME NEW e \in Equipment
  PROVE  StreamInv /\ Publish(e) => StreamInv'
<1> SUFFICES ASSUME StreamInv, Publish(e) PROVE StreamInv'
  OBVIOUS
<1> DEFINE c == Cardinality({e, All} \cap remote)
           g == [i \in 1..c |-> pushed + i]
<1>1. c \in Nat
  BY CopiesAreNat
<1>2. /\ UNCHANGED <<queue, sending, sent, dropped>>
      /\ pushed' = pushed + c
      /\ arrived' = arrived \o g
  BY DEF Publish, streamVars
<1>3. /\ pushed \in Nat /\ arrived \in Seq(0..pushed) /\ Len(arrived) \in Nat
      /\ Forwarded \in Nat /\ Forwarded <= pushed
      /\ \A i \in 1..Len(arrived) : arrived[i] \in 0..pushed
  BY LenProperties, ElementOfSeq, TakenIsSeq DEF StreamInv, StreamTypes
<1> HIDE DEF c
<1>4. /\ g \in Seq(0..(pushed + c)) /\ Len(g) = c
      /\ \A i \in 1..c : g[i] = pushed + i
  BY <1>1, <1>3, NumbersAreSeq
<1> HIDE DEF g
<1>5. UNCHANGED <<Taken, Forwarded>>
  BY <1>2 DEF Taken, Forwarded
<1>6. /\ arrived' \in Seq(0..(pushed + c))
      /\ Len(arrived') = Len(arrived) + c
      /\ \A i \in 1..(Len(arrived) + c) :
           arrived'[i] = IF i <= Len(arrived) THEN arrived[i]
                         ELSE g[i - Len(arrived)]
  <2>1. arrived \in Seq(0..(pushed + c)) /\ g \in Seq(0..(pushed + c))
    <3>1. 0..pushed \subseteq 0..(pushed + c)
      BY <1>1, <1>3
    <3> QED
      BY <1>3, <1>4, <3>1, SeqMonotonic
  <2>2. /\ arrived \o g \in Seq(0..(pushed + c))
        /\ Len(arrived \o g) = Len(arrived) + Len(g)
        /\ \A i \in 1..(Len(arrived) + Len(g)) :
             (arrived \o g)[i] = IF i <= Len(arrived) THEN arrived[i]
                                 ELSE g[i - Len(arrived)]
    BY <2>1, ConcatProperties
  <2> QED
    BY <1>2, <1>4, <2>2
<1>7. \A i \in 1..Len(arrived') :
        IF i <= Len(arrived)
        THEN i \in 1..Len(arrived) /\ arrived'[i] = arrived[i]
        ELSE arrived'[i] = pushed + (i - Len(arrived))
  <2> TAKE i \in 1..Len(arrived')
  <2>1. CASE i <= Len(arrived)
    BY <1>1, <1>3, <1>6, <2>1
  <2>2. CASE ~(i <= Len(arrived))
    <3>1. i - Len(arrived) \in 1..c
      BY <1>1, <1>3, <1>6, <2>2
    <3> QED
      BY <1>4, <1>6, <2>2, <3>1
  <2> QED
    BY <2>1, <2>2
<1>8. Waiting' = Waiting \cup ((pushed + 1)..(pushed + c))
  <2>1. ASSUME NEW w \in Waiting'
        PROVE  w \in Waiting \cup ((pushed + 1)..(pushed + c))
    <3>1. PICK i \in 1..Len(arrived') : w = arrived'[i] /\ w # 0
      BY DEF Waiting
    <3>2. CASE i <= Len(arrived)
      BY <1>7, <3>1, <3>2 DEF Waiting
    <3>3. CASE ~(i <= Len(arrived))
      <4>1. w = pushed + (i - Len(arrived)) /\ i <= Len(arrived) + c /\ i \in Nat
        BY <1>1, <1>3, <1>6, <1>7, <3>1, <3>3
      <4>2. w \in (pushed + 1)..(pushed + c)
        BY <1>1, <1>3, <3>3, <4>1
      <4> QED
        BY <4>2
    <3> QED
      BY <3>2, <3>3
  <2>2. ASSUME NEW w \in Waiting PROVE w \in Waiting'
    <3>1. PICK i \in 1..Len(arrived) : w = arrived[i] /\ w # 0
      BY DEF Waiting
    <3>2. i \in 1..Len(arrived') /\ i <= Len(arrived)
      BY <1>1, <1>3, <1>6
    <3>3. arrived'[i] = arrived[i]
      BY <1>7, <3>2
    <3> QED
      BY <3>1, <3>2, <3>3 DEF Waiting
  <2>3. ASSUME NEW w \in (pushed + 1)..(pushed + c) PROVE w \in Waiting'
    <3> DEFINE i == Len(arrived) + (w - pushed)
    <3>1. /\ i \in 1..Len(arrived') /\ ~(i <= Len(arrived))
          /\ pushed + (i - Len(arrived)) = w /\ w # 0
      BY <1>1, <1>3, <1>6
    <3> HIDE DEF i
    <3>2. arrived'[i] = w
      BY <1>7, <3>1
    <3> QED
      BY <3>1, <3>2 DEF Waiting
  <2> QED
    BY <2>1, <2>2, <2>3
<1>9. DropsCounted'
  <2>1. Waiting = (Forwarded + 1)..pushed
    BY DEF StreamInv, DropsCounted
  <2>2. Waiting' = (Forwarded + 1)..(pushed + c)
    BY <1>1, <1>3, <1>8, <2>1
  <2> QED
    BY <1>2, <1>5, <2>2 DEF DropsCounted
<1>10. StreamTypes'
  <2>1. 1..pushed \subseteq 1..(pushed + c)
    BY <1>1, <1>3
  <2>2. /\ queue \in Seq(1..(pushed + c)) /\ sending \in Seq(1..(pushed + c))
        /\ sent \in Seq(1..(pushed + c))
    BY <2>1, SeqMonotonic DEF StreamInv, StreamTypes
  <2> QED
    BY <1>1, <1>2, <1>3, <1>6, <2>2 DEF StreamInv, StreamTypes
<1>11. InOrder'
  <2>1. ASSUME NEW i \in 1..Len(arrived'), NEW j \in 1..Len(arrived'), i < j,
               arrived'[i] # 0, arrived'[j] # 0
        PROVE  arrived'[i] < arrived'[j]
    <3>1. i \in Nat /\ j \in Nat
      OBVIOUS
    <3>2. CASE j <= Len(arrived)
      <4>1. i <= Len(arrived)
        BY <1>3, <2>1, <3>1, <3>2
      <4>2. /\ i \in 1..Len(arrived) /\ arrived'[i] = arrived[i]
            /\ j \in 1..Len(arrived) /\ arrived'[j] = arrived[j]
        BY <1>7, <3>2, <4>1
      <4> QED
        BY <2>1, <4>2 DEF StreamInv, InOrder
    <3>3. CASE ~(j <= Len(arrived)) /\ i <= Len(arrived)
      <4>1. arrived'[j] = pushed + (j - Len(arrived))
        BY <1>7, <3>3
      <4>2. arrived'[i] \in 0..pushed
        BY <1>3, <1>7, <3>3
      <4> QED
        BY <1>3, <3>1, <3>3, <4>1, <4>2
    <3>4. CASE ~(j <= Len(arrived)) /\ ~(i <= Len(arrived))
      <4>1. /\ arrived'[j] = pushed + (j - Len(arrived))
            /\ arrived'[i] = pushed + (i - Len(arrived))
        BY <1>7, <3>4
      <4> QED
        BY <1>3, <2>1, <3>1, <4>1
    <3> QED
      BY <3>2, <3>3, <3>4
  <2>2. ASSUME NEW i \in 1..Len(Taken), NEW w \in Waiting'
        PROVE  Taken[i] < w
    <3>1. CASE w \in Waiting
      BY <3>1 DEF StreamInv, InOrder
    <3>2. CASE w \notin Waiting
      <4>1. w \in (pushed + 1)..(pushed + c)
        BY <1>8, <3>2
      <4>2. Taken[i] \in 1..pushed
        BY TakenIsSeq DEF StreamInv
      <4> QED
        BY <1>1, <1>3, <4>1, <4>2
    <3> QED
      BY <3>1, <3>2
  <2> QED
    BY <1>5, <2>1, <2>2 DEF StreamInv, InOrder
<1>12. NewestKept' /\ Forwarded' <= pushed'
  BY <1>1, <1>2, <1>3, <1>5 DEF StreamInv, NewestKept
<1> QED
  BY <1>9, <1>10, <1>11, <1>12 DEF StreamInv

LEMMA StreamStep == StreamInv /\ [Next]_vars => StreamInv'
<1> SUFFICES ASSUME StreamInv, [Next]_vars PROVE StreamInv'
  OBVIOUS
<1>1. CASE UNCHANGED streams
  <2>1. UNCHANGED <<pushed, arrived, queue, sending, sent, dropped>>
    BY <1>1 DEF streams
  <2>2. UNCHANGED <<Taken, Forwarded, Waiting>>
    BY <2>1 DEF Taken, Forwarded, Waiting
  <2> QED
    BY <2>1, <2>2
    DEF StreamInv, StreamTypes, InOrder, NewestKept, DropsCounted
<1>2. CASE \/ Forward \/ Take \/ Sent \/ Execute
           \/ \E e \in Equipment : Publish(e)
  BY <1>2, ForwardStream, TakeStream, SentStream, ExecuteStream, PublishStream
<1>3. CASE \/ \E r \in Requests : Receive(r)
           \/ Command \/ Answer \/ ReaderEnds \/ ForwarderEnds \/ SenderEnds
           \/ Cancel \/ Close \/ ClientLeaves \/ RedisLost
           \/ UNCHANGED vars
  <2>1. UNCHANGED streams
    BY <1>3 DEF Receive, Command, Answer, ReaderEnds, ForwarderEnds,
                SenderEnds, Ends, Cancel, Close, ClientLeaves, RedisLost,
                streams, streamVars, vars
  <2> QED
    BY <1>1, <2>1
<1> QED
  BY <1>2, <1>3 DEF Next

LEMMA StreamCorrect == Spec => []StreamInv
BY StreamInit, StreamStep, PTL DEF Spec

(* The client sees messages in Redis' order and none twice, for every size *)
(* of the queue.                                                           *)
THEOREM OrderCorrect == Spec => []InOrder
<1>1. StreamInv => InOrder
  BY DEF StreamInv
<1> QED
  BY <1>1, StreamCorrect, PTL

(* Whatever a full queue drops, the newest message taken is kept. *)
THEOREM NewestCorrect == Spec => []NewestKept
<1>1. StreamInv => NewestKept
  BY DEF StreamInv
<1> QED
  BY <1>1, StreamCorrect, PTL

(* The drop counter is exactly the number of messages missed. *)
THEOREM DropsCorrect == Spec => []DropsCounted
<1>1. StreamInv => DropsCounted
  BY DEF StreamInv
<1> QED
  BY <1>1, StreamCorrect, PTL

-----------------------------------------------------------------------------
(* A session as a log.  The messages are the samples of TelemetryLog: one  *)
(* is settled when send_text has returned, or when it made room in the     *)
(* full queue, and is pending until then, or for ever if the session ends. *)
FateOf(i) ==
  IF \E k \in 1..Len(sent) : sent[k] = i THEN "stored"
  ELSE IF i <= Forwarded /\ \A k \in 1..Len(Taken) : Taken[k] # i THEN "lost"
  ELSE "pending"

Fate == [i \in 1..pushed |-> FateOf(i)]

Promise == INSTANCE TelemetryLog WITH fate <- Fate

LEMMA LenOfFunction ==
  ASSUME NEW n \in Nat, NEW S, NEW f \in [1..n -> S]
  PROVE  Len(f) = n
<1>1. f \in Seq(S)
  BY SeqDef
<1>2. DOMAIN f = 1..Len(f) /\ Len(f) \in Nat
  BY <1>1, LenProperties
<1>3. DOMAIN f = 1..n
  OBVIOUS
<1> QED
  BY <1>2, <1>3

LEMMA FateLength ==
  /\ StreamTypes => Len(Fate) = pushed
  /\ StreamTypes' => Len(Fate') = pushed'
<1> DEFINE S == {"stored", "lost", "pending"}
<1>1. ASSUME StreamTypes PROVE Len(Fate) = pushed
  <2>1. pushed \in Nat /\ Fate \in [1..pushed -> S]
    BY <1>1 DEF StreamTypes, Fate, FateOf
  <2> QED
    BY <2>1, LenOfFunction
<1>2. ASSUME StreamTypes' PROVE Len(Fate') = pushed'
  <2>1. pushed' \in Nat /\ Fate' \in [1..pushed' -> S]
    BY <1>2 DEF StreamTypes, Fate, FateOf
  <2> QED
    BY <2>1, LenOfFunction
<1> QED
  BY <1>1, <1>2

(* A step that sends nothing, takes back nothing and takes only what had   *)
(* not been forwarded can only lose messages, and add new ones.            *)
LEMMA NothingSent ==
  ASSUME StreamInv, StreamInv', sent' = sent,
         pushed' >= pushed, Forwarded' >= Forwarded,
         \A k \in 1..Len(Taken') :
           \/ Taken'[k] > Forwarded
           \/ \E j \in 1..Len(Taken) : Taken'[k] = Taken[j]
  PROVE  Promise!Next
<1>1. /\ Len(Fate) = pushed /\ Len(Fate') = pushed'
      /\ pushed \in Nat /\ pushed' \in Nat
      /\ Forwarded \in Nat /\ Forwarded' \in Int
  <2>1. dropped' \in Nat /\ Len(Taken') \in Nat
    <3>1. Taken' \in Seq(1..pushed')
      BY ConcatProperties DEF StreamInv, StreamTypes, Taken
    <3> QED
      BY <3>1, LenProperties DEF StreamInv, StreamTypes
  <2> QED
    BY <2>1, FateLength, TakenIsSeq DEF StreamInv, StreamTypes, Forwarded
<1>2. ASSUME NEW i \in 1..pushed
      PROVE  \/ Fate'[i] = Fate[i]
             \/ Fate[i] = "pending" /\ Fate'[i] = "lost"
  <2>1. i \in 1..pushed' /\ i \in Int
    BY <1>1
  <2>2. Fate[i] = FateOf(i) /\ Fate'[i] = FateOf(i)'
    BY <2>1 DEF Fate
  <2>3. FateOf(i) = "stored" <=> FateOf(i)' = "stored"
    BY DEF FateOf
  <2>4. FateOf(i) = "lost" => FateOf(i)' = "lost"
    <3> SUFFICES ASSUME FateOf(i) = "lost" PROVE FateOf(i)' = "lost"
      OBVIOUS
    <3>1. /\ ~\E k \in 1..Len(sent) : sent[k] = i
          /\ i <= Forwarded
          /\ \A k \in 1..Len(Taken) : Taken[k] # i
      BY DEF FateOf
    <3>2. i <= Forwarded' /\ ~(i > Forwarded)
      BY <1>1, <2>1, <3>1
    <3>3. \A k \in 1..Len(Taken') : Taken'[k] # i
      BY <3>1, <3>2
    <3> QED
      BY <3>1, <3>2, <3>3 DEF FateOf
  <2> QED
    BY <2>2, <2>3, <2>4 DEF FateOf
<1>3. ASSUME NEW i \in 1..pushed', i > pushed
      PROVE  Fate'[i] \in {"pending", "lost"}
  <2>1. \A k \in 1..Len(sent) : sent[k] \in 1..pushed
    BY ElementOfSeq DEF StreamInv, StreamTypes
  <2>2. \A k \in 1..Len(sent') : sent'[k] # i
    BY <1>1, <1>3, <2>1
  <2> QED
    BY <2>2 DEF Fate, FateOf
<1>4. CASE pushed' = pushed
  <2>1. \A j \in 1..pushed : Fate[j] = "pending" => Fate'[j] # "stored"
    BY <1>2
  <2> QED
    BY <1>1, <1>2, <1>4, <2>1 DEF Promise!Next, Promise!Settle
<1>5. CASE pushed' > pushed
  BY <1>1, <1>2, <1>3, <1>5 DEF Promise!Next, Promise!Take
<1> QED
  BY <1>1, <1>4, <1>5

LEMMA FirstOfThree ==
  ASSUME NEW S, NEW a \in Seq(S), NEW b \in Seq(S), NEW c \in Seq(S)
  PROVE  /\ Len(a) <= Len((a \o b) \o c)
         /\ Len(a) \in Nat /\ Len((a \o b) \o c) \in Nat
         /\ \A k \in 1..Len(a) : ((a \o b) \o c)[k] = a[k]
<1> DEFINE ab == a \o b
<1>1. /\ ab \in Seq(S) /\ Len(ab) = Len(a) + Len(b)
      /\ \A k \in 1..(Len(a) + Len(b)) :
           ab[k] = IF k <= Len(a) THEN a[k] ELSE b[k - Len(a)]
  BY ConcatProperties
<1>2. Len(a) \in Nat /\ Len(b) \in Nat /\ Len(c) \in Nat
  BY LenProperties
<1> HIDE DEF ab
<1>3. /\ Len(ab \o c) = Len(ab) + Len(c)
      /\ \A k \in 1..(Len(ab) + Len(c)) :
           (ab \o c)[k] = IF k <= Len(ab) THEN ab[k] ELSE c[k - Len(ab)]
  <2>1. ab \in Seq(S)
    BY <1>1
  <2> QED
    BY <2>1, ConcatProperties
<1>4. \A k \in 1..Len(a) : (ab \o c)[k] = a[k]
  BY <1>1, <1>2, <1>3
<1> QED
  BY <1>1, <1>2, <1>3, <1>4 DEF ab

(* send_text returns: the message had not been settled, and comes after    *)
(* all that were sent before.                                              *)
LEMMA SentSettles ==
  ASSUME StreamInv, StreamInv', Sent
  PROVE  Promise!Settle
<1>1. /\ sent' = sent \o sending
      /\ UNCHANGED <<pushed, dropped, queue>>
      /\ sent \in Seq(1..pushed) /\ sending \in Seq(1..pushed)
      /\ queue \in Seq(1..pushed) /\ sent' \in Seq(1..pushed)
  BY DEF Sent, StreamInv, StreamTypes
<1>2. Taken' = Taken /\ Forwarded' = Forwarded
  <2>1. sending' = <<>>
    BY DEF Sent
  <2>2. Taken' = Taken
    BY <1>1, <2>1, ConcatEmptySeq DEF Taken
  <2> QED
    BY <1>1, <2>2 DEF Forwarded
<1>3. /\ Len(sent) \in Nat /\ Len(Taken) \in Nat /\ Len(sent) <= Len(Taken)
      /\ \A k \in 1..Len(sent) : Taken[k] = sent[k]
  BY <1>1, FirstOfThree DEF Taken
<1>4. /\ Len(sent') \in Nat /\ Len(sent') <= Len(Taken)
      /\ \A k \in 1..Len(sent') : Taken[k] = sent'[k]
  <2> DEFINE none == <<>>
             t == (sent' \o none) \o queue
  <2>1. none \in Seq(1..pushed) /\ Taken = t
    BY <1>1, ConcatEmptySeq DEF Taken
  <2> HIDE DEF none
  <2>2. ASSUME NEW s \in Seq(1..pushed)
        PROVE  /\ Len(s) <= Len((s \o none) \o queue) /\ Len(s) \in Nat
               /\ \A k \in 1..Len(s) : ((s \o none) \o queue)[k] = s[k]
    <3>1. queue \in Seq(1..pushed)
      BY <1>1
    <3> QED
      BY <2>1, <3>1, FirstOfThree
  <2>3. /\ Len(sent') <= Len(t) /\ Len(sent') \in Nat
        /\ \A k \in 1..Len(sent') : t[k] = sent'[k]
    BY <1>1, <2>2
  <2> HIDE DEF t
  <2> QED
    BY <2>1, <2>3
<1>5. Len(sent) <= Len(sent')
  BY <1>1, <1>3, ConcatProperties, LenProperties
<1>6. Len(Fate) = pushed /\ Len(Fate') = pushed
  BY <1>1, FateLength DEF StreamInv
<1>7. \A i \in 1..pushed : Fate[i] = FateOf(i) /\ Fate'[i] = FateOf(i)'
  BY <1>1 DEF Fate
<1>8. ASSUME NEW i \in 1..pushed
      PROVE  \/ Fate'[i] = Fate[i]
             \/ Fate[i] = "pending" /\ Fate'[i] \in {"stored", "lost"}
  <2>1. ASSUME NEW k \in 1..Len(sent), sent[k] = i
        PROVE  k \in 1..Len(sent') /\ sent'[k] = i
    BY <1>3, <1>4, <1>5, <2>1
  <2>2. FateOf(i) = "stored" => FateOf(i)' = "stored"
    BY <2>1 DEF FateOf
  <2>3. ASSUME NEW k \in 1..Len(sent'), sent'[k] = i
        PROVE  k \in 1..Len(Taken) /\ Taken[k] = i
    BY <1>3, <1>4, <2>3
  <2>4. FateOf(i) = "lost" => FateOf(i)' = "lost"
    BY <1>2, <2>3 DEF FateOf
  <2> QED
    BY <1>7, <2>2, <2>4 DEF FateOf
<1>9. ASSUME NEW i \in 1..pushed, NEW j \in 1..pushed,
             Fate[i] = "stored", Fate[j] = "pending", Fate'[j] = "stored"
      PROVE  i < j
  <2>1. PICK k \in 1..Len(sent) : sent[k] = i
    BY <1>7, <1>9 DEF FateOf
  <2>2. PICK l \in 1..Len(sent') : sent'[l] = j
    BY <1>7, <1>9 DEF FateOf
  <2>3. \A p \in 1..Len(sent) : sent[p] # j
    BY <1>7, <1>9 DEF FateOf
  <2>4. l \notin 1..Len(sent)
    BY <1>3, <1>4, <2>2, <2>3
  <2>5. k \in 1..Len(Taken) /\ l \in 1..Len(Taken) /\ k < l
    BY <1>3, <1>4, <2>4
  <2> QED
    BY <1>3, <1>4, <2>1, <2>2, <2>5 DEF StreamInv, InOrder
<1> QED
  BY <1>6, <1>8, <1>9 DEF Promise!Settle

(* The forwarder takes a message: what it takes is the next one, and what  *)
(* it drops to make room is given up for good.                             *)
LEMMA ForwardSettles ==
  ASSUME StreamInv, StreamInv', Forward
  PROVE  Promise!Next
<1>1. arrived # <<>> /\ UNCHANGED <<pushed, sent, sending>>
  BY DEF Forward
<1>2. /\ Forwarded \in Nat /\ pushed \in Nat /\ Len(Taken) \in Nat
      /\ sent \o sending \in Seq(1..pushed) /\ queue \in Seq(1..pushed)
      /\ Len(sent \o sending) \in Nat /\ Len(queue) \in Nat
      /\ dropped \in Nat /\ Len(queue) <= QueueMax
  BY TakenIsSeq, LenProperties DEF StreamInv, StreamTypes
<1>3. CASE Head(arrived) = 0
  <2>1. UNCHANGED <<queue, dropped>>
    BY <1>3 DEF Forward
  <2>2. UNCHANGED <<Taken, Forwarded>>
    BY <1>1, <2>1 DEF Taken, Forwarded
  <2> QED
    BY <1>1, <1>2, <2>2, NothingSent
<1>4. CASE Head(arrived) # 0
  <2> DEFINE m == Head(arrived)
             a == sent \o sending
  <2>1. m = Forwarded + 1 /\ m \in 1..pushed
    BY <1>1, <1>4, HeadIsNext
  <2>2. /\ Taken = a \o queue /\ Taken' = a \o queue'
        /\ a \in Seq(1..pushed) /\ Len(a) \in Nat
    BY <1>1, <1>2 DEF Taken
  <2>3. PutOr(m, Append(Tail(queue), m))
    BY <1>4 DEF Forward, Enqueue
  <2> HIDE DEF m, a
  <2>4. CASE Len(queue) < QueueMax
    <3>1. queue' = Append(queue, m) /\ dropped' = dropped
      BY <2>3, <2>4 DEF PutOr
    <3>2. /\ Len(Taken') = Len(Taken) + 1
          /\ Taken'[Len(Taken')] = m
          /\ \A i \in 1..Len(Taken) : Taken'[i] = Taken[i]
      BY <1>2, <2>1, <2>2, <3>1, PutLast
    <3>3. ASSUME NEW k \in 1..Len(Taken')
          PROVE  \/ Taken'[k] > Forwarded
                 \/ \E j \in 1..Len(Taken) : Taken'[k] = Taken[j]
      <4>1. CASE k = Len(Taken')
        BY <1>2, <2>1, <3>2, <4>1
      <4>2. CASE k # Len(Taken')
        <5>1. k \in 1..Len(Taken)
          BY <1>2, <3>2, <4>2
        <5> QED
          BY <3>2, <5>1
      <4> QED
        BY <4>1, <4>2
    <3>4. Forwarded' >= Forwarded
      BY <1>2, <3>1, <3>2 DEF Forwarded
    <3> QED
      BY <1>1, <1>2, <3>3, <3>4, NothingSent
  <2>5. CASE ~(Len(queue) < QueueMax)
    <3>1. queue' = Append(Tail(queue), m) /\ dropped' = dropped + 1
      BY <2>3, <2>5 DEF PutOr
    <3>2. queue # <<>>
      <4>1. Len(queue) # 0
        BY <1>2, <2>5, SessionAssumption
      <4> QED
        BY <1>2, <4>1, EmptySeq
    <3>3. /\ Len(Taken') = Len(Taken)
          /\ Len(Taken') \in Nat \ {0}
          /\ Taken'[Len(Taken')] = m
          /\ \A i \in 1..(Len(Taken') - 1) :
               Taken'[i] = Taken[IF i <= Len(a) THEN i ELSE i + 1]
      <4>1. LET t == a \o queue
                u == a \o Append(Tail(queue), m)
            IN  /\ Len(u) = Len(t)
                /\ Len(u) \in Nat \ {0}
                /\ u[Len(u)] = m
                /\ \A i \in 1..(Len(u) - 1) :
                     u[i] = t[IF i <= Len(a) THEN i ELSE i + 1]
        <5>1. a \in Seq(1..pushed) /\ queue \in Seq(1..pushed)
          BY <1>2, <2>2
        <5>2. m \in 1..pushed
          BY <2>1
        <5> QED
          BY <3>2, <5>1, <5>2, PutDropping
      <4>2. Taken = a \o queue /\ Taken' = a \o Append(Tail(queue), m)
        BY <2>2, <3>1
      <4> QED
        BY <4>1, <4>2, Zenon
    <3>4. ASSUME NEW k \in 1..Len(Taken')
          PROVE  \/ Taken'[k] > Forwarded
                 \/ \E j \in 1..Len(Taken) : Taken'[k] = Taken[j]
      <4>1. CASE k = Len(Taken')
        BY <1>2, <2>1, <3>3, <4>1
      <4>2. CASE k # Len(Taken')
        <5>1. k \in 1..(Len(Taken') - 1)
          BY <3>3, <4>2
        <5>2. k \in 1..Len(Taken) /\ k + 1 \in 1..Len(Taken)
          <6>1. Len(Taken') = Len(Taken) /\ Len(Taken) \in Nat
            BY <1>2, <3>3
          <6> QED
            BY <5>1, <6>1
        <5> QED
          BY <3>3, <5>1, <5>2
      <4> QED
        BY <4>1, <4>2
    <3>5. Forwarded' >= Forwarded
      BY <1>2, <3>1, <3>3 DEF Forwarded
    <3> QED
      BY <1>1, <1>2, <3>4, <3>5, NothingSent
  <2> QED
    BY <2>4, <2>5
<1> QED
  BY <1>3, <1>4

(* A session implements TelemetryLog: every message Redis pushed is        *)
(* settled once, as sent or as dropped, a dropped one is never sent after  *)
(* all, and messages are sent in the order they were pushed.               *)
THEOREM SessionImplementsLog == Spec => Promise!Spec
<1>1. Init => Promise!Init
  <2> SUFFICES ASSUME Init PROVE Fate = <<>>
    BY DEF Promise!Init
  <2>1. pushed = 0
    BY DEF Init
  <2> QED
    BY <2>1 DEF Fate
<1>2. StreamInv /\ StreamInv' /\ [Next]_vars => [Promise!Next]_Fate
  <2> SUFFICES ASSUME StreamInv, StreamInv', [Next]_vars
               PROVE  Promise!Next \/ Fate' = Fate
    OBVIOUS
  <2>1. CASE UNCHANGED <<pushed, Taken, dropped, sent>>
    BY <2>1 DEF Fate, FateOf, Forwarded
  <2>2. CASE Take
    <3>1. UNCHANGED <<pushed, dropped, sent>>
      BY <2>2 DEF Take
    <3>2. Taken' = Taken
      BY <2>2, TakeKeepsStream
    <3> QED
      BY <2>1, <3>1, <3>2
  <2>3. ASSUME NEW e \in Equipment, Publish(e) PROVE Promise!Next
    <3> DEFINE c == Cardinality({e, All} \cap remote)
    <3>1. /\ UNCHANGED <<queue, sending, sent, dropped>>
          /\ pushed' >= pushed
      <4>1. c \in Nat
        BY CopiesAreNat
      <4>2. UNCHANGED <<queue, sending, sent, dropped>> /\ pushed' = pushed + c
        BY <2>3 DEF Publish, streamVars
      <4> HIDE DEF c
      <4> QED
        BY <4>1, <4>2 DEF StreamInv, StreamTypes
    <3>2. UNCHANGED <<Taken, Forwarded>>
      BY <3>1 DEF Taken, Forwarded
    <3>3. Forwarded \in Nat
      BY TakenIsSeq DEF StreamInv
    <3> QED
      BY <3>1, <3>2, <3>3, NothingSent
  <2>4. CASE \/ \E r \in Requests : Receive(r)
             \/ Command \/ Answer \/ ReaderEnds \/ ForwarderEnds
             \/ SenderEnds \/ Cancel \/ Close \/ Execute
             \/ ClientLeaves \/ RedisLost \/ UNCHANGED vars
    <3>1. UNCHANGED <<pushed, queue, sending, sent, dropped>>
      BY <2>4 DEF Receive, Command, Answer, ReaderEnds, ForwarderEnds,
                  SenderEnds, Ends, Cancel, Close, Execute, ClientLeaves,
                  RedisLost, streamVars, vars
    <3> QED
      BY <2>1, <3>1 DEF Taken
  <2> QED
    BY <2>2, <2>3, <2>4, SentSettles, ForwardSettles DEF Next, Promise!Next
<1>3. Spec => []StreamInv
  BY StreamInit, StreamStep, PTL DEF Spec
<1> QED
  BY <1>1, <1>2, <1>3, PTL DEF Spec, Promise!Spec

-----------------------------------------------------------------------------
(* The subscriptions.  What Redis will hold once it has executed the       *)
(* commands under way is what subscribed and all_mode say, channel by      *)
(* channel: the last command for a channel decides, and without one Redis  *)
(* holds it already or not.  What the requests ask for differs only in the *)
(* channels the reader has still to go through.                            *)
Left == {request.rest[i] : i \in 1..Len(request.rest)}

Asked == subscribed \cup (IF allMode THEN {All} ELSE {})

RequestTypes ==
  /\ request.rest \in Seq(Channels)
  /\ request.op \in {"none", "subscribe", "unsubscribe", "subscribe_all",
                     "invalid", "malformed"}
  /\ request.op \in {"none", "invalid", "malformed"} => request.rest = <<>>
  /\ request.op \in {"subscribe", "unsubscribe"} => Left \subseteq Equipment
  /\ request.op = "subscribe_all" => Left \subseteq {All}
  /\ request = [op |-> request.op, rest |-> request.rest]

CommandTypes ==
  commands \in Seq([op : {"subscribe", "unsubscribe", "subscribe_all"},
                    ch : Channels])

WantedFollows ==
  \A ch \in Channels :
    ch \in wanted <=>
      IF ch \in Left THEN request.op # "unsubscribe" ELSE ch \in Asked

RemoteFollows ==
  redisUp /\ phase # "closed" =>
    /\ \A ch \in Channels :
         (\A i \in 1..Len(commands) : commands[i].ch # ch)
           => (ch \in remote <=> ch \in Asked)
    /\ \A i \in 1..Len(commands) :
         (\A j \in 1..Len(commands) : j > i => commands[j].ch # commands[i].ch)
           => (commands[i].op # "unsubscribe" <=> commands[i].ch \in Asked)

SubsInv ==
  /\ RequestTypes
  /\ CommandTypes
  /\ subscribed \subseteq Equipment
  /\ allMode \in BOOLEAN
  /\ remote \subseteq Channels
  /\ wanted \subseteq Channels
  /\ WantedFollows
  /\ RemoteFollows

subs == <<phase, redisUp, request, subscribed, allMode, commands, remote,
          wanted>>

LEMMA SubsInit == Init => SubsInv
<1> SUFFICES ASSUME Init PROVE SubsInv
  OBVIOUS
<1>1. /\ request = [op |-> "none", rest |-> <<>>] /\ commands = <<>>
      /\ subscribed = {} /\ allMode = FALSE /\ remote = {} /\ wanted = {}
  BY DEF Init, NoRequest
<1>2. Len(request.rest) = 0 /\ Len(commands) = 0
  BY <1>1
<1>3. Left = {} /\ Asked = {}
  BY <1>1, <1>2 DEF Left, Asked
<1>4. RequestTypes
  BY <1>1 DEF RequestTypes
<1>5. CommandTypes
  BY <1>1 DEF CommandTypes
<1>6. WantedFollows /\ RemoteFollows
  BY <1>1, <1>2, <1>3 DEF WantedFollows, RemoteFollows
<1> QED
  BY <1>1, <1>4, <1>5, <1>6 DEF SubsInv

LEMMA ReceiveSubs ==
  ASSUME NEW r \in Requests
  PROVE  SubsInv /\ Receive(r) => SubsInv'
<1> SUFFICES ASSUME SubsInv, Receive(r) PROVE SubsInv'
  OBVIOUS
<1> DEFINE chs == {r.rest[i] : i \in 1..Len(r.rest)}
<1>1. /\ r.rest \in Seq(Channels)
      /\ r.op \in {"subscribe", "unsubscribe", "subscribe_all", "invalid",
                   "malformed"}
      /\ r.op \in {"invalid", "malformed"} => r.rest = <<>>
      /\ r.op \in {"subscribe", "unsubscribe"} => chs \subseteq Equipment
      /\ r.op = "subscribe_all" => chs \subseteq {All}
      /\ r = [op |-> r.op, rest |-> r.rest]
  <2>1. CASE r \in [op : {"subscribe", "unsubscribe"}, rest : Lists]
    <3>1. r.rest \in Seq(Equipment)
      <4>1. PICK n \in 0..2 : r.rest \in [1..n -> Equipment]
        BY <2>1 DEF Lists
      <4> QED
        BY <4>1, SeqDef
    <3>2. \A i \in 1..Len(r.rest) : r.rest[i] \in Equipment
      BY <3>1, ElementOfSeq
    <3>3. r.rest \in Seq(Channels)
      BY <3>1, SeqMonotonic DEF Channels
    <3> QED
      BY <2>1, <3>2, <3>3
  <2>2. CASE r = [op |-> "subscribe_all", rest |-> <<All>>]
    <3>1. r.rest = <<All>> /\ r.op = "subscribe_all"
      BY <2>2
    <3>2. Len(r.rest) = 1 /\ r.rest[1] = All
      BY <3>1
    <3> QED
      BY <2>2, <3>1, <3>2 DEF Channels
  <2>3. CASE \/ r = [op |-> "invalid", rest |-> <<>>]
             \/ r = [op |-> "malformed", rest |-> <<>>]
    <3>1. r.rest = <<>> /\ r.op \in {"invalid", "malformed"}
      BY <2>3
    <3> QED
      BY <2>3, <3>1
  <2> QED
    BY <2>1, <2>2, <2>3 DEF Requests
<1>2. DOMAIN r.rest = 1..Len(r.rest) /\ chs \subseteq Channels
  BY <1>1, LenProperties, ElementOfSeq
<1>3. /\ request = NoRequest /\ request' = r
      /\ wanted' = After(r.op, wanted, chs)
      /\ UNCHANGED <<phase, redisUp, subscribed, allMode, commands, remote>>
  BY <1>2 DEF Receive
<1>4. Left = {} /\ Left' = chs
  <2>1. request.rest = <<>>
    BY <1>3 DEF NoRequest
  <2>2. Len(request.rest) = 0
    BY <2>1
  <2> QED
    BY <1>3, <2>2 DEF Left
<1>5. Asked' = Asked
  BY <1>3 DEF Asked
<1> HIDE DEF chs
<1>6. RequestTypes'
  BY <1>1, <1>3, <1>4 DEF RequestTypes, chs
<1>7. wanted' \subseteq Channels
  BY <1>2, <1>3 DEF SubsInv, After
<1>8. WantedFollows'
  <2>1. \A ch \in Channels : ch \in wanted <=> ch \in Asked
    BY <1>4 DEF SubsInv, WantedFollows
  <2>2. r.op \in {"invalid", "malformed"} => chs = {}
    <3>1. ASSUME r.op \in {"invalid", "malformed"} PROVE Len(r.rest) = 0
      BY <1>1, <3>1
    <3> QED
      BY <3>1 DEF chs
  <2>3. \A ch \in Channels :
          ch \in wanted' <=> IF ch \in chs THEN r.op # "unsubscribe" ELSE ch \in Asked
    BY <1>1, <1>3, <2>1, <2>2 DEF After
  <2> QED
    BY <1>3, <1>4, <1>5, <2>3 DEF WantedFollows
<1>9. RemoteFollows'
  BY <1>3, <1>5 DEF SubsInv, RemoteFollows
<1> QED
  BY <1>3, <1>6, <1>7, <1>8, <1>9 DEF SubsInv, CommandTypes

LEMMA CommandSubs == SubsInv /\ Command => SubsInv'
<1> SUFFICES ASSUME SubsInv, Command PROVE SubsInv'
  OBVIOUS
<1> DEFINE hd == Head(request.rest)
           op == request.op
           send == hd \in subscribed <=> op = "unsubscribe"
           c == [op |-> op, ch |-> hd]
<1>1. /\ request.rest # <<>>
      /\ request' = [request EXCEPT !.rest = Tail(@)]
      /\ commands' = IF send THEN Append(commands, c) ELSE commands
      /\ subscribed' = After(op, subscribed, {hd} \cap Equipment)
      /\ allMode' = (allMode \/ op = "subscribe_all")
      /\ UNCHANGED <<phase, redisUp, remote, wanted>>
  BY DEF Command, NowSubscribed
<1>2. /\ hd \in Channels /\ hd = request.rest[1]
      /\ Tail(request.rest) \in Seq(Channels)
      /\ Len(request.rest) \in Nat \ {0}
      /\ Len(Tail(request.rest)) = Len(request.rest) - 1
      /\ \A i \in 1..Len(Tail(request.rest)) :
           Tail(request.rest)[i] = request.rest[i + 1]
  BY <1>1, HeadTailProperties, EmptySeq DEF SubsInv, RequestTypes
<1>3. /\ request'.rest = Tail(request.rest) /\ request'.op = op
      /\ request' = [op |-> request'.op, rest |-> request'.rest]
  <2>1. request = [op |-> request.op, rest |-> request.rest]
    BY DEF SubsInv, RequestTypes
  <2> QED
    BY <1>1, <2>1
<1> HIDE DEF hd, op
<1>4. Left = {hd} \cup Left'
  <2>1. \A i \in 1..Len(Tail(request.rest)) : i + 1 \in 1..Len(request.rest)
    BY <1>2
  <2>2. \A i \in 1..Len(request.rest) :
          \/ i = 1
          \/ /\ i - 1 \in 1..Len(Tail(request.rest))
             /\ Tail(request.rest)[i - 1] = request.rest[i]
    <3> TAKE i \in 1..Len(request.rest)
    <3>1. CASE i # 1
      <4>1. i - 1 \in 1..Len(Tail(request.rest)) /\ (i - 1) + 1 = i
        BY <1>2, <3>1
      <4> QED
        BY <1>2, <4>1
    <3> QED
      BY <3>1
  <2>3. 1 \in 1..Len(request.rest)
    BY <1>2
  <2> DEFINE rest == Tail(request.rest)
             left == {rest[i] : i \in 1..Len(rest)}
  <2>4. left \subseteq Left
    BY <1>2, <2>1 DEF Left
  <2>5. hd \in Left
    BY <1>2, <2>3 DEF Left
  <2>6. Left \subseteq {hd} \cup left
    BY <1>2, <2>2 DEF Left
  <2>7. Left' = left
    BY <1>3 DEF Left
  <2> QED
    BY <2>4, <2>5, <2>6, <2>7
<1>5. /\ op \in {"subscribe", "unsubscribe", "subscribe_all"}
      /\ op \in {"subscribe", "unsubscribe"} => hd \in Equipment
      /\ op = "subscribe_all" => hd = All
  BY <1>1, <1>4 DEF SubsInv, RequestTypes, op
<1>6. /\ hd \in Asked' <=> op # "unsubscribe"
      /\ \A ch : ch # hd => (ch \in Asked' <=> ch \in Asked)
  BY <1>1, <1>5, SessionAssumption DEF Asked, After, SubsInv
<1>7. ~send => (hd \in Asked <=> op # "unsubscribe")
  BY <1>5, SessionAssumption DEF Asked, SubsInv
<1>8. ~send => Asked' = Asked
  BY <1>6, <1>7
<1>9. RequestTypes'
  <2>1. op \notin {"none", "invalid", "malformed"}
    BY <1>5
  <2>2. Left' \subseteq Left
    BY <1>4
  <2> QED
    BY <1>2, <1>3, <2>1, <2>2 DEF SubsInv, RequestTypes, op
<1>10. CommandTypes'
  <2>1. c \in [op : {"subscribe", "unsubscribe", "subscribe_all"},
               ch : Channels]
    BY <1>2, <1>5
  <2> QED
    BY <1>1, <2>1, AppendProperties DEF SubsInv, CommandTypes
<1>11. subscribed' \subseteq Equipment /\ allMode' \in BOOLEAN
  BY <1>1 DEF SubsInv, After
<1>12. WantedFollows'
  <2>1. ASSUME NEW ch \in Channels
        PROVE  ch \in wanted <=>
                 IF ch \in Left' THEN op # "unsubscribe" ELSE ch \in Asked'
    <3>1. ch \in wanted <=>
            IF ch \in Left THEN op # "unsubscribe" ELSE ch \in Asked
      BY DEF SubsInv, WantedFollows, op
    <3>2. CASE ch \in Left'
      BY <1>4, <3>1, <3>2
    <3>3. CASE ch \notin Left' /\ ch = hd
      BY <1>4, <1>6, <3>1, <3>3
    <3>4. CASE ch \notin Left' /\ ch # hd
      BY <1>4, <1>6, <3>1, <3>4
    <3> QED
      BY <3>2, <3>3, <3>4
  <2>2. wanted' = wanted
    BY <1>1
  <2> QED
    BY <1>3, <2>1, <2>2 DEF WantedFollows
<1>13. RemoteFollows'
  <2>1. CASE ~send
    BY <1>1, <1>8, <2>1 DEF SubsInv, RemoteFollows
  <2>2. CASE send
    <3> SUFFICES ASSUME redisUp, phase # "closed"
                 PROVE  /\ \A ch \in Channels :
                             (\A i \in 1..Len(commands') : commands'[i].ch # ch)
                               => (ch \in remote <=> ch \in Asked')
                        /\ \A i \in 1..Len(commands') :
                             (\A j \in 1..Len(commands') :
                                j > i => commands'[j].ch # commands'[i].ch)
                               => (commands'[i].op # "unsubscribe"
                                     <=> commands'[i].ch \in Asked')
      <4>1. UNCHANGED <<redisUp, phase, remote>>
        BY <1>1
      <4> QED
        BY <4>1 DEF RemoteFollows, Asked
    <3>1. commands' = Append(commands, c) /\ Len(commands) \in Nat
      BY <1>1, <2>2, LenProperties DEF SubsInv, CommandTypes
    <3>2. c \in [op : {"subscribe", "unsubscribe", "subscribe_all"},
                 ch : Channels]
      BY <1>2, <1>5
    <3>3. /\ Len(commands') = Len(commands) + 1
          /\ commands'[Len(commands) + 1] = c
          /\ \A i \in 1..Len(commands) : commands'[i] = commands[i]
      BY <3>1, <3>2, AppendProperties DEF SubsInv, CommandTypes
    <3>4. /\ Len(commands) + 1 \in 1..Len(commands')
          /\ \A i \in 1..Len(commands) :
               i \in 1..Len(commands') /\ Len(commands) + 1 > i
          /\ \A i \in 1..Len(commands') :
               i = Len(commands) + 1 \/ i \in 1..Len(commands)
      BY <3>1, <3>3
    <3>5. /\ \A ch \in Channels :
               (\A i \in 1..Len(commands) : commands[i].ch # ch)
                 => (ch \in remote <=> ch \in Asked)
          /\ \A i \in 1..Len(commands) :
               (\A j \in 1..Len(commands) : j > i => commands[j].ch # commands[i].ch)
                 => (commands[i].op # "unsubscribe" <=> commands[i].ch \in Asked)
      BY DEF SubsInv, RemoteFollows
    <3>6. ASSUME NEW ch \in Channels,
                 \A i \in 1..Len(commands') : commands'[i].ch # ch
          PROVE  ch \in remote <=> ch \in Asked'
      <4>1. ch # hd
        BY <3>3, <3>4, <3>6
      <4>2. \A i \in 1..Len(commands) : commands[i].ch # ch
        BY <3>3, <3>4, <3>6
      <4> QED
        BY <1>6, <3>5, <4>1, <4>2
    <3>7. ASSUME NEW i \in 1..Len(commands'),
                 \A j \in 1..Len(commands') :
                   j > i => commands'[j].ch # commands'[i].ch
          PROVE  commands'[i].op # "unsubscribe" <=> commands'[i].ch \in Asked'
      <4>1. CASE i = Len(commands) + 1
        BY <1>6, <3>3, <4>1
      <4>2. CASE i \in 1..Len(commands)
        <5>1. commands'[i] = commands[i] /\ commands[i].ch # hd
          BY <3>3, <3>4, <3>7, <4>2
        <5>2. \A j \in 1..Len(commands) : j > i => commands[j].ch # commands[i].ch
          BY <3>3, <3>4, <3>7, <4>2
        <5>3. commands[i].op # "unsubscribe" <=> commands[i].ch \in Asked
          BY <3>5, <4>2, <5>2
        <5> QED
          BY <1>6, <5>1, <5>3
      <4> QED
        BY <3>4, <4>1, <4>2
    <3> QED
      BY <3>6, <3>7
  <2> QED
    BY <2>1, <2>2
<1> QED
  BY <1>1, <1>9, <1>10, <1>11, <1>12, <1>13 DEF SubsInv

LEMMA ExecuteSubs == SubsInv /\ Execute => SubsInv'
<1> SUFFICES ASSUME SubsInv, Execute PROVE SubsInv'
  OBVIOUS
<1> DEFINE c == Head(commands)
           op == c.op
           hd == c.ch
<1>1. /\ commands # <<>> /\ commands' = Tail(commands)
      /\ remote' = After(op, remote, {hd})
      /\ redisUp /\ phase # "closed"
      /\ UNCHANGED <<phase, redisUp, request, subscribed, allMode, wanted>>
  BY DEF Execute
<1>2. /\ c \in [op : {"subscribe", "unsubscribe", "subscribe_all"},
                ch : Channels]
      /\ c = commands[1] /\ Len(commands) \in Nat \ {0}
      /\ CommandTypes'
      /\ Len(commands') = Len(commands) - 1
      /\ \A i \in 1..Len(commands') : commands'[i] = commands[i + 1]
  <2> DEFINE C == [op : {"subscribe", "unsubscribe", "subscribe_all"},
                   ch : Channels]
  <2>1. commands \in Seq(C) /\ commands # <<>>
    BY <1>1 DEF SubsInv, CommandTypes
  <2> HIDE DEF C
  <2>2. /\ c \in C /\ commands' \in Seq(C)
        /\ Len(commands') = Len(commands) - 1
        /\ \A i \in 1..Len(commands') : commands'[i] = commands[i + 1]
    BY <1>1, <2>1, HeadTailProperties
  <2>3. c = commands[1] /\ Len(commands) \in Nat \ {0}
    BY <2>1, EmptySeq
  <2> QED
    BY <2>2, <2>3 DEF C, CommandTypes
<1>3. hd \in Channels /\ op \in {"subscribe", "unsubscribe", "subscribe_all"}
  BY <1>2
<1>4. /\ hd = commands[1].ch /\ op = commands[1].op
  BY <1>2
<1> HIDE DEF c, op, hd
<1>5. UNCHANGED <<Left, RequestTypes>>
  BY <1>1 DEF Left, RequestTypes
<1>6. Asked' = Asked
  BY <1>1 DEF Asked
<1>7. /\ hd \in remote' <=> op # "unsubscribe"
      /\ \A ch : ch # hd => (ch \in remote' <=> ch \in remote)
      /\ remote' \subseteq Channels
  BY <1>1, <1>3 DEF After, SubsInv
<1>8. /\ \A ch \in Channels :
           (\A i \in 1..Len(commands) : commands[i].ch # ch)
             => (ch \in remote <=> ch \in Asked)
      /\ \A i \in 1..Len(commands) :
           (\A j \in 1..Len(commands) : j > i => commands[j].ch # commands[i].ch)
             => (commands[i].op # "unsubscribe" <=> commands[i].ch \in Asked)
  BY <1>1 DEF SubsInv, RemoteFollows
<1>9. /\ 1 \in 1..Len(commands)
      /\ \A i \in 1..Len(commands') : i + 1 \in 1..Len(commands) /\ i + 1 > 1
      /\ \A k \in 1..Len(commands) :
           \/ k = 1
           \/ k - 1 \in 1..Len(commands') /\ commands'[k - 1] = commands[k]
  <2>1. ASSUME NEW k \in 1..Len(commands), k # 1
        PROVE  k - 1 \in 1..Len(commands') /\ commands'[k - 1] = commands[k]
    <3>1. k - 1 \in 1..Len(commands') /\ (k - 1) + 1 = k
      BY <1>2, <2>1
    <3> QED
      BY <1>2, <3>1
  <2> QED
    BY <1>2, <2>1
<1>10. ASSUME NEW ch \in Channels,
              \A i \in 1..Len(commands') : commands'[i].ch # ch
       PROVE  ch \in remote' <=> ch \in Asked
  <2>1. CASE ch = hd
    <3>1. \A j \in 1..Len(commands) : j > 1 => commands[j].ch # commands[1].ch
      BY <1>4, <1>9, <1>10, <2>1
    <3>2. commands[1].op # "unsubscribe" <=> commands[1].ch \in Asked
      BY <1>8, <1>9, <3>1
    <3> QED
      BY <1>4, <1>7, <2>1, <3>2
  <2>2. CASE ch # hd
    <3>1. \A j \in 1..Len(commands) : commands[j].ch # ch
      BY <1>4, <1>9, <1>10, <2>2
    <3> QED
      BY <1>7, <1>8, <2>2, <3>1
  <2> QED
    BY <2>1, <2>2
<1>11. ASSUME NEW i \in 1..Len(commands'),
              \A j \in 1..Len(commands') :
                j > i => commands'[j].ch # commands'[i].ch
       PROVE  commands'[i].op # "unsubscribe" <=> commands'[i].ch \in Asked
  <2>1. commands'[i] = commands[i + 1] /\ i + 1 \in 1..Len(commands)
    BY <1>2, <1>9
  <2>2. ASSUME NEW k \in 1..Len(commands), k > i + 1
        PROVE  commands[k].ch # commands[i + 1].ch
    <3>1. k # 1 /\ k - 1 > i
      BY <1>2, <2>2
    <3> QED
      BY <1>9, <1>11, <2>1, <3>1
  <2> QED
    BY <1>8, <2>1, <2>2
<1>12. RemoteFollows'
  BY <1>6, <1>10, <1>11 DEF RemoteFollows
<1>13. WantedFollows'
  BY <1>1, <1>5, <1>6 DEF SubsInv, WantedFollows
<1> QED
  BY <1>1, <1>2, <1>5, <1>7, <1>12, <1>13 DEF SubsInv

LEMMA SubsStep == SubsInv /\ [Next]_vars => SubsInv'
<1> SUFFICES ASSUME SubsInv, [Next]_vars PROVE SubsInv'
  OBVIOUS
<1>1. CASE UNCHANGED subs
  <2>1. UNCHANGED <<Left, RequestTypes, CommandTypes>>
    BY <1>1 DEF subs, Left, RequestTypes, CommandTypes
  <2>2. UNCHANGED <<WantedFollows, RemoteFollows>>
    BY <1>1, <2>1 DEF subs, WantedFollows, RemoteFollows, Asked
  <2> QED
    BY <1>1, <2>1, <2>2 DEF subs, SubsInv
<1>2. CASE Answer
  <2>1. /\ request.rest = <<>> /\ request' = NoRequest
        /\ UNCHANGED <<phase, redisUp, subscribed, allMode, commands, remote,
                       wanted>>
    BY <1>2 DEF Answer
  <2>2. Left = {} /\ Left' = {}
    <3>1. request'.rest = <<>>
      BY <2>1 DEF NoRequest
    <3>2. Len(request.rest) = 0 /\ Len(request'.rest) = 0
      BY <2>1, <3>1
    <3> QED
      BY <3>2 DEF Left
  <2>3. RequestTypes'
    BY <2>1, <2>2 DEF RequestTypes, NoRequest
  <2>4. WantedFollows' /\ RemoteFollows' /\ CommandTypes'
    BY <2>1, <2>2
    DEF SubsInv, WantedFollows, RemoteFollows, CommandTypes, Asked
  <2> QED
    BY <2>1, <2>3, <2>4 DEF SubsInv
<1>3. CASE RedisLost \/ Close \/ Cancel
  <2>1. /\ UNCHANGED <<request, subscribed, allMode, commands, wanted>>
        /\ remote' \in {remote, {}}
        /\ \/ ~redisUp' \/ phase' = "closed"
           \/ remote' = remote /\ redisUp' = redisUp /\ phase # "closed"
    BY <1>3 DEF RedisLost, Close, Cancel, readerVars
  <2>2. UNCHANGED <<Left, RequestTypes, CommandTypes>>
    BY <2>1 DEF Left, RequestTypes, CommandTypes
  <2>3. WantedFollows' /\ RemoteFollows'
    BY <2>1, <2>2 DEF SubsInv, WantedFollows, RemoteFollows, Asked
  <2> QED
    BY <2>1, <2>2, <2>3 DEF SubsInv
<1>4. CASE \/ ReaderEnds \/ Forward \/ ForwarderEnds \/ Take \/ Sent
           \/ SenderEnds \/ ClientLeaves \/ UNCHANGED vars
           \/ \E e \in Equipment : Publish(e)
  <2>1. UNCHANGED subs
    BY <1>4 DEF ReaderEnds, Forward, ForwarderEnds, Take, Sent, SenderEnds,
                Ends, ClientLeaves, Publish, readerVars, subs, vars
  <2> QED
    BY <1>1, <2>1
<1> QED
  BY <1>2, <1>3, <1>4, ReceiveSubs, CommandSubs, ExecuteSubs DEF Next

(* Once the reader has answered and Redis has executed the commands, the   *)
(* connection holds what the requests ask for, for every sequence of       *)
(* requests: subscribed never hides a command that was needed.             *)
THEOREM SubscriptionsCorrect == Spec => []SubscriptionsFollow
<1>1. Spec => []SubsInv
  BY SubsInit, SubsStep, PTL DEF Spec
<1>2. SubsInv => SubscriptionsFollow
  <2> SUFFICES ASSUME SubsInv, request = NoRequest, commands = <<>>, redisUp,
                      phase # "closed"
               PROVE  remote = wanted
    BY DEF SubscriptionsFollow
  <2>1. Left = {}
    <3>1. request.rest = <<>>
      BY DEF NoRequest
    <3>2. Len(request.rest) = 0
      BY <3>1
    <3> QED
      BY <3>2 DEF Left
  <2>2. Len(commands) = 0
    OBVIOUS
  <2>3. \A ch \in Channels : ch \in remote <=> ch \in Asked
    BY <2>2 DEF SubsInv, RemoteFollows
  <2>4. \A ch \in Channels : ch \in wanted <=> ch \in Asked
    BY <2>1 DEF SubsInv, WantedFollows
  <2> QED
    BY <2>3, <2>4 DEF SubsInv
<1> QED
  BY <1>1, <1>2, PTL

-----------------------------------------------------------------------------
(* The rest of the handler: the gauge is up as long as the session is.     *)
HandlerInv ==
  /\ phase \in {"open", "closing", "closed"}
  /\ gauge = IF phase = "open" THEN 1 ELSE 0
  /\ running \subseteq Tasks
  /\ gone \in BOOLEAN
  /\ redisUp \in BOOLEAN
  /\ requests \in 0..MaxRequests

LEMMA HandlerStep == HandlerInv /\ [Next]_vars => HandlerInv'
<1> SUFFICES ASSUME HandlerInv, [Next]_vars PROVE HandlerInv'
  OBVIOUS
<1>1. ASSUME NEW r \in Requests, Receive(r) PROVE HandlerInv'
  <2>1. requests' \in 0..MaxRequests
    BY <1>1, SessionAssumption DEF HandlerInv, Receive
  <2> QED
    BY <1>1, <2>1 DEF HandlerInv, Receive
<1>2. CASE ReaderEnds \/ ForwarderEnds \/ SenderEnds \/ Cancel \/ Close
  BY <1>2 DEF ReaderEnds, ForwarderEnds, SenderEnds, Ends, Cancel, Close,
              HandlerInv, readerVars
<1>3. CASE ClientLeaves \/ RedisLost
  BY <1>3 DEF ClientLeaves, RedisLost, HandlerInv, readerVars
<1>4. CASE \/ Command \/ Answer \/ Forward \/ Take \/ Sent \/ Execute
           \/ \E e \in Equipment : Publish(e)
           \/ UNCHANGED vars
  BY <1>4 DEF Command, Answer, Forward, Take, Sent, Execute, Publish, vars,
              HandlerInv, readerVars
<1> QED
  BY <1>1, <1>2, <1>3, <1>4 DEF Next

(* Every variable keeps its type, and the queue never outgrows             *)
(* SEND_QUEUE_MAX, for every size of it.                                   *)
THEOREM SessionTypeCorrect == Spec => []TypeOK
<1>1. Init => HandlerInv
  <2> SUFFICES ASSUME Init PROVE HandlerInv
    OBVIOUS
  <2>1. /\ phase = "open" /\ gauge = 1 /\ running = Tasks /\ gone = FALSE
        /\ redisUp = TRUE /\ requests = 0
    BY DEF Init
  <2>2. 0 \in 0..MaxRequests
    BY SessionAssumption
  <2> QED
    BY <2>1, <2>2 DEF HandlerInv
<1>2. Spec => []HandlerInv
  BY <1>1, HandlerStep, PTL DEF Spec
<1>3. Spec => []SubsInv
  BY SubsInit, SubsStep, PTL DEF Spec
<1>4. StreamInv /\ SubsInv /\ HandlerInv => TypeOK
  <2> SUFFICES ASSUME StreamInv, SubsInv, HandlerInv PROVE TypeOK
    OBVIOUS
  <2>1. dropped \in 0..pushed
    BY TakenIsSeq DEF StreamInv, StreamTypes, Forwarded
  <2> QED
    BY <2>1 DEF TypeOK, StreamInv, StreamTypes, SubsInv, RequestTypes,
                CommandTypes, HandlerInv
<1> QED
  BY <1>2, <1>3, <1>4, StreamCorrect, PTL
=============================================================================
