------------------------- MODULE IngestWriterProofs -------------------------
(***************************************************************************)
(* What holds of the ingest writer for every buffer size, age, overflow    *)
(* limit, set of machines and bound of the model.                          *)
(***************************************************************************)
EXTENDS IngestWriter, SequenceTheorems, WellFoundedInduction, TLAPS

(* The limit is a positive number, also when none is configured. *)
LEMMA LimitPositive == Limit \in Nat \ {0}
BY BufferAssumption DEF Limit

(* A function on 1..n with values in S is a sequence of length n. *)
LEMMA FunctionIsSeq ==
  ASSUME NEW S, NEW n \in Nat, NEW f \in [1..n -> S]
  PROVE  f \in Seq(S) /\ Len(f) = n
<1>1. f \in Seq(S)
  BY SeqDef
<1>2. DOMAIN f = 1..Len(f) /\ Len(f) \in Nat
  BY <1>1, LenProperties
<1>3. DOMAIN f = 1..n
  OBVIOUS
<1> QED
  BY <1>1, <1>2, <1>3

(* Trim keeps the newest Limit items, in order, and an oldest time that is *)
(* the time of the first one whenever it was before or something is cut.   *)
LEMMA TrimProperties ==
  ASSUME NEW items \in Seq(Samples), NEW oldest \in Nat \cup {NoTime}
  PROVE  LET b == Trim(items, oldest)
         IN  /\ b \in [items : Seq(Samples), oldest : Nat \cup {NoTime}]
             /\ Len(b.items) = IF Len(items) > Limit THEN Limit ELSE Len(items)
             /\ \A i \in 1..Len(b.items) :
                  b.items[i] = items[Len(items) - Len(b.items) + i]
             /\ b.oldest = IF Len(items) > Limit THEN b.items[1].time
                           ELSE oldest
<1> DEFINE over == Len(items) - Limit
           b    == Trim(items, oldest)
<1>1. Len(items) \in Nat /\ over \in Int /\ Limit \in Nat \ {0}
  BY LimitPositive, LenProperties
<1>2. CASE over > 0
  <2>1. \A i \in (over + 1)..Len(items) : items[i] \in Samples
    BY <1>1, <1>2, ElementOfSeq
  <2>2. b = [items  |-> SubSeq(items, over + 1, Len(items)),
             oldest |-> items[over + 1].time]
    BY <1>2 DEF Trim
  <2>3. /\ SubSeq(items, over + 1, Len(items)) \in Seq(Samples)
        /\ Len(SubSeq(items, over + 1, Len(items))) = Limit
        /\ \A i \in 1..Limit :
             SubSeq(items, over + 1, Len(items))[i] = items[over + i]
    <3>1. over + 1 <= Len(items) /\ Len(items) - (over + 1) + 1 = Limit
      BY <1>1
    <3>2. over + 1 \in Int /\ Len(items) \in Int
      BY <1>1
    <3>3. /\ SubSeq(items, over + 1, Len(items)) \in Seq(Samples)
          /\ Len(SubSeq(items, over + 1, Len(items)))
               = Len(items) - (over + 1) + 1
          /\ \A i \in 1..(Len(items) - (over + 1) + 1) :
               SubSeq(items, over + 1, Len(items))[i] = items[over + 1 + i - 1]
      BY <2>1, <3>1, <3>2, SubSeqProperties
    <3>4. \A i \in 1..Limit : over + 1 + i - 1 = over + i
      BY <1>1
    <3> QED
      BY <3>1, <3>3, <3>4
  <2>4. items[over + 1] \in Samples
    BY <1>1, <1>2, <2>1
  <2>5. items[over + 1].time \in Nat
    BY <2>4 DEF Samples
  <2>6. 1 \in 1..Limit
    BY <1>1
  <2>7. b.items[1] = items[over + 1]
    BY <2>2, <2>3, <2>6
  <2> QED
    BY <1>1, <1>2, <2>2, <2>3, <2>5, <2>7
<1>3. CASE ~(over > 0)
  <2>1. b = [items |-> items, oldest |-> oldest]
    BY <1>3 DEF Trim
  <2>2. \A i \in 1..Len(items) : Len(items) - Len(items) + i = i
    BY <1>1
  <2> QED
    BY <1>1, <1>3, <2>1, <2>2
<1> QED
  BY <1>2, <1>3

-----------------------------------------------------------------------------
Buffers == [items : Seq(Samples), oldest : Nat \cup {NoTime}]

(* _oldest_time is that of the first sample. *)
Consistent(b) ==
  b.oldest = IF b.items = <<>> THEN NoTime ELSE b.items[1].time

(* c is b after the samples ss were added: the newest Limit of both, in    *)
(* order, and the right oldest time.                                       *)
Extends(c, b, ss) ==
  /\ c \in Buffers
  /\ Consistent(c)
  /\ Len(c.items) = IF Len(b.items) + Len(ss) > Limit THEN Limit
                    ELSE Len(b.items) + Len(ss)
  /\ \A i \in 1..Len(c.items) :
       c.items[i] = (b.items \o ss)[(Len(b.items) + Len(ss)) - Len(c.items) + i]

LEMMA AddAllProperties ==
  ASSUME NEW b \in Buffers, NEW ss \in Seq(Samples), Consistent(b),
         Len(b.items) <= Limit
  PROVE  Extends(AddAll(b, ss), b, ss)
<1> DEFINE c   == AddAll(b, ss)
           all == b.items \o ss
           n   == Len(b.items) + Len(ss)
           old == IF b.oldest = NoTime THEN ss[1].time ELSE b.oldest
<1> HIDE DEF c, all, n, old
<1>1. b.items \in Seq(Samples) /\ Limit \in Nat \ {0}
  BY LimitPositive DEF Buffers
<1>2. Len(b.items) \in Nat /\ Len(ss) \in Nat
  BY <1>1, LenProperties
<1>3. /\ all \in Seq(Samples)
      /\ Len(all) = n
      /\ \A i \in 1..n :
           all[i] = IF i <= Len(b.items) THEN b.items[i] ELSE ss[i - Len(b.items)]
  BY <1>1, ConcatProperties DEF all, n
<1>4. CASE ss = <<>>
  <2>1. c = b /\ Len(ss) = 0 /\ all = b.items
    BY <1>1, <1>4, ConcatEmptySeq, EmptySeq DEF AddAll, c, all
  <2>2. n = Len(b.items) /\ \A i \in 1..Len(b.items) : n - Len(b.items) + i = i
    BY <1>2, <2>1 DEF n
  <2> QED
    BY <1>1, <1>2, <2>1, <2>2 DEF c, all, n, Extends
<1>5. CASE ss # <<>>
  <2>1. Len(ss) > 0
    BY <1>2, <1>5, EmptySeq
  <2>2. c = Trim(all, old)
    BY <1>5 DEF AddAll, c, all, old
  <2>3. ss[1] \in Samples
    BY <1>2, <2>1, ElementOfSeq
  <2>4. ss[1].time \in Nat
    BY <2>3 DEF Samples
  <2>5. old \in Nat \cup {NoTime}
    BY <2>4 DEF Buffers, old
  <2>6. /\ c \in Buffers
        /\ Len(c.items) = IF n > Limit THEN Limit ELSE n
        /\ \A i \in 1..Len(c.items) : c.items[i] = all[n - Len(c.items) + i]
        /\ c.oldest = IF n > Limit THEN c.items[1].time ELSE old
    <3>1. /\ Trim(all, old) \in Buffers
          /\ Len(Trim(all, old).items)
               = IF Len(all) > Limit THEN Limit ELSE Len(all)
          /\ \A i \in 1..Len(Trim(all, old).items) :
               Trim(all, old).items[i]
                 = all[Len(all) - Len(Trim(all, old).items) + i]
          /\ Trim(all, old).oldest
               = IF Len(all) > Limit THEN Trim(all, old).items[1].time ELSE old
      BY <1>3, <2>5, TrimProperties DEF Buffers
    <3> QED
      BY <1>3, <2>2, <3>1
  <2>7. Len(c.items) > 0 /\ Len(c.items) \in Nat
    BY <1>1, <1>2, <2>1, <2>6 DEF n
  <2>8. c.items # <<>> /\ 1 \in 1..Len(c.items)
    BY <2>6, <2>7, EmptySeq DEF Buffers
  <2>9. c.oldest = c.items[1].time
    <3>1. CASE n > Limit
      BY <2>6, <3>1
    <3>2. CASE ~(n > Limit)
      <4>1. Len(c.items) = n /\ n - n + 1 = 1
        BY <1>2, <2>6, <3>2 DEF n
      <4>2. c.items[1] = all[1] /\ c.oldest = old
        BY <2>6, <2>8, <3>2, <4>1
      <4>3. CASE b.items = <<>>
        <5>1. Len(b.items) = 0 /\ b.oldest = NoTime
          BY <4>3, EmptySeq DEF Consistent
        <5>2. all[1] = ss[1]
          BY <1>2, <1>3, <2>1, <5>1 DEF n
        <5> QED
          BY <4>2, <5>1, <5>2 DEF old
      <4>4. CASE b.items # <<>>
        <5>1. Len(b.items) >= 1
          BY <1>1, <4>4, EmptySeq
        <5>2. all[1] = b.items[1]
          BY <1>2, <1>3, <2>1, <5>1 DEF n
        <5>3. b.items[1] \in Samples
          BY <1>1, <1>2, <5>1, ElementOfSeq
        <5>4. b.items[1].time \in Nat
          BY <5>3 DEF Samples
        <5>5. b.oldest = b.items[1].time /\ b.oldest # NoTime
          BY <4>4, <5>4, BufferAssumption DEF Consistent
        <5> QED
          BY <4>2, <5>2, <5>5 DEF old
      <4> QED
        BY <4>3, <4>4
    <3> QED
      BY <3>1, <3>2
  <2>10. Consistent(c)
    BY <2>8, <2>9 DEF Consistent
  <2>11. Extends(c, b, ss)
    BY <2>6, <2>10, Zenon DEF all, n, Extends
  <2> QED
    BY <2>11 DEF c
<1> QED
  BY <1>4, <1>5

(* The closed form of on_update's loop: adding no sample changes nothing,  *)
(* and adding one more is one more call of BatchBuffer.add, so AddAll is   *)
(* what the calls, one after another, compute.                             *)
THEOREM AddAllStep ==
  ASSUME NEW b \in Buffers, Consistent(b), Len(b.items) <= Limit,
         NEW ss \in Seq(Samples), NEW s \in Samples
  PROVE  /\ AddAll(b, <<>>) = b
         /\ AddAll(b, Append(ss, s)) = Add(AddAll(b, ss), s)
<1> DEFINE a == Append(ss, s)
           o == <<s>>
           c == AddAll(b, ss)
           l == AddAll(b, a)
           r == AddAll(c, o)
           p == Len(b.items)
           q == Len(ss)
           m == Len(c.items)
           d == Len(l.items)
           lim == Limit
<1> HIDE DEF a, o, c, l, r, p, q, m, d, lim
<1>1. b.items \in Seq(Samples) /\ lim \in Nat \ {0}
  BY LimitPositive DEF Buffers, lim
<1>2. p \in Nat /\ q \in Nat
  BY <1>1, LenProperties DEF p, q
<1>3. /\ a \in Seq(Samples)
      /\ Len(a) = q + 1
      /\ \A i \in 1..q : a[i] = ss[i]
      /\ a[q + 1] = s
  BY AppendProperties DEF a, q
<1>4. o \in Seq(Samples) /\ Len(o) = 1 /\ o[1] = s /\ o # <<>>
  BY DEF o
<1>5. /\ c \in Buffers
      /\ Consistent(c)
      /\ m = IF p + q > lim THEN lim ELSE p + q
      /\ \A i \in 1..m : c.items[i] = (b.items \o ss)[(p + q) - m + i]
  <2>1. Extends(c, b, ss)
    BY AddAllProperties DEF c
  <2> QED
    BY <2>1 DEF Extends, m, p, q, lim
<1>6. c.items \in Seq(Samples)
  BY <1>5 DEF Buffers
<1>7. /\ l \in Buffers
      /\ Consistent(l)
      /\ d = IF p + (q + 1) > lim THEN lim ELSE p + (q + 1)
      /\ \A i \in 1..d : l.items[i] = (b.items \o a)[(p + (q + 1)) - d + i]
  <2>1. /\ l \in Buffers
        /\ Consistent(l)
        /\ d = IF p + Len(a) > lim THEN lim ELSE p + Len(a)
        /\ \A i \in 1..d : l.items[i] = (b.items \o a)[(p + Len(a)) - d + i]
    <3>1. Extends(l, b, a)
      BY <1>3, AddAllProperties DEF l
    <3> QED
      BY <3>1 DEF Extends, d, p, lim
  <2>2. Len(a) = q + 1
    BY <1>3
  <2> QED
    BY <2>1, <2>2
<1>8. m \in Nat /\ m <= lim
  BY <1>1, <1>2, <1>5
<1>9. /\ r \in Buffers
      /\ Consistent(r)
      /\ Len(r.items) = IF m + 1 > lim THEN lim ELSE m + 1
      /\ \A i \in 1..Len(r.items) :
           r.items[i] = (c.items \o o)[(m + 1) - Len(r.items) + i]
  <2>1. Len(c.items) <= Limit
    BY <1>8 DEF m, lim
  <2>2. /\ r \in Buffers
        /\ Consistent(r)
        /\ Len(r.items) = IF m + Len(o) > lim THEN lim ELSE m + Len(o)
        /\ \A i \in 1..Len(r.items) :
             r.items[i] = (c.items \o o)[(m + Len(o)) - Len(r.items) + i]
    <3>1. Extends(r, c, o)
      BY <1>4, <1>5, <2>1, AddAllProperties DEF r
    <3> QED
      BY <3>1 DEF Extends, m, lim
  <2>3. Len(o) = 1
    BY <1>4
  <2> QED
    BY <2>2, <2>3
<1>10. Add(c, s) = r
  <2>1. Append(c.items, s) = c.items \o o
    BY <1>6, AppendIsConcat DEF o
  <2>2. o[1].time = s.time
    BY <1>4
  <2> QED
    BY <1>4, <2>1, <2>2 DEF Add, AddAll, r
<1>11. Len(r.items) = d /\ d \in Nat
  BY <1>1, <1>2, <1>5, <1>7, <1>9
<1>12. ASSUME NEW i \in 1..d
       PROVE  l.items[i] = r.items[i]
  <2> DEFINE j == (p + (q + 1)) - d + i
             k == (m + 1) - d + i
  <2>1. /\ j \in 1..(p + (q + 1))
        /\ k \in 1..(m + 1)
        /\ j = (p + q) - m + k
    BY <1>1, <1>2, <1>5, <1>7, <1>8, <1>11
  <2> HIDE DEF j, k
  <2>2. l.items[i] = (b.items \o a)[j]
    BY <1>7 DEF j
  <2>3. r.items[i] = (c.items \o o)[k]
    BY <1>9, <1>11 DEF k
  <2>4. (b.items \o a)[j] = IF j <= p THEN b.items[j] ELSE a[j - p]
    BY <1>1, <1>3, <2>1, ConcatProperties DEF p
  <2>5. (c.items \o o)[k] = IF k <= m THEN c.items[k] ELSE o[k - m]
    BY <1>4, <1>6, <2>1, ConcatProperties DEF m
  <2>6. CASE k = m + 1
    <3>1. j - p = q + 1 /\ ~(j <= p) /\ k - m = 1 /\ ~(k <= m)
      BY <1>2, <1>8, <2>1, <2>6
    <3> QED
      BY <1>3, <1>4, <2>2, <2>3, <2>4, <2>5, <3>1
  <2>7. CASE k # m + 1
    <3>1. j \in 1..(p + q) /\ k \in 1..m /\ k <= m
      BY <1>1, <1>2, <1>5, <1>8, <2>1, <2>7
    <3>2. c.items[k] = (b.items \o ss)[j]
      BY <1>5, <2>1, <3>1
    <3>3. (b.items \o ss)[j] = IF j <= p THEN b.items[j] ELSE ss[j - p]
      BY <1>1, <3>1, ConcatProperties DEF p, q
    <3>4. ~(j <= p) => j - p \in 1..q
      BY <1>2, <3>1
    <3>5. ~(j <= p) => a[j - p] = ss[j - p]
      BY <1>3, <3>4
    <3>6. r.items[i] = IF j <= p THEN b.items[j] ELSE ss[j - p]
      BY <2>3, <2>5, <3>1, <3>2, <3>3
    <3> QED
      BY <2>2, <2>4, <3>5, <3>6
  <2> QED
    BY <2>6, <2>7
<1>13. l.items = r.items
  <2>1. l.items \in Seq(Samples) /\ r.items \in Seq(Samples)
    BY <1>7, <1>9 DEF Buffers
  <2>2. \A i \in 1..Len(l.items) : l.items[i] = r.items[i]
    BY <1>12 DEF d
  <2> QED
    BY <1>11, <2>1, <2>2, SeqEqual DEF d
<1>14. l.oldest = r.oldest
  BY <1>7, <1>9, <1>13 DEF Consistent
<1>15. l = r
  <2>1. /\ l = [items |-> l.items, oldest |-> l.oldest]
        /\ r = [items |-> r.items, oldest |-> r.oldest]
    BY <1>7, <1>9 DEF Buffers
  <2> QED
    BY <1>13, <1>14, <2>1
<1>16. AddAll(b, <<>>) = b
  BY DEF AddAll
<1> QED
  BY <1>10, <1>15, <1>16 DEF a, c, l

(* A set of numbers that is not empty has a least one. *)
LEMMA SmallestInSet ==
  ASSUME NEW T, T \subseteq Nat, T # {}
  PROVE  \E a \in T : \A b \in T : a <= b
<1>1. \E a \in T : \A b \in T : <<b, a>> \notin OpToRel(<, Nat)
  BY NatLessThanWellFounded, WFMin
<1>2. \A a, b \in Nat : <<b, a>> \notin OpToRel(<, Nat) => a <= b
  BY DEF OpToRel
<1> QED
  BY <1>1, <1>2

(* One more call of add after the first n - 1 of them. *)
LEMMA AddAllPrefix ==
  ASSUME NEW b \in Buffers, Consistent(b), Len(b.items) <= Limit,
         NEW ss \in Seq(Samples), NEW n \in 1..Len(ss)
  PROVE  AddAll(b, SubSeq(ss, 1, n))
           = Add(AddAll(b, SubSeq(ss, 1, n - 1)), ss[n])
<1>1. Len(ss) \in Nat /\ ss[n] \in Samples
  BY LenProperties
<1>2. 1 \in 1..Len(ss) /\ n \in 1..Len(ss)
  BY <1>1
<1>3. SubSeq(ss, 1, n) = SubSeq(ss, 1, n - 1) \o <<ss[n]>>
  BY <1>2, SubSeqRecursiveSecond
<1>4. SubSeq(ss, 1, n - 1) \in Seq(Samples)
  <2>1. \A i \in 1..(n - 1) : ss[i] \in Samples
    BY <1>1
  <2> QED
    BY <2>1, SubSeqProperties
<1>5. SubSeq(ss, 1, n) = Append(SubSeq(ss, 1, n - 1), ss[n])
  BY <1>1, <1>3, <1>4, AppendIsConcat
<1> DEFINE prefix == SubSeq(ss, 1, n - 1)
<1> HIDE DEF prefix
<1>6. AddAll(b, Append(prefix, ss[n])) = Add(AddAll(b, prefix), ss[n])
  <2>1. prefix \in Seq(Samples)
    BY <1>4 DEF prefix
  <2> QED
    BY <1>1, <2>1, AddAllStep
<1> QED
  BY <1>5, <1>6 DEF prefix

(* The loop of on_update, for any number of samples: if r is the buffer    *)
(* after each of its calls of BatchBuffer.add, starting with b, then AddAll *)
(* of the first n samples is the buffer after n calls, and no other r       *)
(* follows the loop.                                                       *)
THEOREM AddAllLoop ==
  ASSUME NEW b \in Buffers, Consistent(b), Len(b.items) <= Limit,
         NEW ss \in Seq(Samples), NEW r
  PROVE  (r[0] = b /\ \A n \in 1..Len(ss) : r[n] = Add(r[n - 1], ss[n]))
           <=> \A n \in 0..Len(ss) : r[n] = AddAll(b, SubSeq(ss, 1, n))
<1>1. Len(ss) \in Nat
  BY LenProperties
<1>2. AddAll(b, SubSeq(ss, 1, 0)) = b
  BY SubSeqEmpty DEF AddAll
<1>3. ASSUME r[0] = b, \A n \in 1..Len(ss) : r[n] = Add(r[n - 1], ss[n])
      PROVE  \A n \in 0..Len(ss) : r[n] = AddAll(b, SubSeq(ss, 1, n))
  <2> DEFINE T == {n \in 0..Len(ss) : r[n] # AddAll(b, SubSeq(ss, 1, n))}
  <2>1. SUFFICES ASSUME T # {} PROVE FALSE
    OBVIOUS
  <2>2. PICK k \in T : \A n \in T : k <= n
    <3>1. T \subseteq Nat
      BY <1>1
    <3> QED
      BY <2>1, <3>1, SmallestInSet
  <2>3. k \in 1..Len(ss)
    BY <1>1, <1>2, <1>3
  <2>4. k - 1 \in 0..Len(ss) /\ k - 1 \notin T
    BY <1>1, <2>2, <2>3
  <2>5. r[k - 1] = AddAll(b, SubSeq(ss, 1, k - 1))
    BY <2>4
  <2>6. r[k] = AddAll(b, SubSeq(ss, 1, k))
    BY <1>3, <2>3, <2>5, AddAllPrefix
  <2> QED
    BY <2>2, <2>6
<1>4. ASSUME \A n \in 0..Len(ss) : r[n] = AddAll(b, SubSeq(ss, 1, n))
      PROVE  r[0] = b /\ \A n \in 1..Len(ss) : r[n] = Add(r[n - 1], ss[n])
  <2>1. r[0] = b
    BY <1>1, <1>2, <1>4
  <2>2. ASSUME NEW n \in 1..Len(ss)
        PROVE  r[n] = Add(r[n - 1], ss[n])
    <3>1. n \in 0..Len(ss) /\ n - 1 \in 0..Len(ss)
      BY <1>1
    <3> QED
      BY <1>4, <3>1, AddAllPrefix
  <2> QED
    BY <2>1, <2>2
<1> QED
  BY <1>3, <1>4

(* In particular the buffer after the loop is the one the model's Update   *)
(* leaves.                                                                 *)
LEMMA AddAllIsLoop ==
  ASSUME NEW b \in Buffers, Consistent(b), Len(b.items) <= Limit,
         NEW ss \in Seq(Samples), NEW r,
         r[0] = b, \A n \in 1..Len(ss) : r[n] = Add(r[n - 1], ss[n])
  PROVE  AddAll(b, ss) = r[Len(ss)]
<1>1. Len(ss) \in 0..Len(ss)
  BY LenProperties
<1>2. SubSeq(ss, 1, Len(ss)) = ss
  BY SubSeqFull
<1>3. \A n \in 0..Len(ss) : r[n] = AddAll(b, SubSeq(ss, 1, n))
  BY AddAllLoop
<1>4. r[Len(ss)] = AddAll(b, SubSeq(ss, 1, Len(ss)))
  BY <1>1, <1>3
<1> QED
  BY <1>2, <1>4

-----------------------------------------------------------------------------
(* Types.  AddAll keeps the bound of a buffer only if its oldest time is   *)
(* right, so the two are proved together.                                  *)
TypeInv == TypeOK /\ Consistent(buf)

LEMMA NewSamplesProperties ==
  ASSUME TypeOK, NEW e \in Equipment, NEW n \in Nat
  PROVE  /\ NewSamples(e, n) \in Seq(Samples)
         /\ Len(NewSamples(e, n)) = n
         /\ \A k \in 1..n : NewSamples(e, n)[k].id = Len(log) + k
<1>1. Len(log) \in Nat /\ now \in Nat
  BY LenProperties DEF TypeOK
<1>2. \A k \in 1..n :
        [id |-> Len(log) + k, time |-> now, eq |-> e, metric |-> k] \in Samples
  BY <1>1 DEF Samples
<1>3. NewSamples(e, n) \in [1..n -> Samples]
  BY <1>2, Zenon DEF NewSamples
<1>4. \A k \in 1..n : NewSamples(e, n)[k].id = Len(log) + k
  BY DEF NewSamples
<1> QED
  BY <1>3, <1>4, FunctionIsSeq

LEMMA InsertedInBatch ==
  ASSUME NEW batch \in Seq(Samples)
  PROVE  Inserted(batch) \subseteq Samples
<1>1. \A i \in 1..Len(batch) : batch[i] \in Samples
  BY ElementOfSeq
<1> QED
  BY <1>1 DEF Inserted

(* A sequence of fates as long as the old one, from a rule for each. *)
LEMMA FateIsSeq ==
  ASSUME NEW n \in Nat, NEW f \in [1..n -> Fates]
  PROVE  f \in Seq(Fates) /\ Len(f) = n
BY FunctionIsSeq

LEMMA EmptyBuffer ==
  Empty \in Buffers /\ Consistent(Empty) /\ Empty.items = <<>>
BY DEF Empty, Buffers, Consistent

LEMMA DrainedIsEmpty ==
  ASSUME NEW b \in Buffers
  PROVE  Drained(b) = Empty
BY DEF Drained, Empty

LEMMA TypeInit == Init => TypeInv
<1> SUFFICES ASSUME Init PROVE TypeInv
  OBVIOUS
<1>1. buf \in Buffers /\ Consistent(buf) /\ buf.items = <<>>
  BY EmptyBuffer DEF Init
<1>2. Len(buf.items) <= Limit
  BY <1>1, LimitPositive
<1>3. crashes \in 0..MaxCrashes
  BY WriterAssumption DEF Init
<1> QED
  BY <1>1, <1>2, <1>3 DEF Init, TypeInv, TypeOK, Buffers

LEMMA TypeStep == TypeInv /\ [Next]_vars => TypeInv'
<1> SUFFICES ASSUME TypeInv, [Next]_vars PROVE TypeInv'
  OBVIOUS
<1> USE DEF TypeInv
<1>0. /\ buf \in Buffers
      /\ buf.items \in Seq(Samples)
      /\ log \in Seq(Samples)
      /\ Len(log) \in Nat
      /\ Len(fate) = Len(log)
      /\ fate \in [1..Len(log) -> Fates]
  BY LenProperties DEF TypeOK, Buffers
<1>1. ASSUME NEW e \in Equipment, NEW n \in Metrics, Update(e, n)
      PROVE  TypeInv'
  <2>1. n \in Nat
    BY <1>1, WriterAssumption DEF Metrics
  <2>2. /\ NewSamples(e, n) \in Seq(Samples)
        /\ Len(NewSamples(e, n)) = n
    BY <2>1, NewSamplesProperties
  <2>3. Extends(buf', buf, NewSamples(e, n))
    BY <1>0, <1>1, <2>2, AddAllProperties DEF Update, TypeOK
  <2>4. /\ buf' \in Buffers
        /\ Consistent(buf)'
        /\ Len(buf'.items) <= Limit
    <3>1. /\ Len(buf'.items) = IF Len(buf.items) + Len(NewSamples(e, n)) > Limit
                               THEN Limit
                               ELSE Len(buf.items) + Len(NewSamples(e, n))
          /\ buf' \in Buffers
          /\ Consistent(buf')
      BY <2>3 DEF Extends
    <3>2. Len(buf.items) \in Nat /\ Limit \in Nat
      BY <1>0, LenProperties, LimitPositive
    <3> QED
      BY <2>1, <2>2, <3>1, <3>2 DEF Consistent
  <2>5. log' \in Seq(Samples) /\ Len(log') = Len(log) + n
    <3>1. log' = log \o NewSamples(e, n)
      BY <1>1 DEF Update
    <3> QED
      BY <1>0, <2>2, <3>1, ConcatProperties
  <2>6. fate' \in Seq(Fates) /\ Len(fate') = Len(log) + n
    <3>1. fate' \in [1..(Len(log) + n) -> Fates]
      BY <1>0, <1>1, <2>1 DEF Update, Fates
    <3> QED
      BY <1>0, <2>1, <3>1, FateIsSeq
  <2>7. known' \in [Equipment -> Nat]
    BY <1>1, <2>1 DEF Update, TypeOK
  <2> QED
    BY <1>1, <2>4, <2>5, <2>6, <2>7 DEF Update, TypeOK, Buffers
<1>2. ASSUME Poll PROVE TypeInv'
  <2>1. buf' = Empty /\ inflight' = buf.items
    BY <1>0, <1>2, DrainedIsEmpty DEF Poll
  <2>2. buf' \in Buffers /\ Consistent(buf') /\ buf'.items = <<>>
    BY <1>0, <2>1, EmptyBuffer
  <2>3. Len(buf'.items) <= Limit
    BY <2>2, LimitPositive
  <2> QED
    BY <1>0, <1>2, <2>1, <2>2, <2>3 DEF Poll, TypeOK, Buffers, Consistent
<1>3. ASSUME WriteCommitted PROVE TypeInv'
  <2>1. rows' \subseteq Samples
    BY <1>3, InsertedInBatch DEF WriteCommitted, Commit, TypeOK
  <2>2. fate' \in [1..Len(log) -> Fates]
    BY <1>0, <1>3 DEF WriteCommitted, Commit, Fates
  <2>3. fate' \in Seq(Fates) /\ Len(fate') = Len(log)
    BY <1>0, <2>2, FateIsSeq
  <2>4. inflight' \in Seq(Samples)
    BY <1>3 DEF WriteCommitted
  <2> QED
    BY <1>3, <2>1, <2>3, <2>4 DEF WriteCommitted, TypeOK, Consistent
<1>4. ASSUME WriteFailed PROVE TypeInv'
  <2>1. fate' \in [1..Len(log) -> Fates]
    BY <1>0, <1>4 DEF WriteFailed, Fates
  <2>2. fate' \in Seq(Fates) /\ Len(fate') = Len(log)
    BY <1>0, <2>1, FateIsSeq
  <2>3. inflight' \in Seq(Samples)
    BY <1>4 DEF WriteFailed
  <2> QED
    BY <1>4, <2>2, <2>3 DEF WriteFailed, TypeOK, Consistent
<1>5. ASSUME Crash PROVE TypeInv'
  <2>1. PICK committed \in BOOLEAN :
          LET saved == IF committed THEN Inserted(inflight) ELSE {}
          IN  /\ rows' = rows \cup saved
              /\ fate' = [i \in 1..Len(fate) |->
                            IF log[i] \in saved THEN "stored"
                            ELSE IF fate[i] # "pending" THEN fate[i]
                            ELSE IF committed /\ i \in Ids(inflight)
                                 THEN "conflict" ELSE "crashed"]
    BY <1>5 DEF Crash
  <2>2. rows' \subseteq Samples
    BY <2>1, InsertedInBatch DEF TypeOK
  <2>3. fate' \in [1..Len(log) -> Fates]
    BY <1>0, <2>1 DEF Fates
  <2>4. fate' \in Seq(Fates) /\ Len(fate') = Len(log)
    BY <1>0, <2>3, FateIsSeq
  <2>5. buf' \in Buffers /\ Consistent(buf') /\ Len(buf'.items) <= Limit
    BY <1>0, <1>5, EmptyBuffer, LimitPositive DEF Crash
  <2>6. crashes' \in 0..MaxCrashes
    BY <1>5, WriterAssumption DEF Crash, TypeOK
  <2>7. known' \in [Equipment -> Nat] /\ inflight' \in Seq(Samples)
    BY <1>5 DEF Crash
  <2> QED
    BY <1>5, <2>2, <2>4, <2>5, <2>6, <2>7 DEF Crash, TypeOK, Buffers, Consistent
<1>6. ASSUME Tick PROVE TypeInv'
  BY <1>6 DEF Tick, TypeOK, Consistent
<1>7. ASSUME UNCHANGED vars PROVE TypeInv'
  BY <1>7 DEF vars, TypeOK, Consistent
<1> QED
  BY <1>1, <1>2, <1>3, <1>4, <1>5, <1>6, <1>7 DEF Next, Idle

(* Every variable keeps its type and the buffer never outgrows the         *)
(* overflow limit, whatever the limit, the sizes and the failures.         *)
THEOREM TypeCorrect == Spec => []TypeOK
<1>1. Spec => []TypeInv
  BY TypeInit, TypeStep, PTL DEF Spec
<1>2. TypeInv => TypeOK
  BY DEF TypeInv
<1> QED
  BY <1>1, <1>2, PTL

(* The age test of should_flush always looks at the time of the leftmost   *)
(* sample.                                                                 *)
THEOREM OldestCorrect == Spec => []OldestMatchesHead
<1>1. Spec => []TypeInv
  BY TypeInit, TypeStep, PTL DEF Spec
<1>2. TypeInv => OldestMatchesHead
  BY DEF TypeInv, Consistent, OldestMatchesHead
<1> QED
  BY <1>1, <1>2, PTL

-----------------------------------------------------------------------------
(* Accounting.  Samples are numbered as they are taken; those numbered     *)
(* above Behind are in the buffer.  An update moves Behind up when the     *)
(* buffer overflows, Poll moves it to the end and hands the numbers it     *)
(* passes over to the batch.                                               *)
Behind == Len(log) - Len(buf.items)

Numbered == \A i \in 1..Len(log) : log[i].id = i

BatchIsOlder == Ids(inflight) \subseteq 1..Behind

PendingAreHeld ==
  \A k \in 1..Len(fate) :
    fate[k] = "pending" <=> k \in Ids(inflight) \/ k > Behind

AccountInv ==
  /\ Numbered
  /\ Behind >= 0
  /\ BufferIsNewest
  /\ BatchIsOlder
  /\ PendingAreHeld

LEMMA AccountInit == Init => AccountInv
<1> SUFFICES ASSUME Init PROVE AccountInv
  OBVIOUS
<1>1. log = <<>> /\ fate = <<>> /\ inflight = <<>> /\ buf.items = <<>>
  BY EmptyBuffer DEF Init
<1>2. Len(log) = 0 /\ Len(fate) = 0 /\ Len(inflight) = 0 /\ Len(buf.items) = 0
  BY <1>1
<1>3. Ids(inflight) = {} /\ Behind = 0
  BY <1>2 DEF Ids, Behind
<1> QED
  BY <1>2, <1>3 DEF AccountInv, Numbered, BufferIsNewest, BatchIsOlder,
                    PendingAreHeld

(* The samples of the buffer are those numbered above Behind. *)
LEMMA BufferIds ==
  ASSUME TypeInv, AccountInv
  PROVE  Ids(buf.items) = {k \in 1..Len(log) : k > Behind}
<1>1. Len(log) \in Nat /\ Len(buf.items) \in Nat /\ Behind \in Nat
  BY LenProperties DEF TypeInv, TypeOK, AccountInv, Behind
<1>2. ASSUME NEW i \in 1..Len(buf.items)
      PROVE  buf.items[i].id = Behind + i /\ Behind + i \in 1..Len(log)
  <2>1. Behind + i \in 1..Len(log)
    BY <1>1 DEF Behind
  <2>2. buf.items[i] = log[Behind + i]
    BY DEF AccountInv, BufferIsNewest, Behind
  <2> QED
    BY <2>1, <2>2 DEF AccountInv, Numbered
<1>3. ASSUME NEW k \in 1..Len(log), k > Behind
      PROVE  k - Behind \in 1..Len(buf.items) /\ Behind + (k - Behind) = k
  <2>1. Len(log) - Behind = Len(buf.items)
    BY <1>1 DEF Behind
  <2> QED
    BY <1>1, <1>3, <2>1
<1>4. Ids(buf.items) \subseteq {k \in 1..Len(log) : k > Behind}
  BY <1>1, <1>2 DEF Ids
<1>5. ASSUME NEW k \in 1..Len(log), k > Behind PROVE k \in Ids(buf.items)
  <2>1. buf.items[k - Behind].id = k
    BY <1>2, <1>3, <1>5
  <2> QED
    BY <1>3, <1>5, <2>1 DEF Ids
<1> QED
  BY <1>4, <1>5

LEMMA AccountStep == TypeInv /\ AccountInv /\ [Next]_vars => AccountInv'
<1> SUFFICES ASSUME TypeInv, AccountInv, [Next]_vars PROVE AccountInv'
  OBVIOUS
<1>0. /\ log \in Seq(Samples) /\ buf.items \in Seq(Samples) /\ buf \in Buffers
      /\ inflight \in Seq(Samples)
      /\ Len(log) \in Nat /\ Len(buf.items) \in Nat /\ Behind \in Nat
      /\ Len(fate) = Len(log)
  BY LenProperties DEF TypeInv, TypeOK, Buffers, AccountInv, Behind
<1>1. ASSUME NEW e \in Equipment, NEW n \in Metrics, Update(e, n)
      PROVE  AccountInv'
  <2> DEFINE new == NewSamples(e, n)
             p   == Len(buf.items)
             q   == Len(buf'.items)
             g   == Len(log)
  <2> HIDE DEF new, p, q, g
  <2>1. n \in Nat
    BY WriterAssumption DEF Metrics
  <2>2. new \in Seq(Samples) /\ Len(new) = n /\ \A k \in 1..n : new[k].id = g + k
    BY <2>1, NewSamplesProperties DEF new, g, TypeInv
  <2>3. Extends(buf', buf, new)
    BY <1>0, <1>1, <2>2, AddAllProperties DEF Update, TypeInv, TypeOK, new
  <2>4. /\ q = IF p + n > Limit THEN Limit ELSE p + n
        /\ \A i \in 1..q : buf'.items[i] = (buf.items \o new)[(p + n) - q + i]
    BY <2>2, <2>3 DEF Extends, p, q
  <2>5. p \in Nat /\ g \in Nat /\ q \in Nat /\ p <= g /\ q <= p + n
    BY <1>0, <2>1, <2>4, LimitPositive DEF p, g, Behind
  <2>6. /\ log' = log \o new
        /\ Len(log') = g + n
        /\ \A i \in 1..(g + n) : log'[i] = IF i <= g THEN log[i] ELSE new[i - g]
    <3>1. log' = log \o new
      BY <1>1 DEF Update, new
    <3> QED
      BY <1>0, <2>2, <3>1, ConcatProperties DEF g
  <2>7. Behind' = (g + n) - q /\ Behind = g - p
    BY <2>6 DEF Behind, p, q, g
  <2>8. Numbered'
    <3>1. ASSUME NEW i \in 1..(g + n) PROVE log'[i].id = i
      <4>1. CASE i <= g
        BY <2>5, <2>6, <4>1 DEF AccountInv, Numbered, g
      <4>2. CASE ~(i <= g)
        <5>1. i - g \in 1..n /\ g + (i - g) = i
          BY <2>1, <2>5, <4>2
        <5> QED
          BY <2>2, <2>6, <4>2, <5>1
      <4> QED
        BY <4>1, <4>2
    <3> QED
      BY <2>6, <3>1 DEF Numbered
  <2>9. BufferIsNewest'
    <3>1. ASSUME NEW i \in 1..q
          PROVE  buf'.items[i] = log'[(g + n) - q + i]
      <4> DEFINE j == (p + n) - q + i
                 k == (g + n) - q + i
      <4>1. j \in 1..(p + n) /\ k \in 1..(g + n) /\ k = (g - p) + j
        BY <2>1, <2>5
      <4> HIDE DEF j, k
      <4>2. buf'.items[i] = IF j <= p THEN buf.items[j] ELSE new[j - p]
        <5>1. (buf.items \o new)[j] = IF j <= p THEN buf.items[j] ELSE new[j - p]
          BY <1>0, <2>2, <4>1, ConcatProperties DEF p
        <5> QED
          BY <2>4, <5>1 DEF j
      <4>3. CASE j <= p
        <5>1. j \in 1..p /\ k <= g
          BY <2>5, <4>1, <4>3
        <5>2. buf.items[j] = log[(g - p) + j]
          BY <5>1 DEF AccountInv, BufferIsNewest, g, p
        <5> QED
          BY <2>6, <4>1, <4>2, <4>3, <5>1, <5>2 DEF k
      <4>4. CASE ~(j <= p)
        <5>1. ~(k <= g) /\ k - g = j - p
          BY <2>5, <4>1, <4>4
        <5> QED
          BY <2>6, <4>1, <4>2, <4>4, <5>1 DEF k
      <4> QED
        BY <4>3, <4>4
    <3> QED
      BY <2>6, <3>1 DEF BufferIsNewest, q
  <2>10. Ids(inflight)' = Ids(inflight) /\ Ids(inflight) \subseteq 1..(g - p)
    BY <1>1, <2>7 DEF Update, Ids, AccountInv, BatchIsOlder
  <2>11. BatchIsOlder'
    <3>1. 1..(g - p) \subseteq 1..((g + n) - q)
      BY <2>1, <2>5
    <3> QED
      BY <2>7, <2>10, <3>1 DEF BatchIsOlder
  <2>12. PendingAreHeld'
    <3>1. fate' = [i \in 1..(g + n) |->
                     IF i \in ((g - p) + 1)..((g - p) + ((p + n) - q))
                     THEN "overflow"
                     ELSE IF i <= g THEN fate[i] ELSE "pending"]
      <4>1. Len(fate) = g
        BY <1>0 DEF g
      <4> QED
        BY <1>1, <4>1 DEF Update, g, p, q
    <3>2. Len(fate') = g + n
      BY <1>0, <1>1, <2>6, TypeStep DEF TypeInv, TypeOK
    <3>3. ASSUME NEW k \in 1..(g + n)
          PROVE  fate'[k] = "pending" <=>
                   k \in Ids(inflight) \/ k > (g + n) - q
      <4>1. k \in ((g - p) + 1)..((g - p) + ((p + n) - q))
              <=> k > g - p /\ k <= (g + n) - q
        BY <2>1, <2>5
      <4>2. CASE k > g - p /\ k <= (g + n) - q
        <5>1. k \notin Ids(inflight) /\ ~(k > (g + n) - q)
          BY <2>1, <2>5, <2>10, <4>2
        <5>2. fate'[k] = "overflow"
          BY <3>1, <4>1, <4>2
        <5> QED
          BY <5>1, <5>2
      <4>3. CASE k <= g - p
        <5>1. k <= g /\ ~(k > (g + n) - q) /\ ~(k > g - p) /\ k \in 1..g
          BY <2>1, <2>5, <4>3
        <5>2. fate'[k] = fate[k]
          BY <3>1, <4>1, <5>1
        <5>3. fate[k] = "pending" <=> k \in Ids(inflight)
          BY <1>0, <2>7, <5>1 DEF AccountInv, PendingAreHeld, g
        <5> QED
          BY <5>1, <5>2, <5>3
      <4>4. CASE k > (g + n) - q
        <5>1. k > g - p /\ ~(k <= (g + n) - q)
          BY <2>1, <2>5, <4>4
        <5>2. fate'[k] = IF k <= g THEN fate[k] ELSE "pending"
          BY <3>1, <4>1, <5>1
        <5>3. k <= g => fate[k] = "pending"
          BY <1>0, <2>5, <2>7, <5>1 DEF AccountInv, PendingAreHeld, g
        <5> QED
          BY <4>4, <5>2, <5>3
      <4> QED
        BY <2>1, <2>5, <4>2, <4>3, <4>4
    <3> QED
      BY <2>7, <2>10, <3>2, <3>3 DEF PendingAreHeld
  <2>13. Behind' >= 0
    BY <2>1, <2>5, <2>7
  <2> QED
    BY <2>8, <2>9, <2>11, <2>12, <2>13 DEF AccountInv
<1>2. ASSUME Poll PROVE AccountInv'
  <2>1. /\ inflight' = buf.items /\ inflight = <<>>
        /\ buf'.items = <<>> /\ log' = log /\ fate' = fate
    BY <1>0, <1>2, DrainedIsEmpty, EmptyBuffer DEF Poll
  <2>2. Len(buf'.items) = 0 /\ Len(inflight) = 0
    BY <2>1
  <2>3. Behind' = Len(log) /\ Ids(inflight) = {}
    BY <1>0, <2>1, <2>2 DEF Behind, Ids
  <2>4. Ids(inflight)' = {k \in 1..Len(log) : k > Behind}
    BY <2>1, BufferIds DEF Ids
  <2>5. Numbered' /\ BufferIsNewest'
    BY <2>1, <2>2 DEF AccountInv, Numbered, BufferIsNewest
  <2>6. BatchIsOlder'
    BY <2>3, <2>4 DEF BatchIsOlder
  <2>7. PendingAreHeld'
    <3>1. \A k \in 1..Len(fate) : fate[k] = "pending" <=> k > Behind
      BY <2>3 DEF AccountInv, PendingAreHeld
    <3>2. \A k \in 1..Len(log) : ~(k > Len(log))
      BY <1>0
    <3> QED
      BY <1>0, <2>1, <2>3, <2>4, <3>1, <3>2 DEF PendingAreHeld
  <2> QED
    BY <1>0, <2>3, <2>5, <2>6, <2>7 DEF AccountInv
<1>3. ASSUME buf' = buf, log' = log, inflight' = <<>>,
             Len(fate') = Len(fate),
             \A k \in 1..Len(fate) :
               fate'[k] = "pending" <=> fate[k] = "pending" /\ k \notin Ids(inflight)
      PROVE  AccountInv'
  <2>1. Len(inflight') = 0 /\ Behind' = Behind
    BY <1>3 DEF Behind
  <2>2. Ids(inflight)' = {}
    BY <2>1 DEF Ids
  <2>3. \A k \in 1..Len(fate) : k \in Ids(inflight) => ~(k > Behind)
    BY <1>0 DEF AccountInv, BatchIsOlder
  <2>4. PendingAreHeld'
    BY <1>3, <2>1, <2>2, <2>3 DEF AccountInv, PendingAreHeld
  <2> QED
    BY <1>3, <2>1, <2>2, <2>4 DEF AccountInv, Numbered, BufferIsNewest,
                                  BatchIsOlder
<1>4. ASSUME WriteCommitted PROVE AccountInv'
  <2>1. fate' = [i \in 1..Len(fate) |->
                   IF i \notin Ids(inflight) THEN fate[i]
                   ELSE IF log[i] \in Inserted(inflight) THEN "stored"
                   ELSE "conflict"]
    BY <1>4 DEF WriteCommitted, Commit
  <2>2. \A k \in 1..Len(fate) :
          fate'[k] = "pending" <=> fate[k] = "pending" /\ k \notin Ids(inflight)
    BY <2>1
  <2>3. buf' = buf /\ log' = log /\ inflight' = <<>>
    BY <1>4 DEF WriteCommitted
  <2>4. Len(fate') = Len(fate)
    BY <1>0, <2>3, TypeStep DEF TypeInv, TypeOK
  <2> QED
    BY <1>3, <2>2, <2>3, <2>4
<1>5. ASSUME WriteFailed PROVE AccountInv'
  <2>1. fate' = [i \in 1..Len(fate) |->
                   IF i \in Ids(inflight) THEN "failed" ELSE fate[i]]
    BY <1>5 DEF WriteFailed
  <2>2. \A k \in 1..Len(fate) :
          fate'[k] = "pending" <=> fate[k] = "pending" /\ k \notin Ids(inflight)
    BY <2>1
  <2>3. buf' = buf /\ log' = log /\ inflight' = <<>>
    BY <1>5 DEF WriteFailed
  <2>4. Len(fate') = Len(fate)
    BY <1>0, <2>3, TypeStep DEF TypeInv, TypeOK
  <2> QED
    BY <1>3, <2>2, <2>3, <2>4
<1>6. ASSUME Crash PROVE AccountInv'
  <2>1. PICK committed \in BOOLEAN :
          LET saved == IF committed THEN Inserted(inflight) ELSE {}
          IN  fate' = [i \in 1..Len(fate) |->
                         IF log[i] \in saved THEN "stored"
                         ELSE IF fate[i] # "pending" THEN fate[i]
                         ELSE IF committed /\ i \in Ids(inflight)
                              THEN "conflict" ELSE "crashed"]
    BY <1>6 DEF Crash
  <2>2. \A k \in 1..Len(fate) : fate'[k] # "pending"
    BY <2>1
  <2>3. log' = log /\ inflight' = <<>> /\ buf'.items = <<>>
    BY <1>6, EmptyBuffer DEF Crash
  <2>4. Len(fate') = Len(log)
    BY <1>0, <2>3, TypeStep DEF TypeInv, TypeOK
  <2>5. Len(inflight') = 0 /\ Len(buf'.items) = 0 /\ Behind' = Len(log)
    BY <1>0, <2>3 DEF Behind
  <2>6. Ids(inflight)' = {}
    BY <2>5 DEF Ids
  <2>7. \A k \in 1..Len(log) : ~(k > Len(log))
    BY <1>0
  <2> QED
    BY <1>0, <2>2, <2>3, <2>4, <2>5, <2>6, <2>7
    DEF AccountInv, Numbered, BufferIsNewest, BatchIsOlder, PendingAreHeld
<1>7. ASSUME UNCHANGED <<buf, log, fate, inflight>> PROVE AccountInv'
  BY <1>7 DEF AccountInv, Numbered, BufferIsNewest, BatchIsOlder,
              PendingAreHeld, Behind, Ids
<1> QED
  BY <1>1, <1>2, <1>4, <1>5, <1>6, <1>7 DEF Next, Idle, Tick, vars

LEMMA AccountCorrect == Spec => [](TypeInv /\ AccountInv)
<1>1. Init => TypeInv /\ AccountInv
  BY TypeInit, AccountInit
<1>2. TypeInv /\ AccountInv /\ [Next]_vars => (TypeInv /\ AccountInv)'
  BY TypeStep, AccountStep
<1> QED
  BY <1>1, <1>2, PTL DEF Spec

(* The buffer always holds the newest samples taken, without a gap. *)
THEOREM NewestCorrect == Spec => []BufferIsNewest
<1>1. AccountInv => BufferIsNewest
  BY DEF AccountInv
<1> QED
  BY <1>1, AccountCorrect, PTL

(* No sample disappears without a reason: what is pending is exactly what  *)
(* the batch under way and the buffer hold, each sample in one of them.    *)
THEOREM AccountedCorrect == Spec => []Accounted
<1>1. TypeInv /\ AccountInv => Accounted
  <2> SUFFICES ASSUME TypeInv, AccountInv PROVE Accounted
    OBVIOUS
  <2>1. /\ Len(log) \in Nat /\ Len(fate) = Len(log) /\ Behind \in Nat
        /\ Len(buf.items) \in Nat
    BY LenProperties DEF TypeInv, TypeOK, AccountInv, Behind
  <2>2. Ids(buf.items) = {k \in 1..Len(log) : k > Behind}
    BY BufferIds
  <2>3. Ids(inflight) \subseteq 1..Behind /\ 1..Behind \subseteq 1..Len(log)
    BY <2>1 DEF AccountInv, BatchIsOlder, Behind
  <2>4. {i \in 1..Len(fate) : fate[i] = "pending"}
          = Ids(inflight) \cup Ids(buf.items)
    BY <2>1, <2>2, <2>3 DEF AccountInv, PendingAreHeld
  <2>5. \A i \in Ids(inflight), j \in Ids(buf.items) : i < j
    BY <2>1, <2>2, <2>3
  <2> QED
    BY <2>4, <2>5 DEF Accounted
<1> QED
  BY <1>1, AccountCorrect, PTL
=============================================================================
