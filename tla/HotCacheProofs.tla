--------------------------- MODULE HotCacheProofs ---------------------------
(***************************************************************************)
(* What holds of the hot cache for every TTL and every number of updates,  *)
(* units, repeated commands and restarts, in every order of the tasks.     *)
(***************************************************************************)
EXTENDS HotCache, SequenceTheorems, TLAPS

Snapshots == [unit : 0..MaxUnits, started : 1..MaxUpdates]

(* The lengths are bounded by MaxUpdates, which Update guards, and the     *)
(* first process began before any update.                                  *)
TypeInv == TypeOK /\ Len(snapshots) <= MaxUpdates /\ 0 \in begins

(* Every snapshot without an open task in a run without overlap but the    *)
(* last one: whoever stores is the newest.                                 *)
OneAtATime ==
  /\ ~overlap => \A v \in Updates : v < Len(snapshots) => cache[v] \notin Open
  /\ FreshIfSerial

(* StartIn is RunStart of a given history.                                 *)
(* Every snapshot carries the start of its run, and last_unit, once set,   *)
(* is the unit and the start of the newest snapshot; it is not set exactly *)
(* when no update came since ingest started.                               *)
StartIn(snaps, firsts, at, v) ==
  /\ at \in 1..v
  /\ \A w \in at..v : snaps[w].unit = snaps[v].unit
  /\ \A n \in firsts : n < at \/ v <= n
  /\ at - 1 \in firsts \/ snaps[at - 1].unit # snaps[v].unit

StartsRight ==
  \A v \in Updates : StartIn(snapshots, begins, snapshots[v].started, v)

LastUnitRight ==
  /\ lastUnit.at = 0 <=> Len(snapshots) \in begins
  /\ lastUnit.at # 0 => /\ lastUnit.unit = snapshots[Len(snapshots)].unit
                        /\ lastUnit.at = snapshots[Len(snapshots)].started

KeyRight ==
  key.present =>
    /\ key.updated \in Updates
    /\ key.started = snapshots[key.updated].started
    /\ snapshots[key.updated].unit # NoUnit
         => key.unit = snapshots[key.updated].unit

UnitInv == StartsRight /\ LastUnitRight /\ KeyRight

CacheInv == TypeInv /\ TtlExplained /\ OneAtATime /\ UnitInv

LEMMA CacheInit == Init => CacheInv
<1> SUFFICES ASSUME Init PROVE CacheInv
  OBVIOUS
<1>1. Len(snapshots) = 0 /\ Len(cache) = 0 /\ Updates = {}
  BY DEF Init, Updates
<1>2. TypeInv
  <2>1. /\ 0 \in 0..MaxUnits /\ 0 \in 0..MaxUpdates /\ 0 \in 0..MaxResends
        /\ 0 \in 0..MaxCrashes /\ 0 <= MaxUpdates
    BY HotCacheAssumption
  <2>2. snapshots \in Seq(Snapshots) /\ cache \in Seq(Phases)
    BY DEF Init
  <2>3. key \in [present : BOOLEAN, updated : 0..MaxUpdates,
                 unit : 0..MaxUnits, started : 0..MaxUpdates,
                 ttl : 1..TTL \cup {NoTtl}]
    BY <2>1 DEF Init, NoKey, NoUnit
  <2>4. begins = {0} /\ begins \subseteq 0..Len(snapshots)
    BY <1>1 DEF Init
  <2> QED
    BY <1>1, <2>1, <2>2, <2>3, <2>4
    DEF Init, TypeInv, TypeOK, NoUnit, Snapshots
<1>3. ~key.present
  BY DEF Init, NoKey
<1>4. lastUnit.at = 0 /\ begins = {0}
  BY DEF Init
<1> QED
  BY <1>1, <1>2, <1>3, <1>4
  DEF CacheInv, TtlExplained, OneAtATime, FreshIfSerial, UnitInv, StartsRight,
      LastUnitRight, KeyRight

-----------------------------------------------------------------------------
(* An update adds a snapshot and a queued task. *)
LEMMA UpdateKeeps ==
  ASSUME CacheInv, NEW u \in 0..MaxUnits, Update(u)
  PROVE  CacheInv'
<1> DEFINE n == Len(snapshots)
           v == n + 1
           entry == UnitEntry(u, v)
           s == [unit |-> u, started |-> entry.at]
<1>1. /\ n < MaxUpdates
      /\ lastUnit' = entry
      /\ snapshots' = Append(snapshots, s)
      /\ cache' = Append(cache, "queued")
      /\ overlap' = (overlap \/ ~Quiet)
      /\ UNCHANGED <<key, resends, crashes, hsets, begins>>
  BY DEF Update, Queued
<1>2. /\ n \in Nat /\ MaxUpdates \in Nat /\ MaxUnits \in Nat
      /\ snapshots \in Seq(Snapshots)
      /\ cache \in Seq(Phases) /\ Len(cache) = n
      /\ begins \subseteq 0..n
      /\ lastUnit \in [unit : 0..MaxUnits, at : 0..MaxUpdates]
      /\ Updates = 1..n
  BY HotCacheAssumption, LenProperties
  DEF CacheInv, TypeInv, TypeOK, Snapshots, Updates
<1>3. v \in 1..MaxUpdates
  BY <1>1, <1>2
<1>4. /\ entry \in [unit : 0..MaxUnits, at : 1..MaxUpdates]
      /\ entry.unit = u
      /\ \/ lastUnit.at # 0 /\ lastUnit.unit = u /\ entry = lastUnit
         \/ (lastUnit.at = 0 \/ lastUnit.unit # u) /\ entry.at = v
  BY <1>2, <1>3 DEF UnitEntry
<1> HIDE DEF entry
<1>5. s \in Snapshots /\ s.unit = u /\ s.started = entry.at
  BY <1>4 DEF Snapshots
<1> HIDE DEF s
<1>6. /\ snapshots' \in Seq(Snapshots)
      /\ Len(snapshots') = v
      /\ snapshots'[v] = s
      /\ \A w \in 1..n : snapshots'[w] = snapshots[w]
  BY <1>1, <1>2, <1>5, AppendProperties
<1>7. /\ cache' \in Seq(Phases)
      /\ Len(cache') = v
      /\ cache'[v] = "queued"
      /\ \A w \in 1..n : cache'[w] = cache[w]
  <2>1. "queued" \in Phases
    BY DEF Phases, Open
  <2> QED
    BY <1>1, <1>2, <2>1, AppendProperties
<1>8. /\ Updates' = 1..v
      /\ \A w \in Updates' : w = v \/ w \in Updates
      /\ \A w \in Updates : w \in Updates' /\ w < v
      /\ v \in Updates'
  BY <1>2, <1>6 DEF Updates
<1>9. hsets \subseteq Updates
  BY DEF CacheInv, TypeInv, TypeOK
<1> HIDE DEF n, v
<1>10. TypeInv'
  <2>1. /\ overlap' \in BOOLEAN /\ begins' \subseteq 0..Len(snapshots')
        /\ lastUnit' \in [unit : 0..MaxUnits, at : 0..MaxUpdates]
        /\ Len(snapshots') <= MaxUpdates
    <3>1. 0..n \subseteq 0..v
      BY <1>2 DEF v
    <3>2. begins' \subseteq 0..Len(snapshots')
      BY <1>1, <1>2, <1>6, <3>1
    <3> QED
      BY <1>1, <1>2, <1>3, <1>4, <1>6, <3>2 DEF CacheInv, TypeInv, TypeOK
  <2>2. hsets' \subseteq Updates'
    BY <1>1, <1>8, <1>9
  <2> QED
    BY <1>1, <1>6, <1>7, <2>1, <2>2 DEF CacheInv, TypeInv, TypeOK, Snapshots
<1>11. TtlExplained'
  BY <1>1, <1>2, <1>7, <1>9 DEF CacheInv, TtlExplained
<1>12. OneAtATime'
  <2>1. ASSUME ~overlap', NEW w \in Updates', w < Len(snapshots')
        PROVE  cache'[w] \notin Open
    <3>1. w # v
      BY <1>3, <1>6, <2>1
    <3>2. w \in Updates
      BY <1>8, <3>1
    <3>3. Quiet
      BY <1>1, <2>1
    <3>4. cache[w] \notin Open
      BY <3>2, <3>3 DEF Quiet
    <3> QED
      BY <1>2, <1>7, <3>2, <3>4
  <2>2. FreshIfSerial'
    BY <1>1 DEF CacheInv, OneAtATime, FreshIfSerial
  <2> QED
    BY <2>1, <2>2 DEF OneAtATime
<1>13. \A w \in Updates : snapshots'[w] = snapshots[w]
  BY <1>2, <1>6
<1>14. snapshots'[v].unit = u /\ snapshots'[v].started = entry.at
  BY <1>5, <1>6
(* A snapshot's run ends with it: later ones do not change where it began. *)
<1>15. ASSUME NEW w \in Updates
       PROVE  /\ snapshots'[w] = snapshots[w]
              /\ StartIn(snapshots', begins', snapshots'[w].started, w)
  <2> DEFINE at == snapshots[w].started
  <2>1. snapshots'[w] = snapshots[w]
    BY <1>13
  <2>2. StartIn(snapshots, begins, at, w)
    BY DEF CacheInv, UnitInv, StartsRight
  <2>3. w \in 1..n /\ n \in Nat
    BY <1>2
  <2>4. /\ at \in 1..w
        /\ \A x \in at..w : snapshots[x].unit = snapshots[w].unit
        /\ \A m \in begins : m < at \/ w <= m
        /\ at - 1 \in begins \/ snapshots[at - 1].unit # snapshots[w].unit
    BY <2>2 DEF StartIn
  <2> HIDE DEF at
  <2>5. \A x \in at..w : snapshots'[x] = snapshots[x]
    BY <1>13, <1>2, <2>3, <2>4
  <2>6. at - 1 \in begins \/ snapshots'[at - 1].unit # snapshots[w].unit
    <3>1. CASE at = 1
      <4>1. 0 \in begins
        BY DEF CacheInv, TypeInv
      <4> QED
        BY <3>1, <4>1
    <3>2. CASE at # 1
      <4>1. at - 1 \in 1..n
        BY <2>3, <2>4, <3>2
      <4> QED
        BY <1>2, <1>13, <2>4, <4>1
    <3> QED
      BY <3>1, <3>2
  <2>7. StartIn(snapshots', begins', at, w)
    BY <1>1, <2>1, <2>3, <2>4, <2>5, <2>6 DEF StartIn
  <2> QED
    BY <2>1, <2>7 DEF at
(* u goes on with the run of the newest snapshot or begins a new one. *)
<1>16. /\ entry.at \in 1..v
       /\ \A w \in entry.at..v : snapshots'[w].unit = u
       /\ \A m \in begins : m < entry.at \/ v <= m
       /\ entry.at - 1 \in begins \/ snapshots'[entry.at - 1].unit # u
  <2>0. v = n + 1
    BY DEF v
  <2>1. CASE lastUnit.at # 0 /\ lastUnit.unit = u /\ entry = lastUnit
    <3>1. /\ n \notin begins
          /\ u = snapshots[n].unit /\ entry.at = snapshots[n].started
      BY <2>1 DEF CacheInv, UnitInv, LastUnitRight, n
    <3>2. n # 0
      BY <3>1 DEF CacheInv, TypeInv
    <3>3. n \in Updates
      BY <1>2, <3>2
    <3>4. /\ StartIn(snapshots', begins', entry.at, n)
          /\ snapshots'[n] = snapshots[n]
      BY <1>15, <3>1, <3>3
    <3>5. /\ entry.at \in 1..n
          /\ \A w \in entry.at..n : snapshots'[w].unit = u
          /\ \A m \in begins : m < entry.at \/ n <= m
          /\ entry.at - 1 \in begins \/ snapshots'[entry.at - 1].unit # u
      BY <1>1, <3>1, <3>4 DEF StartIn
    <3>6. \A w \in entry.at..v : w = v \/ w \in entry.at..n
      BY <1>2, <2>0, <3>5
    <3>7. \A w \in entry.at..v : snapshots'[w].unit = u
      BY <1>14, <3>5, <3>6
    <3>8. \A m \in begins : m < entry.at \/ v <= m
      BY <1>2, <2>0, <3>1, <3>5
    <3>9. entry.at \in 1..v
      BY <1>2, <2>0, <3>5
    <3> QED
      BY <3>5, <3>7, <3>8, <3>9
  <2>2. CASE (lastUnit.at = 0 \/ lastUnit.unit # u) /\ entry.at = v
    <3>1. v \in 1..v /\ v..v = {v} /\ v - 1 = n
      BY <1>2, <2>0
    <3>2. \A m \in begins : m < v
      BY <1>2, <2>0
    <3>3. n \in begins \/ snapshots'[n].unit # u
      <4>1. CASE n \in begins
        BY <4>1
      <4>2. CASE n \notin begins
        <5>1. n # 0
          BY <4>2 DEF CacheInv, TypeInv
        <5>2. n \in Updates
          BY <1>2, <5>1
        <5>3. lastUnit.at # 0 /\ lastUnit.unit = snapshots[n].unit
          BY <4>2 DEF CacheInv, UnitInv, LastUnitRight, n
        <5> QED
          BY <1>13, <2>2, <5>2, <5>3
      <4> QED
        BY <4>1, <4>2
    <3> QED
      BY <1>14, <2>2, <3>1, <3>2, <3>3
  <2> QED
    BY <1>4, <2>1, <2>2
<1>17. StartIn(snapshots', begins', snapshots'[v].started, v)
  BY <1>1, <1>14, <1>16 DEF StartIn
<1>18. StartsRight'
  <2> SUFFICES ASSUME NEW w \in Updates'
               PROVE  StartIn(snapshots', begins', snapshots'[w].started, w)
    BY DEF StartsRight
  <2>1. CASE w = v
    BY <1>17, <2>1
  <2>2. CASE w \in Updates
    BY <1>15, <2>2
  <2> QED
    BY <1>8, <2>1, <2>2
<1>19. LastUnitRight'
  <2>1. lastUnit'.at # 0 /\ lastUnit'.at = entry.at /\ lastUnit'.unit = u
    BY <1>1, <1>4
  <2>2. v \notin begins'
    <3>1. v = n + 1
      BY DEF v
    <3> QED
      BY <1>1, <1>2, <3>1
  <2> QED
    BY <1>6, <1>14, <2>1, <2>2 DEF LastUnitRight
<1>20. KeyRight'
  BY <1>1, <1>8, <1>13 DEF CacheInv, UnitInv, KeyRight
<1> QED
  BY <1>10, <1>11, <1>12, <1>18, <1>19, <1>20 DEF CacheInv, UnitInv

(* A command changes one open task, the hash and what was stored. *)
LEMMA CommandKeeps ==
  ASSUME CacheInv, NEW v \in Updates, Command(v)
  PROVE  CacheInv'
<1> PICK reached \in BOOLEAN, answered \in BOOLEAN :
           Hset(v, reached, answered) \/ Expire(v, reached, answered)
  BY DEF Command
<1> DEFINE Next1 == IF cache[v] = "queued" THEN "expiring" ELSE "done"
<1>1. /\ cache[v] \in Open
      /\ answered => reached
      /\ Goes(v, answered, Next1)
      /\ \/ /\ cache[v] = "queued"
            /\ key' = IF reached THEN Stored(v) ELSE key
            /\ hsets' = IF reached THEN hsets \cup {v} ELSE hsets
         \/ /\ cache[v] = "expiring"
            /\ key' = IF reached THEN WithTtl ELSE key
            /\ hsets' = hsets
  <2>1. CASE Hset(v, reached, answered)
    BY <2>1 DEF Hset, HsetThen, Open
  <2>2. CASE Expire(v, reached, answered)
    BY <2>2 DEF Expire, Open
  <2> QED
    BY <2>1, <2>2
<1>2. /\ UNCHANGED <<snapshots, lastUnit, crashes, overlap, begins>>
      /\ \/ /\ cache' = [cache EXCEPT ![v] = IF answered THEN Next1
                                             ELSE "failed"]
            /\ resends' = resends
         \/ /\ ~answered
            /\ resends < MaxResends
            /\ resends' = resends + 1
            /\ cache' = cache
  BY <1>1 DEF Goes
<1>3. Next1 \in {"expiring", "done"} /\ Next1 \in Phases
  BY DEF Phases, Open
<1>4. Updates' = Updates /\ Updates = 1..Len(snapshots)
  BY <1>2 DEF Updates
<1>5. /\ snapshots \in Seq(Snapshots)
      /\ cache \in Seq(Phases)
      /\ Len(cache) = Len(snapshots)
      /\ Len(snapshots) \in Nat /\ Len(snapshots) <= MaxUpdates
      /\ hsets \subseteq Updates
      /\ key \in [present : BOOLEAN, updated : 0..MaxUpdates,
                  unit : 0..MaxUnits, started : 0..MaxUpdates,
                  ttl : 1..TTL \cup {NoTtl}]
  BY LenProperties DEF CacheInv, TypeInv, TypeOK, Snapshots
<1>6. snapshots[v] \in Snapshots
  BY <1>4, <1>5, ElementOfSeq
<1>7. /\ cache' \in Seq(Phases) /\ Len(cache') = Len(snapshots')
      /\ \A w \in Updates : w # v => cache'[w] = cache[w]
      /\ \/ answered /\ cache'[v] = Next1
         \/ ~answered /\ cache'[v] \in {"failed", cache[v]}
  <2>1. (IF answered THEN Next1 ELSE "failed") \in Phases
    BY <1>3 DEF Phases
  <2>2. CASE ~answered /\ cache' = cache
    BY <1>2, <1>5, <2>2
  <2>3. CASE cache' = [cache EXCEPT ![v] = IF answered THEN Next1
                                           ELSE "failed"]
    BY <1>2, <1>4, <1>5, <2>1, <2>3, ExceptSeq
  <2> QED
    BY <1>2, <2>2, <2>3
<1> HIDE DEF Next1
<1>8. \A w \in Updates : cache'[w] \in Open => cache[w] \in Open
  BY <1>1, <1>7
<1>9. MaxUpdates \in Nat /\ MaxUnits \in Nat /\ MaxResends \in Nat
      /\ TTL \in Nat \ {0} /\ NoTtl \notin Nat
  BY HotCacheAssumption
<1>10. Stored(v) \in [present : BOOLEAN, updated : 0..MaxUpdates,
                      unit : 0..MaxUnits, started : 0..MaxUpdates,
                      ttl : 1..TTL \cup {NoTtl}]
       /\ Stored(v).present
  BY <1>4, <1>5, <1>6, <1>9 DEF Stored, Snapshots
<1>11. WithTtl \in [present : BOOLEAN, updated : 0..MaxUpdates,
                    unit : 0..MaxUnits, started : 0..MaxUpdates,
                    ttl : 1..TTL \cup {NoTtl}]
       /\ (~key.present => WithTtl = key)
       /\ (key.present => WithTtl.present /\ WithTtl.ttl = TTL)
       /\ WithTtl.updated = key.updated /\ WithTtl.unit = key.unit
       /\ WithTtl.started = key.started /\ WithTtl.present = key.present
  BY <1>5, <1>9 DEF WithTtl
<1>12. TypeInv'
  <2>1. resends' \in 0..MaxResends
    BY <1>2, <1>9 DEF CacheInv, TypeInv, TypeOK
  <2>2. hsets' \subseteq Updates'
    BY <1>1, <1>4, <1>5
  <2>3. key' \in [present : BOOLEAN, updated : 0..MaxUpdates,
                  unit : 0..MaxUnits, started : 0..MaxUpdates,
                  ttl : 1..TTL \cup {NoTtl}]
    BY <1>1, <1>5, <1>10, <1>11
  <2>4. ~key'.present => key' = NoKey
    BY <1>1, <1>10, <1>11 DEF CacheInv, TypeInv, TypeOK
  <2> QED
    BY <1>2, <1>7, <2>1, <2>2, <2>3, <2>4 DEF CacheInv, TypeInv, TypeOK
(* An answered HSET leaves a task that is expiring, one without an answer  *)
(* a task that is queued or failed; a TTL is missing after EXPIRE only if  *)
(* it did not take effect, and then its task is not done either.           *)
<1>13. TtlExplained'
  <2> SUFFICES ASSUME key'.present, key'.ttl = NoTtl
               PROVE  \E w \in hsets' : cache'[w] # "done"
    BY DEF TtlExplained
  <2>1. CASE reached /\ cache[v] = "queued"
    <3>1. v \in hsets'
      BY <1>1, <2>1
    <3>2. cache'[v] # "done"
      BY <1>7, <2>1 DEF Next1
    <3> QED
      BY <3>1, <3>2
  <2>2. CASE reached /\ cache[v] = "expiring"
    BY <1>1, <1>9, <1>11, <2>2
  <2>3. CASE ~reached
    <3>1. key' = key /\ hsets' = hsets /\ ~answered
      BY <1>1, <2>3
    <3>2. PICK w \in hsets : cache[w] # "done"
      BY <3>1 DEF CacheInv, TtlExplained
    <3>3. cache'[w] # "done"
      BY <1>1, <1>5, <1>7, <3>1, <3>2 DEF Open
    <3> QED
      BY <3>1, <3>2, <3>3
  <2> QED
    BY <1>1, <2>1, <2>2, <2>3
(* Without overlap the only open task is that of the newest snapshot. *)
<1>14. OneAtATime'
  <2>1. ~overlap' => \A w \in Updates' :
                       w < Len(snapshots') => cache'[w] \notin Open
    BY <1>2, <1>4, <1>8 DEF CacheInv, OneAtATime
  <2>2. ASSUME ~overlap', key'.present, NEW w \in hsets'
        PROVE  w <= key'.updated
    <3>1. v = Len(snapshots)
      BY <1>1, <1>2, <1>4, <1>5, <2>2 DEF CacheInv, OneAtATime
    <3>2. CASE reached /\ cache[v] = "queued"
      <4>1. key'.updated = v
        BY <1>1, <3>2 DEF Stored
      <4>2. w \in Updates
        BY <1>1, <1>5, <2>2
      <4> QED
        BY <1>4, <1>5, <3>1, <4>1, <4>2
    <3>3. CASE ~(reached /\ cache[v] = "queued")
      <4>1. /\ key'.present = key.present /\ key'.updated = key.updated
            /\ hsets' = hsets
        BY <1>1, <1>11, <3>3
      <4> QED
        BY <1>2, <2>2, <4>1 DEF CacheInv, OneAtATime, FreshIfSerial
    <3> QED
      BY <3>2, <3>3
  <2> QED
    BY <2>1, <2>2 DEF OneAtATime, FreshIfSerial
<1>15. StartsRight' /\ LastUnitRight'
  BY <1>2, <1>4
  DEF CacheInv, UnitInv, StartsRight, LastUnitRight, StartIn
<1>16. KeyRight'
  <2>1. CASE reached /\ cache[v] = "queued"
    BY <1>1, <1>2, <1>4, <2>1 DEF KeyRight, Stored
  <2>2. CASE ~(reached /\ cache[v] = "queued")
    <3>1. /\ key'.present = key.present /\ key'.updated = key.updated
          /\ key'.unit = key.unit /\ key'.started = key.started
      BY <1>1, <1>11, <2>2
    <3> QED
      BY <1>2, <1>4, <3>1 DEF CacheInv, UnitInv, KeyRight
  <2> QED
    BY <2>1, <2>2
<1> QED
  BY <1>12, <1>13, <1>14, <1>15, <1>16 DEF CacheInv, UnitInv

(* A key that expires is gone; one that does not keeps a TTL. *)
LEMMA TickKeeps ==
  ASSUME CacheInv, Tick
  PROVE  CacheInv'
<1>1. /\ key.present /\ key.ttl # NoTtl
      /\ key' = IF key.ttl = 1 THEN NoKey ELSE [key EXCEPT !.ttl = @ - 1]
      /\ UNCHANGED <<snapshots, lastUnit, cache, resends, crashes, hsets,
                     overlap, begins>>
      /\ Updates' = Updates
  BY DEF Tick, Updates
<1>2. /\ key \in [present : BOOLEAN, updated : 0..MaxUpdates,
                  unit : 0..MaxUnits, started : 0..MaxUpdates,
                  ttl : 1..TTL \cup {NoTtl}]
      /\ TTL \in Nat /\ NoTtl \notin Nat
      /\ MaxUpdates \in Nat /\ MaxUnits \in Nat
  BY HotCacheAssumption DEF CacheInv, TypeInv, TypeOK
<1>3. \/ key' = NoKey /\ ~key'.present
      \/ /\ key'.present /\ key'.ttl \in 1..TTL /\ key'.ttl # NoTtl
         /\ key'.updated = key.updated /\ key'.unit = key.unit
         /\ key'.started = key.started
         /\ key' \in [present : BOOLEAN, updated : 0..MaxUpdates,
                      unit : 0..MaxUnits, started : 0..MaxUpdates,
                      ttl : 1..TTL \cup {NoTtl}]
  <2>1. CASE key.ttl = 1
    BY <1>1, <2>1 DEF NoKey
  <2>2. CASE key.ttl # 1
    <3>1. key.ttl \in 2..TTL /\ key.ttl - 1 \in 1..TTL
      BY <1>1, <1>2, <2>2
    <3>2. key' = [key EXCEPT !.ttl = key.ttl - 1]
      BY <1>1, <2>2
    <3> QED
      BY <1>1, <1>2, <3>1, <3>2
  <2> QED
    BY <2>1, <2>2
<1>4. NoKey \in [present : BOOLEAN, updated : 0..MaxUpdates,
                 unit : 0..MaxUnits, started : 0..MaxUpdates,
                 ttl : 1..TTL \cup {NoTtl}]
  BY <1>2 DEF NoKey, NoUnit
<1>5. TypeInv'
  BY <1>1, <1>3, <1>4 DEF CacheInv, TypeInv, TypeOK
<1>6. TtlExplained'
  BY <1>3 DEF TtlExplained
<1>7. OneAtATime'
  BY <1>1, <1>3 DEF CacheInv, OneAtATime, FreshIfSerial
<1>8. StartsRight' /\ LastUnitRight'
  BY <1>1 DEF CacheInv, UnitInv, StartsRight, LastUnitRight, StartIn
<1>9. KeyRight'
  BY <1>1, <1>3 DEF CacheInv, UnitInv, KeyRight
<1> QED
  BY <1>5, <1>6, <1>7, <1>8, <1>9 DEF CacheInv, UnitInv

(* A restart cancels the open tasks and forgets the unit. *)
LEMMA CrashKeeps ==
  ASSUME CacheInv, Crash
  PROVE  CacheInv'
<1>1. /\ crashes < MaxCrashes
      /\ crashes' = crashes + 1
      /\ begins' = begins \cup {Len(snapshots)}
      /\ lastUnit' = [unit |-> NoUnit, at |-> 0]
      /\ cache' = [v \in Updates |->
                     IF cache[v] \in Open THEN "cancelled" ELSE cache[v]]
      /\ UNCHANGED <<snapshots, key, resends, hsets, overlap>>
      /\ Updates' = Updates
  BY DEF Crash, Updates
<1>2. /\ crashes \in 0..MaxCrashes /\ MaxCrashes \in Nat
      /\ MaxUnits \in Nat /\ MaxUpdates \in Nat
      /\ snapshots \in Seq(Snapshots) /\ Len(snapshots) \in Nat
      /\ cache \in Seq(Phases) /\ Len(cache) = Len(snapshots)
      /\ hsets \subseteq Updates
      /\ Updates = 1..Len(snapshots)
  BY HotCacheAssumption, LenProperties
  DEF CacheInv, TypeInv, TypeOK, Snapshots, Updates
<1>3. /\ crashes' \in 0..MaxCrashes /\ crashes' # 0
  BY <1>1, <1>2
<1>4. \A v \in Updates : cache[v] \in Phases
  BY <1>2, ElementOfSeq
<1>5. \A v \in Updates : /\ cache'[v] \in Phases
                         /\ cache'[v] \notin Open
                         /\ cache[v] # "done" => cache'[v] # "done"
  BY <1>1, <1>4 DEF Phases, Open
<1>6. cache' \in Seq(Phases) /\ Len(cache') = Len(snapshots')
  <2>1. cache' \in [1..Len(snapshots) -> Phases]
    BY <1>1, <1>2, <1>5
  <2> QED
    BY <1>1, <1>2, <2>1, LenProperties
<1>7. TypeInv'
  <2>1. /\ begins' \subseteq 0..Len(snapshots') /\ 0 \in begins'
        /\ lastUnit' \in [unit : 0..MaxUnits, at : 0..MaxUpdates]
    <3>1. begins \subseteq 0..Len(snapshots) /\ 0 \in begins
      BY DEF CacheInv, TypeInv, TypeOK
    <3>2. Len(snapshots) \in 0..Len(snapshots) /\ snapshots' = snapshots
      BY <1>1, <1>2
    <3>3. begins' \subseteq 0..Len(snapshots') /\ 0 \in begins'
      BY <1>1, <3>1, <3>2
    <3>4. 0 \in 0..MaxUnits /\ 0 \in 0..MaxUpdates
      BY <1>2
    <3> QED
      BY <1>1, <3>3, <3>4 DEF NoUnit
  <2> QED
    BY <1>1, <1>3, <1>6, <2>1 DEF CacheInv, TypeInv, TypeOK
<1>8. TtlExplained'
  BY <1>1, <1>2, <1>5 DEF CacheInv, TtlExplained
<1>9. OneAtATime'
  BY <1>1, <1>5 DEF CacheInv, OneAtATime, FreshIfSerial
(* No run goes on over the restart, and those before it are what they were. *)
<1>10. StartsRight' /\ LastUnitRight'
  <2>1. StartsRight'
    <3> SUFFICES ASSUME NEW v \in Updates
                 PROVE  StartIn(snapshots', begins', snapshots'[v].started, v)
      BY <1>1 DEF StartsRight
    <3>1. StartIn(snapshots, begins, snapshots[v].started, v)
      BY DEF CacheInv, UnitInv, StartsRight
    <3>2. v <= Len(snapshots)
      BY <1>2
    <3> QED
      BY <1>1, <3>1, <3>2 DEF StartIn
  <2>2. LastUnitRight'
    BY <1>1 DEF LastUnitRight
  <2> QED
    BY <2>1, <2>2
<1>11. KeyRight'
  BY <1>1 DEF CacheInv, UnitInv, KeyRight
<1> QED
  BY <1>7, <1>8, <1>9, <1>10, <1>11 DEF CacheInv, UnitInv

LEMMA CacheStep == CacheInv /\ [Next]_vars => CacheInv'
<1> SUFFICES ASSUME CacheInv, [Next]_vars PROVE CacheInv'
  OBVIOUS
<1>1. CASE \E u \in 0..MaxUnits : Update(u)
  BY <1>1, UpdateKeeps
<1>2. CASE \E v \in Updates : Command(v)
  BY <1>2, CommandKeeps
<1>3. CASE Tick
  BY <1>3, TickKeeps
<1>4. CASE Crash
  BY <1>4, CrashKeeps
<1>5. CASE UNCHANGED vars
  BY <1>5
  DEF vars, CacheInv, TypeInv, TypeOK, TtlExplained, OneAtATime,
      FreshIfSerial, UnitInv, StartsRight, LastUnitRight, KeyRight, StartIn,
      Updates
<1> QED
  BY <1>1, <1>2, <1>3, <1>4, <1>5 DEF Next

LEMMA CacheCorrect == Spec => []CacheInv
<1> QED
  BY CacheInit, CacheStep, PTL DEF Spec

-----------------------------------------------------------------------------
(* Every variable of the hot cache keeps its type, and a key that is       *)
(* absent keeps nothing of its last value.                                 *)
THEOREM CacheTypeCorrect == Spec => []TypeOK
<1>1. CacheInv => TypeOK
  BY DEF CacheInv, TypeInv
<1> QED
  BY <1>1, CacheCorrect, PTL

(* A hash without a TTL is always explained by a task that stored it and   *)
(* is not done: still on its way to EXPIRE, failed, or cut off by a stop.  *)
THEOREM TtlCorrect == Spec => []TtlExplained
<1>1. CacheInv => TtlExplained
  BY DEF CacheInv
<1> QED
  BY <1>1, CacheCorrect, PTL

(* If no update ever came while a task was open, no command stored a       *)
(* snapshot over a newer one, however many failed or were sent again.      *)
THEOREM FreshCorrect == Spec => []FreshIfSerial
<1>1. CacheInv => FreshIfSerial
  BY DEF CacheInv, OneAtATime
<1> QED
  BY <1>1, CacheCorrect, PTL

(* The hash of a snapshot with a unit shows that unit with the update at   *)
(* which its last uninterrupted run in one process of ingest began, even   *)
(* if notifications of an old feed put the unit back and forth.            *)
THEOREM UnitStartCorrect == Spec => []UnitStartShown
<1>1. CacheInv => UnitStartShown
  <2> SUFFICES ASSUME CacheInv, key.present,
                      snapshots[key.updated].unit # NoUnit
               PROVE  /\ key.unit = snapshots[key.updated].unit
                      /\ RunStart(key.started, key.updated)
    BY DEF UnitStartShown
  <2>1. /\ key.updated \in Updates
        /\ key.started = snapshots[key.updated].started
        /\ key.unit = snapshots[key.updated].unit
    BY DEF CacheInv, UnitInv, KeyRight
  <2>2. StartIn(snapshots, begins, snapshots[key.updated].started, key.updated)
    BY <2>1 DEF CacheInv, UnitInv, StartsRight
  <2> QED
    BY <2>1, <2>2 DEF RunStart, StartIn
<1> QED
  BY <1>1, CacheCorrect, PTL
=============================================================================
