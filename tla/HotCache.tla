------------------------------ MODULE HotCache ------------------------------
(***************************************************************************)
(* The hot cache: every on_update of ingest/main.py creates a task that    *)
(* writes the hash equipment:latest:{id} with HSET and then EXPIRE         *)
(* (RedisPublisher.update_hot_cache).  Nothing orders the tasks: each      *)
(* command takes a connection of the redis client's pool, so commands of   *)
(* different tasks reach the server in any order, and any of them may      *)
(* fail, before or after it took effect.  A redis client from version 6 on *)
(* (the project asks for 5 or later) sends a command again then.           *)
(*                                                                         *)
(* Machines share no key and no task: one machine is modelled.             *)
(* Snapshots are numbered, and a snapshot's number is also its time.       *)
(***************************************************************************)
EXTENDS Integers, Sequences

CONSTANTS
  MaxUpdates,   \* bound on the snapshots
  MaxUnits,     \* bound on the units the machine makes
  MaxCrashes,   \* bound on the restarts of ingest
  MaxResends,   \* bound on the commands that are sent again
  TTL,          \* HOT_CACHE_TTL_SECONDS, in clock units
  NoTtl         \* TTL answers -1: the key does not expire

ASSUME HotCacheAssumption ==
  /\ {MaxUpdates, MaxUnits, MaxCrashes, MaxResends} \subseteq Nat
  /\ TTL \in Nat \ {0}
  /\ NoTtl \notin Nat

NoUnit == 0   \* unit_id is None

VARIABLES
  snapshots,  \* snapshots[v]: the unit_id and unit_started_at of update v
  lastUnit,   \* last_unit[equipment_id]; at = 0 when there is no entry
  cache,      \* cache[v]: where the update_hot_cache task of v is
  key,        \* the hash equipment:latest:{id}
  resends,    \* commands sent again so far
  crashes,    \* restarts so far
  hsets,      \* history: the snapshots Redis stored in the hash
  overlap,    \* history: some update came while a task was open
  begins      \* history: how many updates came before each start of ingest

vars == <<snapshots, lastUnit, cache, key, resends, crashes, hsets, overlap,
          begins>>

Updates == 1..Len(snapshots)

NoKey == [present |-> FALSE, updated |-> 0, unit |-> NoUnit, started |-> 0,
          ttl |-> NoTtl]

Open == {"queued", "expiring"}

Phases == Open \cup {"done", "failed", "cancelled"}

(* No task is under way. *)
Quiet == \A v \in Updates : cache[v] \notin Open
-----------------------------------------------------------------------------
Init ==
  /\ snapshots = <<>>
  /\ lastUnit = [unit |-> NoUnit, at |-> 0]
  /\ cache = <<>>
  /\ key = NoKey
  /\ resends = 0
  /\ crashes = 0
  /\ hsets = {}
  /\ overlap = FALSE
  /\ begins = {0}

(* Mutant of UnitEntry: every update restarts the unit. *)
UnitEntryAlwaysNew(u, v) == [unit |-> u, at |-> v]

(* last_unit of an update at time v that carries unit u. *)
UnitEntry(u, v) ==
  IF lastUnit.at = 0 \/ lastUnit.unit # u THEN [unit |-> u, at |-> v]
  ELSE lastUnit

(* Mutant of Queued: no task while another one is open. *)
QueuedIfQuiet == IF Quiet THEN Append(cache, "queued") ELSE cache

(* The task that on_update creates. *)
Queued == Append(cache, "queued")

(* on_update: u is the unit known now, None before the first notification  *)
(* of CurrentUnitId and after an empty one.  Any unit may follow any       *)
(* other: the subscription of a failed attempt feeds the same store, and   *)
(* late notifications of it put an older unit, or None, back.              *)
Update(u) ==
  /\ Len(snapshots) < MaxUpdates
  /\ LET v     == Len(snapshots) + 1
         entry == UnitEntry(u, v)
     IN  /\ lastUnit' = entry
         /\ snapshots' = Append(snapshots, [unit |-> u, started |-> entry.at])
  /\ cache' = Queued
  /\ overlap' = (overlap \/ ~Quiet)
  /\ UNCHANGED <<key, resends, crashes, hsets, begins>>

(* Mutant of Stored: HSETNX, which keeps the fields that are set. *)
StoredOnce(v) ==
  [present |-> TRUE,
   updated |-> IF key.present THEN key.updated ELSE v,
   unit    |-> IF key.present THEN key.unit ELSE snapshots[v].unit,
   started |-> IF key.present THEN key.started ELSE snapshots[v].started,
   ttl     |-> key.ttl]

(* The hash after HSET of the fields of snapshot v: build_hot_cache_fields *)
(* leaves a unit that is None out, so the field keeps its old value; HSET  *)
(* keeps the TTL of an existing key and gives a new key none.              *)
Stored(v) ==
  [present |-> TRUE,
   updated |-> v,
   unit    |-> IF snapshots[v].unit = NoUnit THEN key.unit
               ELSE snapshots[v].unit,
   started |-> snapshots[v].started,
   ttl     |-> key.ttl]

(* What becomes of the task of v: after an answer the phase is next; with  *)
(* none the command is sent again, or its exception ends the task.         *)
Goes(v, answered, next) ==
  /\ UNCHANGED <<snapshots, lastUnit, crashes, overlap, begins>>
  /\ \/ /\ cache' = [cache EXCEPT ![v] = IF answered THEN next ELSE "failed"]
        /\ UNCHANGED resends
     \/ /\ ~answered
        /\ resends < MaxResends
        /\ resends' = resends + 1
        /\ UNCHANGED cache

(* HSET takes effect or not, and is answered or not. *)
HsetThen(v, reached, answered, next) ==
  /\ cache[v] = "queued"
  /\ answered => reached
  /\ key' = IF reached THEN Stored(v) ELSE key
  /\ hsets' = IF reached THEN hsets \cup {v} ELSE hsets
  /\ Goes(v, answered, next)

(* Mutant of Hset: the task is over after HSET. *)
HsetNoExpire(v, reached, answered) == HsetThen(v, reached, answered, "done")

(* An answer to HSET takes the task to its EXPIRE. *)
Hset(v, reached, answered) == HsetThen(v, reached, answered, "expiring")

(* EXPIRE of a key that has expired meanwhile changes nothing. *)
WithTtl == IF key.present THEN [key EXCEPT !.ttl = TTL] ELSE key

Expire(v, reached, answered) ==
  /\ cache[v] = "expiring"
  /\ answered => reached
  /\ key' = IF reached THEN WithTtl ELSE key
  /\ UNCHANGED hsets
  /\ Goes(v, answered, "done")

(* Time passes at the Redis server; a key at the end of its TTL is gone. *)
Tick ==
  /\ key.present
  /\ key.ttl # NoTtl
  /\ key' = IF key.ttl = 1 THEN NoKey ELSE [key EXCEPT !.ttl = @ - 1]
  /\ UNCHANGED <<snapshots, lastUnit, cache, resends, crashes, hsets, overlap,
                 begins>>

(* Ingest stops and starts again: its tasks and dictionaries are gone. *)
Crash ==
  /\ crashes < MaxCrashes
  /\ crashes' = crashes + 1
  /\ begins' = begins \cup {Len(snapshots)}
  /\ lastUnit' = [unit |-> NoUnit, at |-> 0]
  /\ cache' = [v \in Updates |->
                 IF cache[v] \in Open THEN "cancelled" ELSE cache[v]]
  /\ UNCHANGED <<snapshots, key, resends, hsets, overlap>>

Command(v) ==
  \E reached, answered \in BOOLEAN :
    \/ Hset(v, reached, answered)
    \/ Expire(v, reached, answered)

Next ==
  \/ \E u \in 0..MaxUnits : Update(u)
  \/ \E v \in Updates : Command(v)
  \/ Tick
  \/ Crash

Spec == Init /\ [][Next]_vars

(* The event loop runs every task and Redis answers it or the connection   *)
(* fails; the server's clock advances.                                     *)
FairSpec ==
  /\ Spec
  /\ \A v \in 1..MaxUpdates : WF_vars(v \in Updates /\ Command(v))
  /\ WF_vars(Tick)
-----------------------------------------------------------------------------
(* Every variable has its type; an absent key has no field and no TTL, and *)
(* a present one a TTL of at most HOT_CACHE_TTL_SECONDS, or none.          *)
TypeOK ==
  /\ snapshots \in Seq([unit : 0..MaxUnits, started : 1..MaxUpdates])
  /\ lastUnit \in [unit : 0..MaxUnits, at : 0..MaxUpdates]
  /\ cache \in Seq(Phases)
  /\ Len(cache) = Len(snapshots)
  /\ key \in [present : BOOLEAN, updated : 0..MaxUpdates, unit : 0..MaxUnits,
              started : 0..MaxUpdates, ttl : 1..TTL \cup {NoTtl}]
  /\ ~key.present => key = NoKey
  /\ resends \in 0..MaxResends
  /\ crashes \in 0..MaxCrashes
  /\ hsets \subseteq Updates
  /\ overlap \in BOOLEAN
  /\ begins \subseteq 0..Len(snapshots)

(* A hash without a TTL, which would be served for ever, has a cause: a    *)
(* task that stored it has not reached its EXPIRE yet, or never will       *)
(* because a command of it failed or ingest stopped.                       *)
TtlExplained ==
  key.present /\ key.ttl = NoTtl =>
    \E v \in hsets : cache[v] # "done"

(* As long as no update came while a task of an earlier one was open, the  *)
(* hash holds the newest snapshot that was ever stored, whatever failed or *)
(* was sent again.                                                         *)
FreshIfSerial ==
  ~overlap /\ key.present =>
    \A v \in hsets : v <= key.updated

(* at is the update at which the last uninterrupted run of the unit of     *)
(* snapshot v began: the unit was known at every update from at to v, all  *)
(* of them of one process, and at was the first update of this process or  *)
(* the one before it was of another unit.                                  *)
RunStart(at, v) ==
  /\ at \in 1..v
  /\ \A w \in at..v : snapshots[w].unit = snapshots[v].unit
  /\ \A n \in begins : n < at \/ v <= n
  /\ at - 1 \in begins \/ snapshots[at - 1].unit # snapshots[v].unit

(* A hash stored from a snapshot with a unit shows that unit, and with it  *)
(* the update at which its last uninterrupted run began, wherever          *)
(* notifications of an old feed put the unit back in between and however   *)
(* the tasks are ordered.  (A snapshot without a unit keeps the unit of an *)
(* older one and gives it its own start.)                                  *)
UnitStartShown ==
  key.present /\ snapshots[key.updated].unit # NoUnit =>
    /\ key.unit = snapshots[key.updated].unit
    /\ RunStart(key.started, key.updated)

(* A silent machine disappears from the cache unless some command of its   *)
(* tasks failed or was cut off by a restart.                               *)
ForgottenWhenSilent ==
  <>[](key.present => \E v \in Updates : cache[v] \in {"failed", "cancelled"})

(* README: GET /api/equipment answers with the latest metrics: at rest and *)
(* with no command failed, what the cache shows is the last snapshot.      *)
ServesLatest ==
  (/\ Quiet
   /\ key.present
   /\ \A v \in Updates : cache[v] = "done") => key.updated = Len(snapshots)
=============================================================================
