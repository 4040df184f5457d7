-------------------------- MODULE ApiStartupProofs --------------------------
(***************************************************************************)
(* What the start and the end of the API process guarantee for any number  *)
(* of requests at once, any file, and any stops, kills and starts.         *)
(***************************************************************************)
EXTENDS ApiStartup, TLAPS

Before == {"migrating", "exited"}

AllIdle(cs) == \A c \in cs : call[c] = Idle

(* A process that has not begun with get_pool, or is gone, has no pool.    *)
NoPools == pool = NoPool /\ pools = {} /\ made = 0

(* There is one pool, and it is the one of the module variable.            *)
ThePool == pool \in 1..made /\ pools = {pool}

(* The pools, phase by phase: nobody but lifespan is in get_pool before    *)
(* the pool is there, and every request after that returns it.             *)
PoolInv ==
  /\ phase \in Phases
  /\ made \in Nat
  /\ call \in [Callers -> [at : {"idle", "creating", "using"}, pool : Nat]]
  /\ phase \in Before => NoPools /\ AllIdle(Callers)
  /\ phase \in {"opening", "seeding"} => AllIdle(Requests)
  /\ phase = "opening" =>
       \/ NoPools /\ call[Lifespan] \in {Idle, Creating}
       \/ ThePool /\ call[Lifespan] = Using(pool)
  /\ phase = "seeding" => ThePool /\ call[Lifespan] = Using(pool)
  /\ phase \in {"serving", "draining"} =>
       /\ ThePool
       /\ call[Lifespan] = Idle
       /\ \A r \in Requests : call[r] \in {Idle, Using(pool)}
  /\ phase = "closing" => ThePool /\ AllIdle(Callers)
  /\ phase = "closed" => pool = NoPool /\ pools = {} /\ AllIdle(Callers)

(* The process is gone.                                                    *)
LEMMA ExitPools == Exit => PoolInv'
<1> SUFFICES ASSUME Exit PROVE PoolInv'
  OBVIOUS
<1>1. /\ phase' = "exited" /\ made' = 0 /\ pool' = NoPool /\ pools' = {}
      /\ call' = [c \in Callers |-> Idle]
  BY DEF Exit
<1> QED
  BY <1>1 DEF PoolInv, Phases, Before, NoPools, AllIdle, Idle, NoPool, Callers

LEMMA InitPools == Init => PoolInv
BY DEF Init, PoolInv, Phases, Before, NoPools, AllIdle, Idle, NoPool, Callers

(* lifespan finds no pool and begins to create one.                        *)
LEMMA LifespanOpensPools ==
  ASSUME PoolInv, LifespanOpens
  PROVE  PoolInv'
<1>1. /\ phase = "opening" /\ call[Lifespan] = Idle
      /\ UNCHANGED <<phase, pool, pools, made>>
      /\ call' = [call EXCEPT ![Lifespan] = IF pool = NoPool THEN Creating ELSE Using(pool)]
  BY DEF LifespanOpens, GetPool
<1>2. Lifespan \in Callers /\ Lifespan \notin Requests /\ Requests \subseteq Callers
  BY CallersAssumption DEF Callers
<1>3. NoPools
  BY <1>1 DEF PoolInv, Idle, Using
<1>4. /\ call' \in [Callers -> [at : {"idle", "creating", "using"}, pool : Nat]]
      /\ call'[Lifespan] = Creating
      /\ \A r \in Requests : call'[r] = call[r]
  BY <1>1, <1>2, <1>3 DEF PoolInv, NoPools, Creating, NoPool
<1> QED
  BY <1>1, <1>3, <1>4 DEF PoolInv, NoPools, AllIdle, Before, Phases

(* Only lifespan can be inside create_pool.                                *)
LEMMA PoolCreatedPools ==
  ASSUME PoolInv, NEW c \in Callers, PoolCreated(c)
  PROVE  PoolInv'
<1>1. /\ call[c] = Creating
      /\ UNCHANGED phase
      /\ made' = made + 1 /\ pool' = made + 1 /\ pools' = pools \cup {made + 1}
      /\ call' = [call EXCEPT ![c] = Using(made + 1)]
  BY DEF PoolCreated
<1>2. Lifespan \in Callers /\ Lifespan \notin Requests /\ Requests \subseteq Callers
  BY CallersAssumption DEF Callers
<1>3. c = Lifespan /\ phase = "opening" /\ NoPools
  <2>1. Creating # Idle /\ \A p : Creating # Using(p)
    BY DEF Creating, Idle, Using
  <2> QED
    BY <1>1, <2>1 DEF PoolInv, Phases, Before, AllIdle, Callers
<1>4. ThePool'
  BY <1>1, <1>3 DEF ThePool, NoPools
<1>5. /\ call' \in [Callers -> [at : {"idle", "creating", "using"}, pool : Nat]]
      /\ call'[Lifespan] = Using(pool')
      /\ \A r \in Requests : call'[r] = call[r]
  BY <1>1, <1>2, <1>3 DEF PoolInv, NoPools, Using
<1>6. made' \in Nat
  BY <1>1 DEF PoolInv
<1> QED
  BY <1>1, <1>3, <1>4, <1>5, <1>6 DEF PoolInv, AllIdle, Before, Phases

(* The steps of lifespan between get_pool and its yield.                   *)
LEMMA SeedingPools ==
  ASSUME PoolInv,
         Parse \/ ParseFindsNoFile \/ SeedDone \/ \E m \in Machines : SeedRow(m)
  PROVE  PoolInv'
<1>1. UNCHANGED <<pool, pools, made>>
  BY DEF Parse, ParseFindsNoFile, SeedDone, SeedRow
<1>2. Lifespan \in Callers /\ Lifespan \notin Requests /\ Requests \subseteq Callers
  BY CallersAssumption DEF Callers
<1>3. ThePool /\ call[Lifespan] = Using(pool) /\ AllIdle(Requests)
  <2>1. Idle.at = "idle" /\ Creating.at = "creating"
    BY DEF Idle, Creating
  <2> QED
    BY <2>1 DEF Parse, ParseFindsNoFile, SeedDone, SeedRow, PoolInv
<1>4. CASE UNCHANGED call /\ phase' = "seeding"
  BY <1>1, <1>3, <1>4 DEF PoolInv, ThePool, AllIdle, Phases, Before
<1>5. CASE call' = [call EXCEPT ![Lifespan] = Idle] /\ phase' = "serving"
  <2>1. /\ call' \in [Callers -> [at : {"idle", "creating", "using"}, pool : Nat]]
        /\ call'[Lifespan] = Idle
        /\ \A r \in Requests : call'[r] = Idle
    BY <1>2, <1>3, <1>5 DEF PoolInv, AllIdle, Idle, NoPool
  <2> QED
    BY <1>1, <1>3, <1>5, <2>1 DEF PoolInv, ThePool, Phases, Before
<1> QED
  BY <1>4, <1>5 DEF Parse, ParseFindsNoFile, SeedDone, SeedRow

(* Requests come and go while the pool is there.                           *)
LEMMA RequestPools ==
  ASSUME PoolInv, NEW r \in Requests, RequestStarts(r) \/ RequestEnds(r)
  PROVE  PoolInv'
<1>1. UNCHANGED <<phase, pool, pools, made>>
  BY DEF RequestStarts, RequestEnds
<1>2. Lifespan \in Callers /\ r # Lifespan /\ r \in Callers /\ Requests \subseteq Callers
  BY CallersAssumption DEF Callers
<1>3. phase \in {"serving", "draining"}
  <2>1. Idle.at # "using"
    BY DEF Idle
  <2> QED
    BY <1>2, <2>1 DEF RequestStarts, RequestEnds, PoolInv, AllIdle, Phases, Before
<1>4. ThePool /\ pool # NoPool
  BY <1>3 DEF PoolInv, ThePool, NoPool
<1>5. PICK v \in {Idle, Using(pool)} : call' = [call EXCEPT ![r] = v]
  BY <1>4 DEF RequestStarts, RequestEnds, GetPool
<1>6. v \in [at : {"idle", "creating", "using"}, pool : Nat]
  BY <1>4, <1>5 DEF Idle, Using, NoPool, ThePool, PoolInv
<1>7. /\ call' \in [Callers -> [at : {"idle", "creating", "using"}, pool : Nat]]
      /\ call'[Lifespan] = call[Lifespan]
      /\ \A q \in Requests : call'[q] \in {call[q], v}
  BY <1>2, <1>5, <1>6 DEF PoolInv
<1> QED
  BY <1>1, <1>3, <1>5, <1>7 DEF PoolInv, ThePool, Phases, Before

(* The other steps of the process.                                         *)
LEMMA PhasePools ==
  ASSUME PoolInv, Migrate \/ Shutdown \/ BeginClose \/ ClosePool \/ Start
  PROVE  PoolInv'
<1>1. CASE Migrate
  BY <1>1, CallersAssumption
     DEF Migrate, PoolInv, Phases, Before, NoPools, AllIdle, Callers
<1>2. CASE Shutdown
  BY <1>2 DEF Shutdown, PoolInv, Phases, Before, ThePool
<1>3. CASE ClosePool
  <2>1. /\ phase = "closing" /\ phase' = "closed" /\ pool' = NoPool
        /\ pools' = {} /\ UNCHANGED <<made, call>>
        /\ AllIdle(Callers)
    BY <1>3 DEF ClosePool, PoolInv, ThePool
  <2> QED
    BY <2>1 DEF PoolInv, Phases, Before, AllIdle
<1>4. CASE Start
  BY <1>4 DEF Start, PoolInv, Phases, Before, NoPools, AllIdle
<1>5. CASE BeginClose
  <2>1. /\ phase = "draining" /\ phase' = "closing"
        /\ UNCHANGED <<pool, pools, made, call>>
        /\ AllIdle(Callers)
    BY <1>5 DEF BeginClose, PoolInv, AllIdle, Callers
  <2> QED
    BY <2>1 DEF PoolInv, Phases, Before, AllIdle, ThePool
<1> QED
  BY <1>1, <1>2, <1>3, <1>4, <1>5

LEMMA NextPools == PoolInv /\ [Next]_vars => PoolInv'
<1> SUFFICES ASSUME PoolInv, [Next]_vars PROVE PoolInv'
  OBVIOUS
<1>1. CASE Exit
  BY <1>1, ExitPools
<1>2. CASE UNCHANGED process
  BY <1>2 DEF process, PoolInv, AllIdle, NoPools, ThePool
<1>3. CASE Starting
  <2>1. CASE MigrateFails \/ ParseFails \/ SeedFails
    BY <1>1, <2>1 DEF MigrateFails, ParseFails, SeedFails
  <2> QED
    BY <1>3, <2>1, PhasePools, LifespanOpensPools, SeedingPools DEF Starting
<1>4. CASE Creation
  <2>1. ASSUME NEW c \in Callers, PoolCreated(c) PROVE PoolInv'
    BY <2>1, PoolCreatedPools
  <2>2. ASSUME NEW c \in Callers, CreateFails(c) PROVE PoolInv'
    <3>1. call[c] = Creating
      BY <2>2 DEF CreateFails
    <3>2. c = Lifespan
      <4>1. Creating # Idle /\ \A p : Creating # Using(p)
        BY DEF Creating, Idle, Using
      <4> QED
        BY <3>1, <4>1 DEF PoolInv, Phases, Before, AllIdle, Callers
    <3> QED
      BY <1>1, <2>2, <3>2 DEF CreateFails
  <2> QED
    BY <1>4, <2>1, <2>2 DEF Creation
<1>5. CASE Serving
  BY <1>1, <1>5, RequestPools, PhasePools DEF Serving, CloseFails, Stop
<1>6. CASE Outside
  <2>1. CASE Kill
    BY <1>1, <2>1 DEF Kill
  <2>2. CASE Start
    BY <2>2, PhasePools
  <2>3. CASE DbUp \/ DbDown \/ \E c \in Contents \cup {NoFile, BadFile} : EditFile(c)
    BY <1>2, <2>3 DEF DbUp, DbDown, EditFile
  <2> QED
    BY <1>6, <2>1, <2>2, <2>3 DEF Outside
<1> QED
  BY <1>2, <1>3, <1>4, <1>5, <1>6 DEF Next, vars, process

(* A process never has two pools, no caller uses one that is closed, and   *)
(* none is left open at the end of lifespan.                               *)
THEOREM OnePoolCorrect == Spec => []OnePool
<1>1. PoolInv => OnePool
  <2> SUFFICES ASSUME PoolInv PROVE OnePool
    OBVIOUS
  <2>1. Idle.at # "using" /\ Creating.at # "using" /\ Using(pool).pool = pool
    BY DEF Idle, Creating, Using
  <2>2. \A p, q \in pools : p = q
    BY DEF PoolInv, Phases, Before, NoPools, ThePool
  <2>3. ASSUME NEW c \in Callers, call[c].at = "using"
        PROVE  call[c].pool \in pools
    BY <2>1, <2>3 DEF PoolInv, Phases, Before, AllIdle, ThePool, Callers
  <2> QED
    BY <2>2, <2>3 DEF OnePool, PoolInv
<1> QED
  BY <1>1, InitPools, NextPools, PTL DEF Spec
-----------------------------------------------------------------------------
Read == {"seeding", "serving", "draining", "closing", "closed"}

(* Of the file this process read, the machines that are not pending have   *)
(* their rows; with the seeding done, none is pending.                     *)
SeedInv ==
  /\ phase \in Phases
  /\ phase \notin {"migrating", "exited"} => migrated
  /\ phase \notin Read => listed = NoFile
  /\ phase = "seeding" => listed \in Contents
  /\ phase \in Read /\ listed # NoFile =>
       \A m \in DOMAIN listed \ pending :
         m \in DOMAIN equipment /\ equipment[m] = listed[m]
  /\ phase \in Read \ {"seeding"} /\ listed # NoFile => pending = {}

LEMMA InitSeed == Init => SeedInv
BY DEF Init, SeedInv, Phases, Read

LEMMA ExitSeed == Exit => SeedInv'
BY DEF Exit, SeedInv, Phases, Read

(* The row of one machine is replaced, and no other row is touched.        *)
LEMMA SeedRowSeed ==
  ASSUME SeedInv, NEW m \in Machines, SeedRow(m)
  PROVE  SeedInv'
<1>1. /\ phase = "seeding"
      /\ UNCHANGED <<phase, listed, migrated>>
      /\ equipment' = Upserted(m)
      /\ pending' = pending \ {m}
  BY DEF SeedRow
<1>2. ASSUME NEW k \in DOMAIN listed \ pending', listed # NoFile
      PROVE  k \in DOMAIN equipment' /\ equipment'[k] = listed[k]
  <2>1. CASE k = m
    BY <1>1, <2>1 DEF Upserted
  <2>2. CASE k # m
    <3>1. k \in DOMAIN equipment /\ equipment[k] = listed[k]
      BY <1>1, <1>2, <2>2 DEF SeedInv, Read
    <3> QED
      BY <1>1, <2>2, <3>1 DEF Upserted
  <2> QED
    BY <2>1, <2>2
<1> QED
  BY <1>1, <1>2 DEF SeedInv, Read

LEMMA NextSeed == SeedInv /\ [Next]_vars => SeedInv'
<1> SUFFICES ASSUME SeedInv, [Next]_vars PROVE SeedInv'
  OBVIOUS
<1>1. CASE Exit
  BY <1>1, ExitSeed
<1>2. CASE UNCHANGED <<phase, listed, pending, migrated, equipment>>
  BY <1>2 DEF SeedInv
<1>3. CASE Starting
  <2>1. CASE MigrateFails \/ ParseFails \/ SeedFails
    BY <1>1, <2>1 DEF MigrateFails, ParseFails, SeedFails
  <2>2. CASE Migrate
    BY <2>2 DEF Migrate, SeedInv, Phases, Read
  <2>3. CASE LifespanOpens
    BY <1>2, <2>3 DEF LifespanOpens, database
  <2>4. CASE Parse
    BY <2>4 DEF Parse, database, SeedInv, Phases, Read
  <2>5. CASE ParseFindsNoFile
    BY <2>5 DEF ParseFindsNoFile, database, SeedInv, Phases, Read
  <2>6. CASE SeedDone
    BY <2>6 DEF SeedDone, database, SeedInv, Phases, Read
  <2> QED
    BY <1>3, <2>1, <2>2, <2>3, <2>4, <2>5, <2>6, SeedRowSeed DEF Starting
<1>4. CASE Creation
  BY <1>1, <1>2, <1>4 DEF Creation, PoolCreated, CreateFails, database
<1>5. CASE Serving
  <2>1. CASE Shutdown \/ BeginClose \/ ClosePool
    BY <2>1 DEF Shutdown, BeginClose, ClosePool, database, SeedInv, Phases, Read
  <2> QED
    BY <1>1, <1>2, <1>5, <2>1
       DEF Serving, RequestStarts, RequestEnds, CloseFails, Stop, database
<1>6. CASE Outside
  <2>1. CASE Start
    BY <2>1 DEF Start, database, SeedInv, Phases, Read
  <2> QED
    BY <1>1, <1>2, <1>6, <2>1
       DEF Outside, Kill, DbUp, DbDown, EditFile, database, process
<1> QED
  BY <1>2, <1>3, <1>4, <1>5, <1>6 DEF Next, vars, process, database

(* While the API serves, every machine of the file it read has the row the *)
(* file gives it, after any number of edits, failed seedings and restarts. *)
THEOREM SeededCorrect == Spec => []ServingIsSeeded
<1>1. SeedInv => ServingIsSeeded
  BY DEF SeedInv, ServingIsSeeded, Phases, Read
<1> QED
  BY <1>1, InitSeed, NextSeed, PTL DEF Spec
-----------------------------------------------------------------------------
(* The variables PoolInv leaves out; what is still to insert is listed.    *)
DataInv ==
  /\ db \in BOOLEAN
  /\ migrated \in BOOLEAN
  /\ equipment \in Contents
  /\ file \in Contents \cup {NoFile, BadFile}
  /\ listed \in Contents \cup {NoFile}
  /\ pending \in SUBSET Machines
  /\ phase = "seeding" => listed \in Contents /\ pending \subseteq DOMAIN listed
  /\ edits \in 0..MaxEdits
  /\ outages \in 0..MaxOutages
  /\ kills \in 0..MaxKills
  /\ starts \in 1..MaxStarts

(* A file names machines and gives each a version. *)
LEMMA ContentsMembers ==
  /\ \A f \in Contents : /\ DOMAIN f \subseteq Machines
                         /\ f \in [DOMAIN f -> 1..MaxVersion]
  /\ \A ms \in SUBSET Machines : [ms -> 1..MaxVersion] \subseteq Contents
BY DEF Contents

LEMMA InitData == Init => DataInv
<1> SUFFICES ASSUME Init PROVE DataInv
  OBVIOUS
<1>1. equipment \in Contents
  BY ContentsMembers DEF Init
<1>2. /\ 0 \in 0..MaxEdits /\ 0 \in 0..MaxOutages /\ 0 \in 0..MaxKills
      /\ 1 \in 1..MaxStarts
  BY ApiStartupAssumption
<1> QED
  BY <1>1, <1>2 DEF Init, DataInv

LEMMA SeedRowData ==
  ASSUME DataInv, NEW m \in Machines, SeedRow(m)
  PROVE  DataInv'
<1>1. /\ phase = "seeding" /\ m \in pending
      /\ equipment' = Upserted(m)
      /\ pending' = pending \ {m}
      /\ UNCHANGED <<db, migrated, file, phase, listed, counters>>
  BY DEF SeedRow
<1>2. listed[m] \in 1..MaxVersion
  BY <1>1, ContentsMembers DEF DataInv
<1>3. /\ DOMAIN equipment \subseteq Machines
      /\ equipment \in [DOMAIN equipment -> 1..MaxVersion]
  BY ContentsMembers DEF DataInv
<1>4. equipment' \in [DOMAIN equipment \cup {m} -> 1..MaxVersion]
  BY <1>1, <1>2, <1>3 DEF Upserted
<1>5. equipment' \in Contents
  BY <1>3, <1>4, ContentsMembers
<1> QED
  BY <1>1, <1>5 DEF DataInv, counters

(* The counters stay below the bounds that guard them. *)
LEMMA OutsideData ==
  ASSUME DataInv, Outside
  PROVE  DataInv'
<1>1. /\ MaxEdits \in Nat /\ MaxOutages \in Nat /\ MaxKills \in Nat
      /\ MaxStarts \in Nat
  BY ApiStartupAssumption
<1>2. CASE Kill
  BY <1>1, <1>2 DEF Kill, Exit, DataInv, database
<1>3. CASE Start
  BY <1>1, <1>3 DEF Start, DataInv, database
<1>4. CASE DbUp \/ DbDown
  <2>1. outages' \in 0..MaxOutages
    BY <1>1, <1>4 DEF DbUp, DbDown, DataInv, counters
  <2>2. db' \in BOOLEAN
    BY <1>4 DEF DbUp, DbDown
  <2> QED
    BY <1>4, <2>1, <2>2 DEF DbUp, DbDown, DataInv, process, counters
<1>5. CASE \E c \in Contents \cup {NoFile, BadFile} : EditFile(c)
  BY <1>1, <1>5 DEF EditFile, DataInv, process, database
<1> QED
  BY <1>2, <1>3, <1>4, <1>5 DEF Outside

LEMMA NextData == DataInv /\ [Next]_vars => DataInv'
<1> SUFFICES ASSUME DataInv, [Next]_vars PROVE DataInv'
  OBVIOUS
<1>1. CASE Exit /\ UNCHANGED <<database, file, counters>>
  BY <1>1 DEF Exit, DataInv, database, counters
<1>2. CASE UNCHANGED <<database, file, listed, pending, counters>>
           /\ phase' \in {phase, "opening", "serving", "draining", "closing",
                          "closed"}
  BY <1>2 DEF DataInv, database, counters
<1>3. CASE Starting
  <2>1. CASE Migrate
    BY <2>1 DEF Migrate, DataInv, counters
  <2>2. CASE Parse
    BY <2>2, ContentsMembers DEF Parse, DataInv, database, counters
  <2>3. CASE MigrateFails \/ ParseFails \/ SeedFails
    BY <1>1, <2>3 DEF MigrateFails, ParseFails, SeedFails
  <2>4. CASE LifespanOpens \/ ParseFindsNoFile \/ SeedDone
    BY <1>2, <2>4 DEF LifespanOpens, ParseFindsNoFile, SeedDone
  <2> QED
    BY <1>3, <2>1, <2>2, <2>3, <2>4, SeedRowData DEF Starting
<1>4. CASE Creation
  BY <1>1, <1>2, <1>4 DEF Creation, PoolCreated, CreateFails
<1>5. CASE Serving
  <2>1. CASE CloseFails \/ Stop
    BY <1>1, <2>1 DEF CloseFails, Stop
  <2> QED
    BY <1>2, <1>5, <2>1
    DEF Serving, RequestStarts, RequestEnds, Shutdown, BeginClose, ClosePool
<1>6. CASE Outside
  BY <1>6, OutsideData
<1>7. CASE UNCHANGED vars
  BY <1>2, <1>7 DEF vars, process
<1> QED
  BY <1>3, <1>4, <1>5, <1>6, <1>7 DEF Next

(* Every variable of the API process keeps its type, and _pool never names *)
(* a pool that is closed.                                                  *)
THEOREM StartupTypeCorrect == Spec => []TypeOK
<1>1. PoolInv /\ DataInv => TypeOK
  <2> SUFFICES ASSUME PoolInv, DataInv PROVE TypeOK
    OBVIOUS
  <2>1. pool \in pools \cup {NoPool} /\ pools \in SUBSET (1..made)
    BY DEF PoolInv, Phases, Before, NoPools, ThePool
  <2> QED
    BY <2>1 DEF PoolInv, DataInv, TypeOK
<1> QED
  BY <1>1, InitPools, NextPools, InitData, NextData, PTL DEF Spec
=============================================================================
