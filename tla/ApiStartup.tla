------------------------------ MODULE ApiStartup ------------------------------
(***************************************************************************)
(* The life of the API process: alembic upgrade head, then uvicorn with    *)
(* lifespan (api/main.py), which opens the pool and seeds the equipment    *)
(* table from equipment.yaml, then requests that call get_pool, then the   *)
(* shutdown.  get_pool tests _pool and then awaits create_pool.            *)
(*                                                                         *)
(* The row of a machine is a version number: name, type, location and      *)
(* metadata are replaced together.                                         *)
(***************************************************************************)
EXTENDS Naturals

CONSTANTS
  Machines,     \* equipment ids
  Requests,     \* requests that can be under way at once
  NoFile,       \* equipment.yaml is not there
  BadFile,      \* equipment.yaml is there and does not parse
  MaxVersion,   \* bound on the versions of a machine's entry
  Refused,      \* the versions the database refuses or json.dumps cannot
                \* encode, such as a null name or a date in the metadata
  MaxEdits,     \* bound on the edits of the file
  MaxOutages,   \* bound on the stops of the database
  MaxKills,     \* bound on the kills of the API process
  MaxStarts     \* bound on the starts of the API container

ASSUME ApiStartupAssumption ==
  /\ NoFile # BadFile
  /\ MaxVersion \in Nat
  /\ Refused \subseteq 1..MaxVersion
  /\ MaxEdits \in Nat
  /\ MaxOutages \in Nat
  /\ MaxKills \in Nat
  /\ MaxStarts \in Nat \ {0}

NoPool == 0   \* _pool is None

Lifespan == "lifespan"

Callers == Requests \cup {Lifespan}

ASSUME CallersAssumption == Lifespan \notin Requests

Contents == UNION {[ms -> 1..MaxVersion] : ms \in SUBSET Machines}

VARIABLES
  db,         \* the database accepts connections
  migrated,   \* the schema is there
  equipment,  \* the table: the version of every machine that has a row
  file,       \* equipment.yaml
  phase,      \* how far the API container is
  listed,     \* what parse_equipment_yaml returned in this process
  pending,    \* the rows of it that are not inserted yet
  pool,       \* _pool
  pools,      \* the pools of this process that are open
  made,       \* the pools this process has made
  call,       \* call[c]: the call of get_pool of c, and the pool it uses
  edits, outages, kills, starts   \* counters for the bounds

database == <<db, migrated, equipment>>
process == <<phase, listed, pending, pool, pools, made, call>>
counters == <<edits, outages, kills, starts>>
vars == <<database, file, process, counters>>

Phases == {"migrating", "opening", "seeding", "serving", "draining",
           "closing", "closed", "exited"}

Idle == [at |-> "idle", pool |-> NoPool]
Creating == [at |-> "creating", pool |-> NoPool]
Using(p) == [at |-> "using", pool |-> p]
-----------------------------------------------------------------------------
(* docker compose up on empty volumes: the containers start together. *)
Init ==
  /\ db = FALSE
  /\ migrated = FALSE
  /\ equipment \in [{} -> 1..MaxVersion]
  /\ file \in Contents \cup {NoFile, BadFile}
  /\ phase = "migrating"
  /\ listed = NoFile
  /\ pending = {}
  /\ pool = NoPool
  /\ pools = {}
  /\ made = 0
  /\ call = [c \in Callers |-> Idle]
  /\ edits = 0
  /\ outages = 0
  /\ kills = 0
  /\ starts = 1

(* The process is gone and its module variables with it.  No container has *)
(* a restart policy.                                                       *)
Exit ==
  /\ phase' = "exited"
  /\ listed' = NoFile
  /\ pending' = {}
  /\ pool' = NoPool
  /\ pools' = {}
  /\ made' = 0
  /\ call' = [c \in Callers |-> Idle]
-----------------------------------------------------------------------------
(* alembic upgrade head: one transaction, and no effect once applied. *)
Migrate ==
  /\ phase = "migrating"
  /\ db
  /\ migrated' = TRUE
  /\ phase' = "opening"
  /\ UNCHANGED <<db, equipment, file, listed, pending, pool, pools, made, call,
                 counters>>

(* alembic finds no database; && skips uvicorn and the container ends. *)
MigrateFails ==
  /\ phase = "migrating"
  /\ ~db
  /\ Exit
  /\ UNCHANGED <<database, file, counters>>

(* get_pool up to its await: return _pool, or begin create_pool. *)
GetPool(c) ==
  /\ call[c] = Idle
  /\ call' = [call EXCEPT ![c] = IF pool = NoPool THEN Creating
                                ELSE Using(pool)]

(* create_pool returns: the global is set, whatever it is by now, and the  *)
(* caller gets it.                                                         *)
PoolCreated(c) ==
  /\ call[c] = Creating
  /\ db
  /\ made' = made + 1
  /\ pool' = made + 1
  /\ pools' = pools \cup {made + 1}
  /\ call' = [call EXCEPT ![c] = Using(made + 1)]
  /\ UNCHANGED <<database, file, phase, listed, pending, counters>>

(* create_pool raises.  A request ends with an error; in lifespan uvicorn  *)
(* gives up the start and exits.                                           *)
CreateFails(c) ==
  /\ call[c] = Creating
  /\ ~db
  /\ IF c = Lifespan THEN Exit
     ELSE /\ call' = [call EXCEPT ![c] = Idle]
          /\ UNCHANGED <<phase, listed, pending, pool, pools, made>>
  /\ UNCHANGED <<database, file, counters>>

(* Mutant of LifespanOpens: the pool is left to the first request. *)
LifespanServes ==
  /\ phase = "opening"
  /\ phase' = "serving"
  /\ UNCHANGED <<database, file, listed, pending, pool, pools, made, call,
                 counters>>

(* lifespan calls get_pool. *)
LifespanOpens ==
  /\ phase = "opening"
  /\ GetPool(Lifespan)
  /\ UNCHANGED <<database, file, phase, listed, pending, pool, pools, made,
                 counters>>

(* seed_equipment parses the file before its first await. *)
Parse ==
  /\ phase = "opening"
  /\ call[Lifespan].at = "using"
  /\ file \in Contents
  /\ listed' = file
  /\ pending' = DOMAIN file
  /\ phase' = "seeding"
  /\ UNCHANGED <<database, file, pool, pools, made, call, counters>>

(* FileNotFoundError is logged and the API serves unseeded. *)
ParseFindsNoFile ==
  /\ phase = "opening"
  /\ call[Lifespan].at = "using"
  /\ file = NoFile
  /\ phase' = "serving"
  /\ call' = [call EXCEPT ![Lifespan] = Idle]
  /\ UNCHANGED <<database, file, listed, pending, pool, pools, made, counters>>

(* Any other exception of the parser ends the start. *)
ParseFails ==
  /\ phase = "opening"
  /\ call[Lifespan].at = "using"
  /\ file = BadFile
  /\ Exit
  /\ UNCHANGED <<database, file, counters>>

(* Mutant of Upserted: ON CONFLICT (id) DO NOTHING. *)
InsertedOnce(m) ==
  [k \in DOMAIN equipment \cup {m} |->
     IF k \in DOMAIN equipment THEN equipment[k] ELSE listed[k]]

(* INSERT ... ON CONFLICT (id) DO UPDATE. *)
Upserted(m) ==
  [k \in DOMAIN equipment \cup {m} |->
     IF k = m THEN listed[m] ELSE equipment[k]]

(* One execute of the loop, a transaction of its own; the order of the     *)
(* file does not matter.                                                   *)
SeedRow(m) ==
  /\ phase = "seeding"
  /\ m \in pending
  /\ listed[m] \notin Refused
  /\ db
  /\ equipment' = Upserted(m)
  /\ pending' = pending \ {m}
  /\ UNCHANGED <<db, migrated, file, phase, listed, pool, pools, made, call,
                 counters>>

(* acquire or execute raises, the database having stopped since the pool   *)
(* was made, or a row is refused; the rows inserted so far stay.           *)
SeedFails ==
  /\ phase = "seeding"
  /\ outages > 0 \/ \E m \in pending : listed[m] \in Refused
  /\ Exit
  /\ UNCHANGED <<database, file, counters>>

SeedDone ==
  /\ phase = "seeding"
  /\ pending = {}
  /\ phase' = "serving"
  /\ call' = [call EXCEPT ![Lifespan] = Idle]
  /\ UNCHANGED <<database, file, listed, pending, pool, pools, made, counters>>
-----------------------------------------------------------------------------
(* A handler of any endpoint that reads the database. *)
RequestStarts(r) ==
  /\ phase = "serving"
  /\ GetPool(r)
  /\ UNCHANGED <<database, file, phase, listed, pending, pool, pools, made,
                 counters>>

(* The handler has released its connection, with an answer or an error. *)
RequestEnds(r) ==
  /\ call[r].at = "using"
  /\ call' = [call EXCEPT ![r] = Idle]
  /\ UNCHANGED <<database, file, phase, listed, pending, pool, pools, made,
                 counters>>

(* uvicorn is told to stop: it takes no further request. *)
Shutdown ==
  /\ phase = "serving"
  /\ phase' = "draining"
  /\ UNCHANGED <<database, file, listed, pending, pool, pools, made, call,
                 counters>>

(* When the requests are over lifespan goes on after its yield and awaits  *)
(* _pool.close().                                                          *)
BeginClose ==
  /\ phase = "draining"
  /\ \A r \in Requests : call[r] = Idle
  /\ phase' = "closing"
  /\ UNCHANGED <<database, file, listed, pending, pool, pools, made, call,
                 counters>>

(* Mutant of ClosePool: _pool is not reset. *)
ClosePoolKeepsGlobal ==
  /\ phase = "closing"
  /\ phase' = "closed"
  /\ pools' = pools \ {pool}
  /\ UNCHANGED <<database, file, listed, pending, pool, made, call, counters>>

(* close returns. *)
ClosePool ==
  /\ phase = "closing"
  /\ phase' = "closed"
  /\ pools' = pools \ {pool}
  /\ pool' = NoPool
  /\ UNCHANGED <<database, file, listed, pending, made, call, counters>>

(* close raises, a connection having been lost: the end of lifespan fails  *)
(* and the process ends without close_client.                              *)
CloseFails ==
  /\ phase = "closing"
  /\ outages > 0
  /\ Exit
  /\ UNCHANGED <<database, file, counters>>

(* close_client, and the process ends. *)
Stop ==
  /\ phase = "closed"
  /\ Exit
  /\ UNCHANGED <<database, file, counters>>
-----------------------------------------------------------------------------
(* The process is killed. *)
Kill ==
  /\ phase # "exited"
  /\ kills < MaxKills
  /\ kills' = kills + 1
  /\ Exit
  /\ UNCHANGED <<database, file, edits, outages, starts>>

(* The operator starts the container again. *)
Start ==
  /\ phase = "exited"
  /\ starts < MaxStarts
  /\ starts' = starts + 1
  /\ phase' = "migrating"
  /\ UNCHANGED <<database, file, listed, pending, pool, pools, made, call,
                 edits, outages, kills>>

EditFile(c) ==
  /\ edits < MaxEdits
  /\ c # file
  /\ edits' = edits + 1
  /\ file' = c
  /\ UNCHANGED <<database, process, outages, kills, starts>>

DbUp ==
  /\ ~db
  /\ db' = TRUE
  /\ UNCHANGED <<migrated, equipment, file, process, counters>>

DbDown ==
  /\ db
  /\ outages < MaxOutages
  /\ outages' = outages + 1
  /\ db' = FALSE
  /\ UNCHANGED <<migrated, equipment, file, process, edits, kills, starts>>

Starting ==
  \/ Migrate \/ MigrateFails
  \/ LifespanOpens
  \/ Parse \/ ParseFindsNoFile \/ ParseFails
  \/ \E m \in Machines : SeedRow(m)
  \/ SeedFails \/ SeedDone

Creation == \E c \in Callers : PoolCreated(c) \/ CreateFails(c)

Serving ==
  \/ \E r \in Requests : RequestStarts(r) \/ RequestEnds(r)
  \/ Shutdown \/ BeginClose \/ ClosePool \/ CloseFails \/ Stop

Outside ==
  \/ Kill \/ Start \/ DbUp \/ DbDown
  \/ \E c \in Contents \cup {NoFile, BadFile} : EditFile(c)

Next == Starting \/ Creation \/ Serving \/ Outside

Spec == Init /\ [][Next]_vars

(* The container goes through its start, create_pool returns or raises,    *)
(* and the database comes up.                                              *)
FairSpec == Spec /\ WF_vars(Starting) /\ WF_vars(Creation) /\ WF_vars(DbUp)
-----------------------------------------------------------------------------
(* Types; _pool never names a pool that is closed. *)
TypeOK ==
  /\ db \in BOOLEAN
  /\ migrated \in BOOLEAN
  /\ equipment \in Contents
  /\ file \in Contents \cup {NoFile, BadFile}
  /\ phase \in Phases
  /\ listed \in Contents \cup {NoFile}
  /\ pending \in SUBSET Machines
  /\ pool \in pools \cup {NoPool}
  /\ pools \in SUBSET (1..made)
  /\ made \in Nat
  /\ call \in [Callers -> [at : {"idle", "creating", "using"}, pool : Nat]]
  /\ edits \in 0..MaxEdits
  /\ outages \in 0..MaxOutages
  /\ kills \in 0..MaxKills
  /\ starts \in 1..MaxStarts

(* get_pool could make a second pool while the first create_pool is        *)
(* awaited, and the first would never be closed.  It does not, as          *)
(* lifespan's call ends before a request begins: a process never has two   *)
(* pools, no handler uses one that is closed, and none is left open when   *)
(* lifespan is over.                                                       *)
OnePool ==
  /\ \A p, q \in pools : p = q
  /\ \A c \in Callers : call[c].at = "using" => call[c].pool \in pools
  /\ phase = "closed" => pools = {}

(* While the API serves, every machine of the file it read has the row the *)
(* file gives it, whatever rows earlier starts left, complete or not; so   *)
(* the foreign key refuses no sample of such a machine.                    *)
ServingIsSeeded ==
  phase \in {"serving", "draining", "closing", "closed"} /\ listed # NoFile =>
    /\ migrated
    /\ \A m \in DOMAIN listed :
         m \in DOMAIN equipment /\ equipment[m] = listed[m]

(* README.md, Quick Start: after docker compose up -d the page is served.  *)
(* Violated: alembic runs once, and exits if the database, started at the  *)
(* same moment, does not accept connections yet.                           *)
StackComesUp == file \in Contents => <>(phase = "serving")
=============================================================================
