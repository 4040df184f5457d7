------------------------------ MODULE Pipeline ------------------------------
(***************************************************************************)
(* Simulator and ingest together: the subscription of                      *)
(* ingest/opcua_client.py carries changes of the simulator's nodes to      *)
(* _SubHandler, which keeps an EquipmentState per machine and calls        *)
(* on_update of ingest/main.py after every single change it is told of.    *)
(*                                                                         *)
(* The OPC UA library is external: a write that changes a node's value     *)
(* queues a notification, a publish response carries all that is queued,   *)
(* and its notifications are handled one after the other, those of a node  *)
(* in order, before the client's loop does anything else.  A session can   *)
(* end without a word.                                                     *)
(*                                                                         *)
(* Attempts to connect are numbered.  A feed is an attempt whose monitored *)
(* items exist at the server: it writes to the one state_store, also when  *)
(* the attempt has failed, for nobody disconnects its client.              *)
(***************************************************************************)
EXTENDS Simulator

CONSTANTS
  MaxWindow,         \* bound on the changes of a node between two publishes
  MaxAttempts,       \* bound on the attempts to connect
  MaxIngestRestarts  \* bound on the restarts of ingest

ASSUME PipelineAssumption ==
  /\ {MaxWindow, MaxAttempts} \subseteq Nat \ {0}
  /\ MaxIngestRestarts \in Nat

VARIABLES
  attempt,     \* the attempt under way, or the one that succeeded
  client,      \* the attempt: "connecting", "monitored", "active"
  feeds,       \* the attempts whose monitored items exist
  lost,        \* history: a session of this run has ended by itself
  window,      \* window[a][m][f]: notifications waiting for the next publish
  inbox,       \* inbox[m][f]: of the response being handled, those to come
  store,       \* state_store[m]: the EquipmentState of the machine
  lastUnit,    \* last_unit[m]: unit and time, valid is FALSE for no entry
  ingestRuns,  \* restarts of ingest so far
  rows         \* the samples taken: [machine, batch, unit, gap]; history:
               \* gap, a session had ended in this run

sessionVars == <<attempt, client, feeds, lost>>
ingestVars  == <<sessionVars, window, inbox, store, lastUnit, ingestRuns, rows>>

vars == <<simVars, ingestVars>>

FieldNames == {Fields[i] : i \in 1..Len(Fields)}

Attempts == 1..MaxAttempts

NoNotifications == [m \in Machines |-> [f \in FieldNames |-> <<>>]]

Handling == inbox # NoNotifications

(* EquipmentState(equipment_id): every field None. *)
NoState ==
  [Status |-> "none", FaultCode |-> FALSE, CurrentBatchId |-> NoId,
   CurrentUnitId |-> NoId, Metric |-> "none"]

NoEntry == [valid |-> FALSE, unit |-> NoId, time |-> 0]

Init ==
  /\ SimInit
  /\ attempt = 1
  /\ client = "connecting"
  /\ feeds = {}
  /\ lost = FALSE
  /\ window = [a \in Attempts |-> NoNotifications]
  /\ inbox = NoNotifications
  /\ store = [m \in Machines |-> NoState]
  /\ lastUnit = [m \in Machines |-> NoEntry]
  /\ ingestRuns = 0
  /\ rows = {}
-----------------------------------------------------------------------------
(* connect_and_subscribe, up to the server's part of subscribe_data_change: *)
(* the current value of every node is queued.                              *)
ServerMonitors ==
  /\ client = "connecting"
  /\ client' = "monitored"
  /\ feeds' = feeds \cup {attempt}
  /\ window' = [window EXCEPT ![attempt] =
       [m \in Machines |-> [f \in FieldNames |-> <<node[m][f]>>]]]
  /\ UNCHANGED <<simVars, attempt, lost, inbox, store, lastUnit, ingestRuns,
                 rows>>

(* It returns, and the gauge is set; the client is not looked at again. *)
Connected ==
  /\ client = "monitored"
  /\ attempt \in feeds
  /\ client' = "active"
  /\ UNCHANGED <<simVars, attempt, feeds, lost, window, inbox, store, lastUnit,
                 ingestRuns, rows>>

(* It raises, before or after the server's part, and is tried again; the   *)
(* client of the attempt is dropped as it is.                              *)
ConnectFails ==
  /\ client # "active"
  /\ client' = "connecting"
  /\ attempt < MaxAttempts
  /\ attempt' = attempt + 1
  /\ UNCHANGED <<simVars, feeds, lost, window, inbox, store, lastUnit,
                 ingestRuns, rows>>

(* A session ends (one a run): the server or the network is gone for a     *)
(* moment.  No code of ingest notices.                                     *)
SessionLost(a) ==
  /\ ~Handling
  /\ a \in feeds
  /\ ~lost
  /\ lost' = TRUE
  /\ feeds' = feeds \ {a}
  /\ window' = [window EXCEPT ![a] = NoNotifications]
  /\ UNCHANGED <<simVars, attempt, client, inbox, store, lastUnit, ingestRuns,
                 rows>>

(* A publish response reaches the client. *)
Publish(a) ==
  /\ ~Handling
  /\ window[a] # NoNotifications
  /\ inbox' = window[a]
  /\ window' = [window EXCEPT ![a] = NoNotifications]
  /\ UNCHANGED <<simVars, sessionVars, store, lastUnit, ingestRuns, rows>>

(* Mutants of Changed: changes before the first metric are passed over;    *)
(* the field is not looked for under the name the simulator gives it.      *)
ChangedWithMetric(m, f, value) ==
  IF f = "FaultCode" \/ (f # "Metric" /\ store[m].Metric = "none") THEN store
  ELSE [store EXCEPT ![m][f] = value]

ChangedButUnit(m, f, value) ==
  IF f \in {"FaultCode", "CurrentUnitId"} THEN store
  ELSE [store EXCEPT ![m][f] = value]

(* datachange_notification sets the field; FaultCode is not kept. *)
Changed(m, f, value) ==
  IF f = "FaultCode" THEN store ELSE [store EXCEPT ![m][f] = value]

(* Mutant of UnitEntry: the entry of the first unit is kept. *)
UnitEntryKept(m, st) ==
  IF lastUnit[m].valid THEN [lastUnit[m] EXCEPT !.unit = st.CurrentUnitId]
  ELSE [valid |-> TRUE, unit |-> st.CurrentUnitId, time |-> now]

(* last_unit[equipment_id] after an update. *)
UnitEntry(m, st) ==
  IF lastUnit[m].valid /\ lastUnit[m].unit = st.CurrentUnitId THEN lastUnit[m]
  ELSE [valid |-> TRUE, unit |-> st.CurrentUnitId, time |-> now]

(* on_update: samples are taken from the store as it is now, provided some *)
(* metric is known.                                                        *)
OnUpdate(m, st) ==
  IF st.Metric = "none" THEN UNCHANGED <<lastUnit, rows>>
  ELSE /\ lastUnit' = [lastUnit EXCEPT ![m] = UnitEntry(m, st)]
       /\ rows' = rows \cup {[machine |-> m, batch |-> st.CurrentBatchId,
                              unit |-> st.CurrentUnitId, gap |-> lost]}

(* One call of datachange_notification. *)
Deliver(m, f) ==
  /\ inbox[m][f] # <<>>
  /\ store' = Changed(m, f, Head(inbox[m][f]))
  /\ OnUpdate(m, store'[m])
  /\ inbox' = [inbox EXCEPT ![m][f] = Tail(@)]
  /\ UNCHANGED <<simVars, sessionVars, window, ingestRuns>>

(* Ingest stops and starts again: its dictionaries are empty and all its   *)
(* sessions are gone.                                                      *)
IngestRestart ==
  /\ ingestRuns < MaxIngestRestarts
  /\ attempt < MaxAttempts
  /\ ingestRuns' = ingestRuns + 1
  /\ attempt' = attempt + 1
  /\ client' = "connecting"
  /\ feeds' = {}
  /\ lost' = FALSE
  /\ window' = [a \in Attempts |-> NoNotifications]
  /\ inbox' = NoNotifications
  /\ store' = [m \in Machines |-> NoState]
  /\ lastUnit' = [m \in Machines |-> NoEntry]
  /\ UNCHANGED <<simVars, rows>>

(* Units take far longer than a tick and a publish interval                *)
(* (unit_duration_seconds against 1 s each): a tick ends a unit in time,   *)
(* and no unit ends while its own start is still on its way to the store.  *)
UnitsAreLong ==
  now' # now =>
    \A m \in Machines, f \in {"CurrentBatchId", "CurrentUnitId"} :
      LET age == now' - tracker[m].startedAt
      IN  /\ age <= UnitDuration
          /\ age = UnitDuration =>
               /\ \A a \in feeds : window[a][m][f] = <<>>
               /\ node[m] = Current(m)

(* Bound: the loop sleeps for a clock unit between ticks that succeed. *)
OneTickPerUnit ==
  at = 0 /\ at' # 0 => now > tickTime \/ \E m \in Machines : behind[m]

(* A step of the simulator; writes that change a value are queued. *)
SimStep ==
  /\ ~Handling
  /\ SimNext
  /\ restarts' = restarts
  /\ UnitsAreLong
  /\ OneTickPerUnit
  /\ window' = [a \in Attempts |-> [m \in Machines |-> [f \in FieldNames |->
       IF a \in feeds /\ node'[m][f] # node[m][f]
       THEN Append(window[a][m][f], node'[m][f]) ELSE window[a][m][f]]]]
  /\ \A a \in Attempts, m \in Machines, f \in FieldNames :
       Len(window'[a][m][f]) <= MaxWindow
  /\ UNCHANGED <<sessionVars, inbox, store, lastUnit, ingestRuns, rows>>

Next ==
  \/ SimStep
  \/ ServerMonitors
  \/ Connected
  \/ ConnectFails
  \/ \E a \in Attempts :
       \/ SessionLost(a)
       \/ Publish(a)
  \/ \E m \in Machines, f \in FieldNames : Deliver(m, f)
  \/ IngestRestart

Spec == Init /\ [][Next]_vars

(* The server publishes, the client handles what it receives, and an       *)
(* attempt to connect ends; the last one the bound allows succeeds.        *)
FairSpec ==
  /\ Spec
  /\ WF_vars(ServerMonitors \/ Connected)
  /\ \A a \in Attempts : WF_vars(Publish(a))
  /\ WF_vars(\E m \in Machines, f \in FieldNames : Deliver(m, f))
-----------------------------------------------------------------------------
(* Every variable has its type; FaultCode is never kept by the store. *)
TypeOK ==
  /\ SimTypeOK
  /\ attempt \in Attempts
  /\ client \in {"connecting", "monitored", "active"}
  /\ feeds \subseteq 1..attempt
  /\ lost \in BOOLEAN
  /\ store \in [Machines -> [Status : States \cup {"none"},
                             FaultCode : {FALSE},
                             CurrentBatchId : Ids, CurrentUnitId : Ids,
                             Metric : {"none", "zero", "idle", "running",
                                       "fault"}]]
  /\ lastUnit \in [Machines -> [valid : BOOLEAN, unit : Ids, time : Nat]]
  /\ rows \subseteq [machine : Machines, batch : Ids, unit : Ids, gap : BOOLEAN]

(* No feed loses anything: what is under way in it ends in the node's      *)
(* value.  So with nothing under way, and however many feeds of failed     *)
(* attempts write to it, the store shows the machine's nodes, unless a     *)
(* session has ended: one of two feeds may have left an old value behind.  *)
StoreFollowsNodes ==
  ~Handling => \A m \in Machines, f \in FieldNames \ {"FaultCode"} :
    LET busy == {a \in feeds : window[a][m][f] # <<>>}
    IN  /\ \A a \in busy :
             window[a][m][f][Len(window[a][m][f])] = node[m][f]
        /\ feeds # {} /\ ~lost /\ busy = {} => store[m][f] = node[m][f]

BatchOf(unitSeq) == (unitSeq - 1) \div UnitsPerBatch + 1

(* A recorded sample that names a unit and a batch names a unit that the   *)
(* machine had, and the batch of that unit, of the one before or of the    *)
(* one after: it is torn only where one batch follows another.             *)
(* (After a gap it may be off by more: a failed attempt leaves what its    *)
(* feed wrote in the store, and the next one replaces it field by field.)  *)
TornOnlyAtRotation ==
  \A r \in rows :
    ~r.gap /\ NoId \notin {r.unit, r.batch} =>
      LET n == r.unit.seq
          units == 1..Len(made[r.machine])
      IN  /\ n \in units
          /\ made[r.machine][n].unit = r.unit
          /\ \E i \in {n - 1, n, n + 1} \cap units :
               /\ r.batch = made[r.machine][i].batch
               /\ r.batch.seq = BatchOf(i)

(* unit_started_at is never earlier than the start of the unit it is       *)
(* served with: last_unit is renewed by the very update that shows a new   *)
(* unit.                                                                   *)
UnitStartNotEarly ==
  \A m \in Machines :
    lastUnit[m].valid /\ lastUnit[m].unit = tracker[m].unit =>
      lastUnit[m].time >= tracker[m].startedAt

(* Rotations reach the store: again and again ingest shows the units the   *)
(* nodes show, after failed attempts and a restart too, unless it has lost *)
(* a session.                                                              *)
RotationsArrive ==
  []<>(lost \/ \A m \in Machines :
                 store[m].CurrentUnitId = node[m].CurrentUnitId)

(* get_batch_timeline: per machine, the units found under the batch. *)
Timeline(batch) ==
  LET found == {r \in rows : r.batch = batch}
  IN  {[machine |-> m,
        units |-> {r.unit : r \in {q \in found : q.machine = m}} \ {NoId}] :
         m \in {r.machine : r \in found}}

(* README and routes/batches.py: the telemetry of a batch lists the units  *)
(* processed in it, so every unit listed belongs to the batch.             *)
UnitsBelongToBatch ==
  \A batch \in {r.batch : r \in rows} \ {NoId} :
    \A e \in Timeline(batch) : \A u \in e.units : BatchOf(u.seq) = batch.seq

(* metrics.py: opcua_subscription_active tells whether the subscription is *)
(* currently active.                                                       *)
GaugeTellsActive == client = "active" => feeds # {}
=============================================================================
