# Formal model of eqpt-monitor

TLA+ modules for the telemetry platform in this repository (OPC UA simulator,
ingest service, Redis and TimescaleDB, FastAPI, React dashboard), the TLC
configurations that check them, and theorems checked by TLAPS. Paths below are
relative to `src/`.

* Check a module: `tlc -config IngestWriter.cfg MCIngestWriter`, and
  `tlc -config X.cfg X` for the others (a cfg with a longer name belongs to the
  module its name starts with).
* Check the proofs: `tlapm X.tla` for every module `*Proofs.tla` and
  `IngestRefinement.tla`.
* `PROJECT.json` lists runs, mutants, the map from definitions to code lines,
  findings, hazards and theorems.

## 1. The system

```
simulator --OPC UA--> ingest --asyncpg--> telemetry table --> /api/.../telemetry, /api/batches
                        |----PUBLISH----> Redis ----------> /ws/telemetry --> dashboard
                        `----HSET+EXPIRE-> Redis ----------> /api/equipment --> dashboard
```

| Part | State | Operations | What is hard | What makes it correct |
| --- | --- | --- | --- | --- |
| Machine (`state_machine.py`, `batch_tracker.py`, `equipment.py`) | state, fault code; batch, unit and position counters | tick, advance, sample | boundary of a batch, late ticks, change of day | fault code agrees with state; counters agree; unit ids unique, batches full |
| Simulator loop (`main.py`, `opcua_server.py`) | the machines, their OPC UA nodes | tick every machine in turn, one awaited write per node | a write fails half way; a reader between two writes; restart | nodes show one state between ticks; one machine's failure does not stop the others |
| OPC UA client (`opcua_client.py`, the start of `main.py`) | `state_store`, clients of failed attempts | connect, subscribe, retry; one notification at a time | fields of one tick arrive separately and in any order; subscriptions left behind; a session that ends unnoticed | the store ends at the nodes' values; torn samples only at a rotation; a unit never starts early |
| Ingest loop (`main.py`, `batch_buffer.py`, `db_writer.py`) | buffer, `last_unit`, the batch being written | on_update, poll, write, shutdown | samples during an awaited write, overflow, failed or doubtful commit, crash | nothing lost silently, order kept, nothing stuck |
| Redis publisher (`redis_publisher.py`) | two tasks per update, the hash | HSET then EXPIRE, PUBLISH | tasks unordered, failure between two commands, commands sent twice | every hash without TTL has a cause; freshness when tasks do not overlap |
| WebSocket session (`api/websocket.py`) | subscriptions, bounded queue, three tasks | subscribe, unsubscribe, forward, send, end | the tasks interleave; the queue is full; any task fails | order, no repetition, newest kept, drops counted, sessions end |
| Live view (`redis_publisher.py`, `routes/equipment.py`, `App.tsx`, `websocket.ts`) | tasks, hashes, list under way, cards, socket, back-off timer | publish, cache, look up, merge an event, reconnect, unmount | list, events and tasks race; reconnecting | cards catch up; one connection; connected in the end |
| API start, pools, seeding (`api/main.py`, `db.py`, `seed.py`, `alembic/env.py`) | pool singleton, equipment table | migrate, lifespan, get_pool, seed, close | check-then-await; failure half way; start order | one pool, never used after its close; every listed machine has its row while the API serves |
| History (`0001_initial_schema.py`, `query_router.py`, `routes/telemetry.py`) | rows, two continuous aggregates, their policies | commit, refresh, retain, query | late commits, outages, retention against refresh, unaligned ranges | aggregates complete and kept for ever; answers off by less than a bucket |
| Batch endpoint (`routes/batches.py`) | none | query | rows written between two notifications | in `Pipeline`: `Timeline` |
| Health, metrics, logging, React components, Grafana | none that matters | read and render | - | not modelled |

## 2. Modules

| Module | Models | Kind |
| --- | --- | --- |
| `BatchBuffer` | class BatchBuffer | operators on a record `[items, oldest]` |
| `IngestWriter` (EXTENDS BatchBuffer) | on_update's samples, poll loop, DbWriter, shutdown | state machine |
| `TelemetryLog` | the promise of the ingest writer, and of a WebSocket session | abstract specification |
| `MCIngestWriter` | the closed form `AddAll` against repeated `Add` (an ASSUME that TLC evaluates) | model-checking module |
| `HotCache` | update_hot_cache tasks and the hash of one machine | state machine |
| `Machine` | StateMachine, BatchTracker, the regime of sample | operators |
| `Simulator` (EXTENDS Machine) | build_server, the loop, tick_equipment | state machine |
| `Pipeline` (EXTENDS Simulator) | the simulator composed with the OPC UA client and on_update | composition |
| `WsSession` | ws_telemetry and its three tasks | state machine |
| `Dashboard` | the tasks of on_update, Redis, list_equipment, App and TelemetryWebSocket | composition |
| `History` | the telemetry table, its aggregates and policies, the history endpoint | state machine and operators |
| `ApiStartup` | the API container from alembic to close_client | state machine |
| `IngestWriterProofs`, `IngestRefinement`, `PipelineProofs` (simulator too), `HotCacheProofs`, `WsSessionProofs`, `DashboardProofs`, `HistoryProofs`, `ApiStartupProofs` | - | theorems |

Definitions called "Mutant of X" are not part of a model: each is X with a
plausible mistake, and `PROJECT.json` names the property that notices it.

### How state and actions correspond to the code

**IngestWriter.** `buf` is `buffer`, `inflight` the list that `write_batch` is
awaiting, `rows` the table, `known[e]` the number of entries of `st.metrics`.
asyncio runs a callback to its end, so `Update` (a whole on_update) and `Poll`
(should_flush and drain, up to the await) are one step each; between `Poll` and
`WriteCommitted`, `WriteFailed` or `Crash` any number of updates may happen. A
write that raises after the commit has the same effect as one that returns, since
the loop only logs. `log` and `fate` are history: every sample taken, and whether
it is pending, stored, ignored by ON CONFLICT, or lost by a failed write, an
overflow or a crash. The loop over `st.metrics` is written in closed form
(`AddAll`); the theorem `AddAllLoop` and TLC's `AddAllIsFold` show that it is what
the calls of `add` compute. Values, status, batch and unit of a sample are left
out: no property of the writer tells them apart.

**HotCache.** One machine (machines share no key). An update creates a task
("queued", `Queued`); `Hset` moves it on or fails it, with the effect at the server and
the answer to the client chosen independently, except that an answer implies
the effect; `Expire` likewise. A command without an answer may be sent again by
the redis client (`resends`). `Stored` merges fields as HSET does: a field that
is None is not written, and an existing key keeps its TTL. Redis expiry is
`Tick`. Metrics, status and batch behave like the unit and are left out. An
update may have any unit after any other, since the feed of a failed attempt can
put an old one back; `begins` is history, the updates after which a process of
ingest began.

**Machine, Simulator.** A fault code is a Boolean (which code is random); an id
is its date and its number. `Compute` is the part of tick_equipment before the
first await, `Write` one write_value; `Fields` gives their order, with one
metric for all. `WriteFails` is the exception that run() catches per machine.
The probabilities of a tick become a choice. `made` is history.

**Pipeline.** asyncua is external: a write that changes a value is queued
(`window[a]`) for every attempt `a` whose monitored items exist (`feeds`), a
publish response carries what is queued (`inbox`), its notifications are
handled to the end before the client's loop does anything else, those of one
node in order and those of different nodes in any order; new monitored items
start with the current values. `ServerMonitors`, `Connected` and
`ConnectFails` are connect_and_subscribe: a failed attempt leaves its client
as it is, so its feed goes on writing to the one `state_store`. After
`SessionLost` nothing happens in the code, and nothing in the model. `Deliver`
is one datachange_notification with the on_update it calls. Samples are kept as
the set of (machine, batch, unit) they record, and whether a session had ended.
`IngestRestart` empties what ingest keeps.

**WsSession.** The three tasks share `subscribed`, `pubsub` and `send_queue`. A
turn of the reader's loop sends at most one command (`Command`); Redis executes
commands later, in order (`Execute`). Pushed messages are numbered; 0 is the
confirmation of an unsubscribe, which matters because `pubsub.subscribed` stays
true until it is read. `sending` is the message of the send_text under way. A
request may name no machine at all, or be malformed: JSON that is not an object,
or whose ids are null, raises in the reader and ends it (`ReaderEnds`). Any task
may end (`ReaderEnds`, `ForwarderEnds`, `SenderEnds`), then `Cancel` and `Close`
are the rest of the handler. Automatic reconnection of a redis client is not
modelled: a lost connection raises.

**Dashboard.** What is known of a machine is the number of its update. `Update`
is on_update's two create_task calls; `Published` and `Cached` are the tasks, in
any order, and `TaskFails` an exception they log. `LookUp` is one turn of
list_equipment's loop, which may find the hash or fail to read it; `ListDone`
and `ListFails` are the two ends of fetchEquipment. `session` is subscribe_all
before and after the server executed it, `wire` the events on their way,
`socket = "open"` what the page shows as Live. `OnClose` covers onclose and the
onerror before it. `close()` leaves a pending timeout alone, as in the code.
A PUBLISH whose answer is lost may be sent again (`Published`, `resends`), like an
HSET. `reaching[e]` is history: the last event of `e` that Redis was given, whichever
update it is of, if it goes to this page and finds a card there; `updates` counts
the updates made. App merges the metrics of an event into those it has and never
changes `unit_started_at`; a card here is the update it was last changed by.

**History.** A sample is the clock unit it was taken in, and an aggregate the set
of samples its rows are computed from, so that "recomputed from rows that are
gone" is visible. Ingest stamps a sample (`Stamps`) and commits it up to
`MaxStall` later, also when the database has been down in between: the buffer of
ingest keeps it. `Refresh` replaces the buckets of the policy's window by what the
table holds now, `Retain` drops whole chunks, `DbDown` and `DbUp` are an outage.
`Valid`, `Selected` and `Answered` are validate_range, select_interval and the two
queries. `Tick` lets a job be as late as its schedule while the database is up.

**ApiStartup.** `phase` is how far the container is: alembic, lifespan's
`get_pool` ("opening"), `seed_equipment`, serving, uvicorn waiting for requests
("draining"), `_pool.close()` awaited ("closing") and done ("closed"). `call[c]`
is a call of `get_pool`, by lifespan or a request; `GetPool` is the part before
its await, `PoolCreated` and `CreateFails` the two ends of `create_pool`, so that
two callers could both find `_pool` empty. Each `SeedRow` is committed by itself.
`Refused` are the versions of an entry that the database or `json.dumps` refuses:
seeding such a row, or one after the database went away, ends the start
(`SeedFails`), as a close that raises ends the process (`CloseFails`). That
uvicorn serves after lifespan's start and closes after the last request is
external and assumed. Names and metadata of a machine are one version number.

## 3. Runs

On two workers; sizes are distinct states. No run takes more than two minutes or so.

| Run | Checks | Bounds | Size |
| --- | --- | --- | --- |
| `ingest_writer` | `TypeOK`, `BufferIsNewest`, `Accounted`, `OldestMatchesHead`, `DbKeepsFirst`, refinement `ImplementsLog`, liveness `EverySettled`; the assumption `AddAllIsFold` | 2 machines, 2 metrics, flush at 2, limit 3, 5 samples, 1 crash | 137 k |
| `hot_cache` | `TypeOK`, `TtlExplained`, `FreshIfSerial`, `UnitStartShown`, liveness `ForgottenWhenSilent` | 3 updates, 2 units, TTL 2, 1 crash, 1 command sent again | 295 k |
| `hot_cache_latest` | **violated**: `ServesLatest` | 2 updates | small |
| `simulator` | `SimTypeOK`, `FaultCodeMatches`, `BatchArithmetic`, `BatchesFull`, `NodesAgreeAtRest`, liveness `EveryMachineTicks` | 2 machines, 2 units a batch, 3 clock units, 1 failed write, 1 restart | 240 k |
| `pipeline` | `TypeOK`, `StoreFollowsNodes`, `TornOnlyAtRotation`, `UnitStartNotEarly`, liveness `RotationsArrive` | 1 machine, 2 units a batch, 2 clock units, 2 attempts, 1 lost session a run, 1 restart of ingest | 1.15 M |
| `pipeline_torn` | **violated**: `UnitsBelongToBatch` | 1 attempt | small |
| `pipeline_gauge` | **violated**: `GaugeTellsActive` | 1 attempt | small |
| `ws_session` | `TypeOK`, `InOrder`, `NewestKept`, `DropsCounted`, `SubscriptionsFollow`, liveness `SessionEnds` | 1 machine and the pattern, queue of 2, 3 requests, 4 messages | 237 k |
| `dashboard` | `TypeOK`, `CardsCatchUp`, `OneConnection`, liveness `StaysConnected` | 2 machines, 2 updates, 2 PUBLISHes sent again, 2 closings, delays 1 to 3 | 494 k |
| `history` | `TypeOK`, `AggregatesComplete`, `AnswersOffByOneBucket`, action property `AggregatesOutliveRaw` | 2 samples, 18 clock units; buckets of 2 and 4, chunks of 6, retention 12, stalls up to 3, outages up to 2 | 177 k |
| `api_startup` | `TypeOK`, `OnePool`, `ServingIsSeeded` | 2 machines, 2 requests at once, 3 versions of which the database refuses 1, 2 edits, 1 outage, 1 kill, 2 starts | 109 k |
| `api_startup_first` | **violated**: `StackComesUp` | first start, no outage, edit or kill | small |

Why the bounds are enough to be interesting:

* ingest: a limit of 3 with updates of 2 samples overflows in the middle of an
  update; 5 samples allow a batch under way, a full buffer and a conflict of
  keys at the same time.
* hot cache: three tasks are needed for an older snapshot to land between two
  others, and for a unit that comes back after another one; a TTL of 2 lets a key
  expire before, between and after commands.
* simulator: 3 clock units with days of 3 change the date within a run; batches
  of 2 rotate twice. With two machines a failed write of the first can be seen
  (not) to affect the second.
* pipeline: two rotations after the first unit, so that one is inside a batch
  and one at its boundary; two attempts, so that the feed of a failed one works
  beside the second, or a restart follows. No write fails and the simulator does
  not restart here. The proofs have none of these bounds.
* ws session: a queue of 2 with 4 messages overflows twice while the sender
  works; 3 requests are what subscribe, unsubscribe, subscribe again takes.
* dashboard: two machines make a list that is read in two turns; two
  updates of one machine, each published twice, let events, list and cache be out of
  order in every way, the older event last included; after the second closing the
  doubled delay reaches its longest value, which is no power of two.
* history: the intervals keep the order of the real ones and the relations the
  schema has (a bucket is a divisor of a chunk or not, offsets, retention);
  18 units let a sample grow old enough to lose its raw row, and two samples let
  one be late while the other is refreshed; a stall of 3 is longer than an outage,
  so that a sample taken before it is committed after it.
* api start: two starts with an edit between them find rows of an older version,
  of a machine no longer listed, and of a seeding that stopped half way.

Named bounds in actions: `MaxTime`, `MaxSamples`, `MaxCrashes`, `MaxUpdates`,
`MaxUnits`, `MaxResends`, `MaxFailures`, `MaxRestarts`, `MaxIngestRestarts`,
`MaxWindow`, `MaxAttempts`, `MaxRequests`, `MaxPushed`, `MaxBreaks`, `MaxStall`,
`MaxOutage`, `MaxVersion`, `MaxEdits`, `MaxOutages`, `MaxKills`, `MaxStarts`; and
in `Pipeline` `OneTickPerUnit` (the loop sleeps between ticks) and `UnitsAreLong`,
an assumption on timing: a unit takes far longer than a tick and a publish
interval, which `config/equipment.yaml` ensures. `MaxStall` and `MaxOutage` of
`History` are more than bounds. `MaxStall` is the longest time from a sample to
its commit, a wait in the buffer for a database that is down included; `MaxOutage`
is how long an outage may keep the refreshes from running. `HistoryAssumption`
asks that a bucket, both of them and the schedule together fit into the policy's
start offset: with the schema's two hours for the minute aggregate, outages of up
to about an hour, in which samples wait in the buffer. A sample that comes later
than that may be missing from an aggregate for ever; nothing is claimed of it. It
also asks that raw rows outlive the start offsets, which 30 days do, and that a
minute is no longer than an hour nor an hour than a week. `DbDown` also says that
two outages do not follow each other without the refreshes due between them. Runs
whose bounds make the model stop say CHECK_DEADLOCK FALSE; `ingest_writer` and
`simulator` check for deadlock.

Assumed of TimescaleDB (external): a refresh recomputes whole buckets that lie in
its window, at the latest on its schedule while the database is up; the
aggregates answer with what has been materialized (the default of version 2.13
and later); retention drops whole chunks and does not touch the aggregates. An
explicit `interval` of the history endpoint runs the same two queries as a
selected one.

### Fairness

* `IngestWriter`: the loop polls every 0.2 s (WF of Poll), the database answers
  a statement with a result or an error (WF of the two outcomes together, so no
  write is assumed to succeed), time passes.
* `HotCache`: the event loop runs every task, a command is answered or fails;
  the server's clock advances.
* `Simulator`: the coroutine goes on, writes return or raise, the clock advances.
* `Pipeline`: the server publishes, the client handles what it receives, and an
  attempt to connect goes on (the retry loop never gives up; the last attempt the
  bound allows succeeds).
* `WsSession`: tasks that can go on do; nothing is assumed of the client, of
  send_text, or of Redis.
* `Dashboard`: timeouts fire, a subscribe_all that arrives is executed, and after
  `MaxBreaks` closings the server is reachable. Without the last, "connected in
  the end" cannot hold of any code.
* `ApiStartup` (only for `StackComesUp`): the container's steps are taken,
  `create_pool` ends, the database comes up.

## 4. What the violated runs show

1. `ServesLatest`: update tasks are not ordered, so with no error at all an
   older snapshot may stay in the hot cache until the next notification.
   `FreshIfSerial` shows that overlap of tasks is the only cause.
2. `UnitsBelongToBatch`: samples taken between the notifications of batch and
   unit pair a unit with a wrong batch, which the batch endpoint reports.
   `TornOnlyAtRotation` bounds the damage to the two neighbours of a boundary
   (`OffByOneBatchCorrect`: by one batch, at its first or last unit).
3. `GaugeTellsActive`: nothing looks at the OPC UA session after the first
   connection. When it ends, no data arrives, the process goes on, and
   `opcua_subscription_active` stays 1.
4. `StackComesUp`: the API is started with the database, its migration is tried
   once, and nothing starts the container again. The same property holds of the
   model in which alembic waits for the database.

Seen while modelling, without a run of their own:

* a failure or a restart between HSET and EXPIRE leaves a new hash without a
  TTL (`TtlExplained` names all the causes);
* updates published between the reading of the list and the subscription, or
  during a reconnect, are not shown although the page says Live (`CardsCatchUp`
  shows that the next update repairs the card);
* a failed attempt's feed is harmless while every session lives
  (`StoreFollowsNodes`), but when one of two feeds ends by itself an old value
  may stay in the store, and a sample may be torn by more than a batch: hence
  `lost` and `gap` in the two invariants;
* a range of less than an hour that is older than 30 days selects the raw table
  and is answered empty, although the aggregates hold it (`due` in
  `OffByOneBucket`); a range with one naive and one aware end raises TypeError.

## 5. Proofs

TLAPS proves, for every value of the constants that satisfies the named
assumptions (sizes are naturals, batch size and day are positive, and
`HistoryAssumption`), every safety property the passing runs check, and the two
refinements below. Each module has an invariant that is inductive where the
property alone is not.

`IngestWriterProofs`, `IngestRefinement` (on `IngestWriter!Spec`)

* `AddAllStep`: `AddAll` of no sample changes nothing, and `AddAll(b, ss \o <<s>>)`
  is `Add(AddAll(b, ss), s)`. `AddAllLoop` makes the loop of it: for any number of
  samples, the buffers that the calls of `add` go through are those of the closed
  form, and no others. Its induction is a smallest counterexample
  (`SmallestInSet`), since the library's rule takes an operator as a parameter.
* `TypeCorrect`, `OldestCorrect`: from `TypeInv`, which joins `TypeOK` and
  `OldestMatchesHead`. They need each other: after a drop on the left the new
  oldest time is that of a sample, so `oldest` has its type only if the items do.
* `NewestCorrect`, `AccountedCorrect`: from `AccountInv`. With
  `Behind == Len(log) - Len(buf.items)` the invariant says that samples carry
  their numbers, the buffer is the part of `log` above `Behind`, the batch is
  below it, and the pending samples are exactly those of the batch and those
  above `Behind`. `Accounted` alone does not say which samples an overflow drops.
* `RefinementCorrect`: `LogInv` adds `StoredFirst` (a stored sample is older than
  any pending one), and a step either takes samples, settles some, or leaves all
  fates alone (`Taken`, `SettledSome`): the two actions of `TelemetryLog`, or a
  stutter.
* `DbCorrect`: `TableInv` says that the batch is a piece of `log` in order, the
  table is the set of stored samples with each key once, and what ON CONFLICT
  ignored has an older sample of its key in the table.
* `AtRiskCorrect`: at most two buffers of samples are pending at any time, the batch
  under way and the buffer behind it (`BatchBounded`, `AccountInv`), which bounds what
  one crash loses, however slow the database is.

`PipelineProofs` (on `SimSpec`, then on `Pipeline!Spec`)

* `FaultCodeCorrect` and `BatchArithmeticCorrect` from `MachinesInv`; the lemmas
  `TickedProperties` and `AdvancedProperties` are the properties of
  `StateMachine.tick` and `BatchTracker.advance`; `TickTargetsAllowed` says that
  transition_to never has to refuse.
* `NodesAgreeCorrect` from `NodesInv`, which adds that in a tick the nodes before
  the next one to write already hold the new values (`WrittenSoFar`).
* `SimTypeCorrect` from `TypeInv`, all of the above with the histories.
* `BatchesFullCorrect` from `MadeInv`. `BatchesFull` is not inductive: it does not
  say which units a batch has. `MadeAgrees` does: entry `i` of `made` has unit
  number `i` and batch number `BatchOf(i)`, and one number means one batch. Then the
  units of a batch other than the last are one block of numbers, and its
  cardinality is that of an interval (`MadeIsFull`).
* `StoreFollowsCorrect` from `StreamInv` and `FollowInv`: every queue of a feed
  and every rest of a response ends in the node's value, so that two feeds agree
  on where they end.
* `TornCorrect` from `RecentInv`: what ingest holds of a machine's ids, or is
  going to hear (`Carried`), is of one of its last two units, since
  `UnitsAreLong` lets nobody fall further behind. A sample that joins a unit and a
  batch of those two is `Traced`: its unit is an entry of `made`, its batch that of
  the same entry or of a neighbour; `made` only grows, so it stays traced.
  `OffByOneBatchCorrect` says the same in numbers.
* `UnitStartNotEarlyCorrect` and `PipelineTypeCorrect` from `LedgerInv`: nothing
  ingest has names a unit that is still to come (`UpTo`), so an entry that
  names the present unit was made after its start. This one survives lost
  sessions, since `Passes` bounds what is carried whatever happens.
* `PipelineIsSimulator`: the composition implements `SimSpec`, so that what is
  proved of the simulator holds in it (`MachinesInPipeline`).
* `GaugeCorrect`: the gauge claims a subscription that is not there only after a
  session ended. `GaugeTellsActive`, without that condition, is violated; the
  inductive `GaugeInv` says that until then the successful attempt has its feed.

`HotCacheProofs`: `CacheInv` adds `OneAtATime` (in a run without overlap only the
newest task is open) for `FreshCorrect`, and `UnitInv` (the start of a snapshot is
the update at which the last uninterrupted run of its unit began, and `last_unit`
is that of the newest snapshot unless a process just began) for
`UnitStartCorrect`; `TtlCorrect` and `CacheTypeCorrect` follow from the rest.

`WsSessionProofs`: `StreamInv` for order, newest and drops: messages taken and
messages waiting are in order, and what was taken or dropped comes before what
waits. `SessionImplementsLog`: a session is a `TelemetryLog` too, with "sent" for
"stored" (`Fate` is the mapping). Of all actions only `Sent` settles a message as
sent; any other step takes back nothing and takes only what was not yet
forwarded, so it can only drop messages and add new ones (`NothingSent`). `SubsInv`
for `SubscriptionsCorrect`: for every channel the last command on its way, or what
Redis holds if there is none, is what the session believes. `HandlerInv` for the
rest of `SessionTypeCorrect`.

`DashboardProofs`: `LiveInv` joins the types (`DashboardTypeCorrect`) with
`FreshInv`: for a machine whose last event given to Redis goes to this page, the
last event of it on the wire is that one, and with none the card shows it.
`ConnectionInv` relates socket, session and wire: from it `OneConnectionCorrect`,
`LiveIsFedCorrect` (Live means that events were asked for on this very socket, and
no event outlives its socket), and the action property `GoneForGoodCorrect`: after
`close()` the page gains no connection, so that the timeout it forgets costs one
socket at most.

`HistoryProofs`: `HistoryInv` is `TypeInv`, `Scheduled` (how long ago the last
refresh can be), `Retained` (only whole old chunks are missing) and `Missed` (a
sample an aggregate has not seen is one its last refresh could not yet see).
`OutliveCorrect` is the action property: a bucket inside the window has all its rows
(`DroppedOutOfWindow`). `CompleteCorrect` follows from `HistoryInv`, and so, with
arithmetic on buckets, does `EveryIntervalCorrect`: an answer is off by less than a
bucket at each end also at a resolution the client names, and for ranges not yet
over. `AnswersCorrect` is its case of the resolution the endpoint selects, whose buckets
are no longer than the range.

`ApiStartupProofs`: `PoolInv` says phase by phase who may be in `get_pool`;
`SeedInv` that the machines not pending have their rows; `DataInv` the types of
the rest (`StartupTypeCorrect`).

Only model-checked: all liveness (fairness and ENABLED are outside the prover),
and the form of `AddAllIsFold`, a fold of the library. Only proved, without a run
of their own: `OffByOneBatch`, `GaugeRightUntilLost`, `LiveIsFed`, `GoneForGood`,
`EveryIntervalOffByOneBucket`, `AtMostTwoBuffers` and `SessionImplementsLog`. The
violated properties are false, so there is nothing to prove; `FreshIfSerial`,
`TornOnlyAtRotation` and `GaugeRightUntilLost` are what is true of three of them.

## 6. Plan

Done: every module listed in section 2. What would come next:

1. The foreign key end to end: a simulator started with a newer file than the API
   read makes whole batches fail (`ApiStartup` with `IngestWriter`'s writes).
2. `WsSession` in the place of the order that `Dashboard` assumes: with
   `SessionImplementsLog`, what is left is that a page's events are a session's
   sent messages, and that nothing is dropped there before a card is compared.
3. Ids of batches and units over restarts of the simulator, where a day's numbers
   are given out twice.
4. The redis client's automatic reconnection of a pubsub connection.

## 7. Not modelled

* Wording of JSON and logs, HTTP routing, 404s, the metric filter, Prometheus
  counters other than the WebSocket gauge, the drop counter and
  `opcua_subscription_active`, health checks: they change no state a property
  is about.
* React components, Grafana and Compose files: rendering and configuration of
  external programs.
* Simulator configuration: read once; its values are constants.
* Compression of chunks and indexes, which change no row and no answer.
* Retry loops before ingest starts, other than that of the OPC UA client: that of
  the database ends before anything is subscribed to. (An attempt of the OPC
  UA client that failed can already fill the buffer before the loop first looks at
  it: `Update` before `Poll` in `IngestWriter`.)
* Automatic reconnection of Redis pubsub, and repeated ids after a restart of the
  simulator inside `Pipeline` (see the plan).
