----------------------------- MODULE Dashboard -----------------------------
(***************************************************************************)
(* The live view, from on_update of the ingest service to the page: every  *)
(* update of a machine is published and cached by two tasks of its own     *)
(* (ingest/main.py, redis_publisher.py); the page of the React application *)
(* fetches the list once (api/routes/equipment.py, frontend/src/App.tsx),  *)
(* merges events into the cards it has, and opens a closed WebSocket again *)
(* after a delay that doubles (frontend/src/websocket.ts).                 *)
(*                                                                         *)
(* What is known of a machine is the number of its update; 0 is nothing.   *)
(* The session of the API (WsSession) keeps the order of Redis, and its    *)
(* queue is taken to be long enough.                                       *)
(***************************************************************************)
EXTENDS Naturals, Sequences

CONSTANTS
  NumMachines,   \* machines in the table equipment
  InitialDelay,  \* first reconnectDelay (1000 ms)
  MaxDelay,      \* longest reconnectDelay (30000 ms)
  MaxUpdates,    \* bound on the updates of all machines
  MaxResends,    \* bound on the PUBLISHes that are sent again
  MaxBreaks      \* bound on the closings of the socket

ASSUME DashboardAssumption ==
  /\ {NumMachines, InitialDelay} \subseteq Nat \ {0}
  /\ MaxDelay \in Nat /\ InitialDelay <= MaxDelay
  /\ {MaxUpdates, MaxResends, MaxBreaks} \subseteq Nat

Equipment == 1..NumMachines

VARIABLES
  version,  \* version[e]: the updates of e so far
  updates,  \* history: the updates of all machines so far
  tasks,    \* tasks of on_update that have not run: [kind, eq, version]
  resends,  \* history: PUBLISHes sent again so far
  cached,   \* cached[e]: what equipment:latest:{e} holds
  list,     \* fetchEquipment: [at, read, versions]; read: machines looked up
  shown,    \* shown[e]: what the card of e shows, once there are cards
  mounted,  \* the effect of App has not been cleaned up
  socket,   \* ws: "none", "connecting", "open" (shown as Live), "closing"
  session,  \* subscribe_all of this socket: "none", "asked", "subscribed"
  wire,     \* events on their way to the page
  timers,   \* timeouts pending that will call connect
  delay,    \* reconnectDelay
  breaks,   \* history: closings so far
  reaching  \* history: the last event of e that Redis was given, if it goes
            \* to this page and finds a card there, else 0

vars == <<version, updates, tasks, resends, cached, list, shown, mounted,
          socket, session, wire, timers, delay, breaks, reaching>>

ingestVars == <<version, updates, tasks, resends, cached>>
pageVars   == <<list, shown, mounted>>
socketVars == <<socket, session, timers, delay, breaks>>

Nothing == [e \in Equipment |-> 0]

Init ==
  /\ version = Nothing
  /\ updates = 0
  /\ tasks = {}
  /\ resends = 0
  /\ cached = Nothing
  /\ list = [at |-> "asked", read |-> 0, versions |-> Nothing]
  /\ shown = Nothing
  /\ mounted = TRUE
  /\ socket = "connecting"
  /\ session = "none"
  /\ wire = <<>>
  /\ timers = 0
  /\ delay = InitialDelay
  /\ breaks = 0
  /\ reaching = Nothing
-----------------------------------------------------------------------------
Task(kind, e, v) == [kind |-> kind, eq |-> e, version |-> v]

(* on_update: two tasks are created and none is awaited. *)
Update(e) ==
  /\ updates < MaxUpdates
  /\ updates' = updates + 1
  /\ version' = [version EXCEPT ![e] = @ + 1]
  /\ tasks' = tasks \cup {Task(kind, e, version[e] + 1) :
                            kind \in {"publish", "cache"}}
  /\ UNCHANGED <<resends, cached, pageVars, socketVars, wire, reaching>>

HasCards == list.at = "done"

(* RedisPublisher.publish: the tasks run in any order; Redis delivers to a *)
(* session that is subscribed now.  When its answer is lost, a redis       *)
(* client from version 6 on sends the command again.                       *)
Published(e, v) ==
  /\ Task("publish", e, v) \in tasks
  /\ \/ /\ tasks' = tasks \ {Task("publish", e, v)}
        /\ UNCHANGED resends
     \/ /\ resends < MaxResends
        /\ resends' = resends + 1
        /\ UNCHANGED tasks
  /\ wire' = IF session = "subscribed"
             THEN Append(wire, [eq |-> e, version |-> v]) ELSE wire
  /\ reaching' = [reaching EXCEPT ![e] =
                    IF session = "subscribed" /\ HasCards THEN v ELSE 0]
  /\ UNCHANGED <<version, updates, cached, pageVars, socketVars>>

(* RedisPublisher.update_hot_cache (in full: HotCache). *)
Cached(e, v) ==
  /\ Task("cache", e, v) \in tasks
  /\ tasks' = tasks \ {Task("cache", e, v)}
  /\ cached' = [cached EXCEPT ![e] = v]
  /\ UNCHANGED <<version, updates, resends, pageVars, socketVars, wire,
                 reaching>>

(* A command that raises is logged and counted, nothing else. *)
TaskFails(task) ==
  /\ task \in tasks
  /\ tasks' = tasks \ {task}
  /\ UNCHANGED <<version, updates, resends, cached, pageVars, socketVars, wire,
                 reaching>>
-----------------------------------------------------------------------------
(* list_equipment looks the machines up one by one, each look an await; a  *)
(* hash that cannot be read makes a blank card.                            *)
LookUp ==
  LET e == list.read + 1
  IN  /\ list.at = "asked"
      /\ list.read < NumMachines
      /\ \E v \in {cached[e], 0} :
           list' = [list EXCEPT !.read = e, !.versions[e] = v]
      /\ UNCHANGED <<ingestVars, shown, mounted, socketVars, wire, reaching>>

(* fetchEquipment resolves: the list replaces the state. *)
ListDone ==
  /\ list.at = "asked"
  /\ list.read = NumMachines
  /\ list' = [list EXCEPT !.at = "done"]
  /\ shown' = IF mounted THEN list.versions ELSE shown
  /\ UNCHANGED <<ingestVars, mounted, socketVars, wire, reaching>>

(* It rejects, or the answer is not ok: the error is logged, nothing else. *)
ListFails ==
  /\ list.at = "asked"
  /\ list' = [list EXCEPT !.at = "failed"]
  /\ UNCHANGED <<ingestVars, shown, mounted, socketVars, wire, reaching>>

ServerSubscribes ==
  /\ session = "asked"
  /\ session' = "subscribed"
  /\ UNCHANGED <<ingestVars, pageVars, socket, timers, delay, breaks, wire,
                 reaching>>

(* Mutant of Shown: an event is merged under the card, not over it. *)
ShownUnder(ev) ==
  IF mounted /\ HasCards /\ shown[ev.eq] = 0
  THEN [shown EXCEPT ![ev.eq] = ev.version] ELSE shown

(* An event without a card is dropped; another replaces what the card      *)
(* shows, with no look at its time.  (Left out: metrics are merged by      *)
(* name, so that one the event does not carry stays; unit_started_at is in *)
(* no event, so that of the list stays.)                                   *)
Shown(ev) ==
  IF mounted /\ HasCards THEN [shown EXCEPT ![ev.eq] = ev.version] ELSE shown

OnMessage ==
  /\ socket = "open"
  /\ wire # <<>>
  /\ wire' = Tail(wire)
  /\ shown' = Shown(Head(wire))
  /\ UNCHANGED <<ingestVars, list, mounted, socketVars, reaching>>
-----------------------------------------------------------------------------
(* Mutant of Request: subscribe_all is sent by the first socket only. *)
RequestOnce == IF breaks = 0 THEN "asked" ELSE "none"

(* subscribe_all is sent by every socket that opens. *)
Request == "asked"

OnOpen ==
  /\ socket = "connecting"
  /\ socket' = "open"
  /\ delay' = InitialDelay
  /\ session' = Request
  /\ UNCHANGED <<ingestVars, pageVars, wire, timers, breaks, reaching>>

(* Mutant of Doubled: the cap is tested before the doubling. *)
DoubledLate(d) == IF d < MaxDelay THEN 2 * d ELSE d

Doubled(d) == IF 2 * d < MaxDelay THEN 2 * d ELSE MaxDelay

(* Mutant of TimersAfterClose: onerror starts another connect. *)
TimersTwice == IF mounted THEN timers + 2 ELSE timers

(* The timeout that onclose starts unless close() has been called. *)
TimersAfterClose == IF mounted THEN timers + 1 ELSE timers

(* The socket closes, by itself, after an error or by close(): events on   *)
(* the way are lost and the session of the server ends.                    *)
OnClose ==
  /\ socket # "none"
  /\ breaks < MaxBreaks \/ ~mounted
  /\ socket' = "none"
  /\ session' = "none"
  /\ wire' = <<>>
  /\ timers' = TimersAfterClose
  /\ delay' = IF mounted THEN Doubled(delay) ELSE delay
  /\ breaks' = IF mounted THEN breaks + 1 ELSE breaks
  /\ reaching' = [e \in Equipment |->
                    IF \E i \in 1..Len(wire) : wire[i].eq = e
                    THEN 0 ELSE reaching[e]]
  /\ UNCHANGED <<ingestVars, pageVars>>

(* setTimeout fires: connect makes a new socket and looks at nothing else. *)
Connect ==
  /\ timers > 0
  /\ timers' = timers - 1
  /\ socket' = "connecting"
  /\ UNCHANGED <<ingestVars, pageVars, session, wire, delay, breaks, reaching>>

(* The cleanup of the effect: closed is set, close() is called on the      *)
(* socket (OnClose follows); a pending timeout is not cleared.             *)
Unmount ==
  /\ mounted
  /\ mounted' = FALSE
  /\ socket' = IF socket = "none" THEN "none" ELSE "closing"
  /\ UNCHANGED <<ingestVars, list, shown, session, wire, timers, delay, breaks,
                 reaching>>

Next ==
  \/ \E e \in Equipment :
       \/ Update(e)
       \/ \E v \in 1..MaxUpdates : Published(e, v) \/ Cached(e, v)
  \/ \E task \in tasks : TaskFails(task)
  \/ LookUp
  \/ ListDone
  \/ ListFails
  \/ ServerSubscribes
  \/ OnMessage
  \/ OnOpen
  \/ OnClose
  \/ Connect
  \/ Unmount

Spec == Init /\ [][Next]_vars

(* Timeouts fire, a subscribe_all that arrives is executed, and the server *)
(* is reachable again after MaxBreaks closings: the attempt then succeeds. *)
FairSpec ==
  /\ Spec
  /\ WF_vars(Connect)
  /\ WF_vars(OnOpen)
  /\ WF_vars(ServerSubscribes)
-----------------------------------------------------------------------------
(* Every variable has its type; no delay is longer than the longest one.   *)
TypeOK ==
  /\ updates \in 0..MaxUpdates
  /\ version \in [Equipment -> 0..updates]
  /\ tasks \subseteq [kind : {"publish", "cache"}, eq : Equipment,
                      version : 1..MaxUpdates]
  /\ resends \in 0..MaxResends
  /\ cached \in [Equipment -> 0..MaxUpdates]
  /\ list \in [at : {"asked", "done", "failed"}, read : 0..NumMachines,
               versions : [Equipment -> 0..MaxUpdates]]
  /\ shown \in [Equipment -> 0..MaxUpdates]
  /\ mounted \in BOOLEAN
  /\ socket \in {"none", "connecting", "open", "closing"}
  /\ session \in {"none", "asked", "subscribed"}
  /\ wire \in Seq([eq : Equipment, version : 1..MaxUpdates])
  /\ timers \in Nat
  /\ delay \in InitialDelay..MaxDelay
  /\ breaks \in 0..MaxBreaks
  /\ reaching \in [Equipment -> 0..MaxUpdates]

(* A card catches up with Redis: once there are cards, the last event of a *)
(* machine that Redis was given and sent to this page is what its card     *)
(* shows as soon as no event of the machine is on its way.  This is so     *)
(* whether the list was older or newer, the card blank, the event that of  *)
(* an earlier update that was published late, or sent twice; a close may   *)
(* only lose it with its socket.                                           *)
CardsCatchUp ==
  \A e \in Equipment :
    /\ mounted
    /\ reaching[e] # 0
    /\ \A i \in 1..Len(wire) : wire[i].eq # e
    => shown[e] = reaching[e]

(* The connection of the page, and the ones that timeouts will make. *)
Connections == timers + (IF socket = "none" THEN 0 ELSE 1)

(* A page has a socket or a timeout that will make one, and never both nor *)
(* two of them: it neither doubles its connection nor gives it up, however *)
(* often the socket closes.  After close() at most one of them is left.    *)
OneConnection == Connections <= 1 /\ (mounted => Connections = 1)

(* A page that stays mounted is in the end connected and subscribed, no    *)
(* matter at which point the earlier sockets closed.                       *)
StaysConnected ==
  <>[](mounted => socket = "open" /\ session = "subscribed")
=============================================================================
