-------------------------- MODULE DashboardProofs --------------------------
(***************************************************************************)
(* What the live view guarantees for any number of machines and updates,   *)
(* any delays and any number of closings of the socket.                    *)
(***************************************************************************)
EXTENDS Dashboard, TLAPS

Versions == 0..MaxUpdates

Events == [eq : Equipment, version : 1..MaxUpdates]

Lists == [at : {"asked", "done", "failed"}, read : 0..NumMachines,
          versions : [Equipment -> Versions]]

(* Event i is the last one of its machine on the way.                      *)
LastOnWire(i) == \A j \in 1..Len(wire) : j > i => wire[j].eq # wire[i].eq

Reached == {e \in Equipment : reaching[e] # 0}

(* A machine whose last published event reaches the page has a card; the   *)
(* last event of it on the way is that one, and with none the card shows   *)
(* it.                                                                     *)
FreshInv ==
  \A e \in Reached :
    /\ HasCards
    /\ \A i \in 1..Len(wire) :
         wire[i].eq = e /\ LastOnWire(i) => wire[i].version = reaching[e]
    /\ mounted /\ (\A i \in 1..Len(wire) : wire[i].eq # e)
         => shown[e] = reaching[e]

LiveInv == TypeOK /\ FreshInv
-----------------------------------------------------------------------------
(* The updates are counted, so no version exceeds their number: with the   *)
(* count the types are inductive.  The socket first: a delay is never      *)
(* longer than the longest.                                                *)
LEMMA Sizes ==
  /\ NumMachines \in Nat \ {0} /\ InitialDelay \in Nat \ {0}
  /\ MaxDelay \in Nat /\ InitialDelay <= MaxDelay
  /\ MaxUpdates \in Nat /\ MaxResends \in Nat /\ MaxBreaks \in Nat
BY DashboardAssumption

(* A counter below its bound, and a part of it, can be increased. *)
LEMMA CountOn ==
  ASSUME NEW n \in Nat, NEW m \in 0..n, NEW v \in 0..m, m < n
  PROVE  /\ v + 1 \in 1..n /\ v + 1 \in 0..(m + 1) /\ m + 1 \in 0..n
         /\ 0..m \subseteq 0..(m + 1)
OBVIOUS

(* The histories that PUBLISH and a close write. *)
LEMMA PublishedHistory ==
  ASSUME NEW e \in Equipment, NEW v \in 1..MaxUpdates, Published(e, v),
         resends \in 0..MaxResends,
         reaching \in [Equipment -> 0..MaxUpdates]
  PROVE  /\ resends' \in 0..MaxResends
         /\ reaching' \in [Equipment -> 0..MaxUpdates]
<1>1. \/ resends' = resends
      \/ resends < MaxResends /\ resends' = resends + 1
  BY DEF Published
<1>2. v \in 0..MaxUpdates /\ 0 \in 0..MaxUpdates /\ MaxResends \in Nat
  BY Sizes
<1> DEFINE x == IF session = "subscribed" /\ HasCards THEN v ELSE 0
<1>3. reaching' = [reaching EXCEPT ![e] = x] /\ x \in 0..MaxUpdates
  BY <1>2 DEF Published
<1> HIDE DEF x
<1> QED
  BY <1>1, <1>2, <1>3, CountOn

LEMMA ClosedHistory ==
  ASSUME OnClose, reaching \in [Equipment -> 0..MaxUpdates]
  PROVE  reaching' \in [Equipment -> 0..MaxUpdates]
<1>1. 0 \in 0..MaxUpdates
  BY Sizes
<1>2. reaching' = [e \in Equipment |->
                    IF \E i \in 1..Len(wire) : wire[i].eq = e
                    THEN 0 ELSE reaching[e]]
  BY DEF OnClose
<1>3. \A e \in Equipment : reaching[e] \in 0..MaxUpdates
  OBVIOUS
<1> QED
  BY <1>1, <1>2, <1>3

LEMMA InitTypes == Init => TypeOK
BY Sizes DEF Init, Nothing, TypeOK

LEMMA IngestTypes ==
  ASSUME TypeOK,
         \/ \E e \in Equipment : \/ Update(e)
                               \/ \E v \in 1..MaxUpdates :
                                    Published(e, v) \/ Cached(e, v)
         \/ \E task \in tasks : TaskFails(task)
  PROVE  TypeOK'
<1>0. /\ MaxUpdates \in Nat /\ updates \in 0..MaxUpdates
      /\ version \in [Equipment -> 0..updates]
  BY Sizes DEF TypeOK
<1>a. ASSUME NEW e \in Equipment, Update(e)
      PROVE  version[e] \in 0..updates /\ updates < MaxUpdates
  BY <1>0, <1>a DEF Update
<1> USE DEF TypeOK
<1>1. ASSUME NEW e \in Equipment, Update(e) PROVE TypeOK'
  <2>1. /\ version[e] + 1 \in 1..MaxUpdates
        /\ version[e] + 1 \in 0..(updates + 1)
        /\ updates + 1 \in 0..MaxUpdates
        /\ 0..updates \subseteq 0..(updates + 1)
    BY <1>0, <1>1, <1>a, CountOn
  <2>2. version' \in [Equipment -> 0..updates']
    BY <1>1, <2>1 DEF Update
  <2>3. tasks' \subseteq [kind : {"publish", "cache"}, eq : Equipment,
                         version : 1..MaxUpdates]
    BY <1>1, <2>1 DEF Update, Task
  <2> QED
    BY <1>1, <2>1, <2>2, <2>3 DEF Update, pageVars, socketVars
<1>2. ASSUME NEW e \in Equipment, NEW v \in 1..MaxUpdates, Published(e, v)
      PROVE  TypeOK'
  <2>1. [eq |-> e, version |-> v] \in Events /\ wire \in Seq(Events)
    BY DEF Events
  <2>2. wire' \in Seq(Events)
    BY <1>2, <2>1 DEF Published
  <2>3. /\ resends' \in 0..MaxResends
        /\ reaching' \in [Equipment -> 0..MaxUpdates]
    BY <1>2, PublishedHistory
  <2>4. tasks' \subseteq [kind : {"publish", "cache"}, eq : Equipment,
                         version : 1..MaxUpdates]
    BY <1>2 DEF Published
  <2> QED
    BY <1>2, <2>2, <2>3, <2>4 DEF Published, Events, pageVars, socketVars
<1>3. ASSUME NEW e \in Equipment, NEW v \in 1..MaxUpdates, Cached(e, v)
      PROVE  TypeOK'
  <2>1. v \in 0..MaxUpdates
    BY <1>0
  <2> QED
    BY <1>3, <2>1 DEF Cached, pageVars, socketVars
<1>4. ASSUME NEW task \in tasks, TaskFails(task) PROVE TypeOK'
  BY <1>4 DEF TaskFails, pageVars, socketVars
<1> QED
  BY <1>1, <1>2, <1>3, <1>4

LEMMA PageTypes ==
  ASSUME TypeOK, LookUp \/ ListDone \/ ListFails \/ OnMessage \/ Unmount
  PROVE  TypeOK'
<1> USE DEF TypeOK
<1>1. CASE LookUp
  <2>1. list.read + 1 \in 0..NumMachines /\ list.read + 1 \in Equipment
    BY <1>1, Sizes DEF LookUp, Equipment
  <2>2. PICK v \in {cached[list.read + 1], 0} :
          list' = [list EXCEPT !.read = list.read + 1,
                               !.versions[list.read + 1] = v]
    BY <1>1 DEF LookUp
  <2>3. v \in 0..MaxUpdates
    BY <2>1, Sizes
  <2>4. list' \in [at : {"asked", "done", "failed"}, read : 0..NumMachines,
                  versions : [Equipment -> 0..MaxUpdates]]
    BY <2>1, <2>2, <2>3
  <2> QED
    BY <1>1, <2>4 DEF LookUp, ingestVars, socketVars
<1>2. CASE ListDone
  BY <1>2 DEF ListDone, ingestVars, socketVars
<1>3. CASE ListFails
  BY <1>3 DEF ListFails, ingestVars, socketVars
<1>4. CASE OnMessage
  <2>0. wire \in Seq(Events) /\ wire # <<>>
    BY <1>4 DEF OnMessage, Events
  <2>1. Head(wire) \in Events /\ Tail(wire) \in Seq(Events)
    BY <2>0
  <2>2. 1..MaxUpdates \subseteq 0..MaxUpdates
    BY Sizes
  <2>3. shown' \in [Equipment -> 0..MaxUpdates]
    BY <1>4, <2>1, <2>2 DEF OnMessage, Shown, Events
  <2> QED
    BY <1>4, <2>1, <2>3 DEF OnMessage, Events, ingestVars, socketVars
<1>5. CASE Unmount
  BY <1>5 DEF Unmount, ingestVars
<1> QED
  BY <1>1, <1>2, <1>3, <1>4, <1>5

LEMMA SocketTypes ==
  ASSUME TypeOK,
         \/ ServerSubscribes \/ OnOpen \/ OnClose \/ Connect
         \/ UNCHANGED vars
  PROVE  TypeOK'
<1> USE DEF TypeOK
<1>1. CASE ServerSubscribes
  BY <1>1 DEF ServerSubscribes, ingestVars, pageVars
<1>2. CASE OnOpen
  BY <1>2, Sizes DEF OnOpen, Request, ingestVars, pageVars
<1>3. CASE OnClose
  <2>1. Doubled(delay) \in InitialDelay..MaxDelay
    BY Sizes DEF Doubled
  <2>2. breaks' \in 0..MaxBreaks /\ timers' \in Nat
    BY <1>3, Sizes DEF OnClose, TimersAfterClose
  <2>3. reaching' \in [Equipment -> 0..MaxUpdates]
    BY <1>3, ClosedHistory
  <2>4. /\ UNCHANGED <<version, updates, tasks, resends, cached, pageVars>>
        /\ socket' = "none" /\ session' = "none" /\ wire' = <<>>
        /\ delay' = IF mounted THEN Doubled(delay) ELSE delay
    BY <1>3 DEF OnClose, ingestVars
  <2> QED
    BY <2>1, <2>2, <2>3, <2>4 DEF pageVars
<1>4. CASE Connect
  BY <1>4 DEF Connect, ingestVars, pageVars
<1>5. CASE UNCHANGED vars
  BY <1>5 DEF vars
<1> QED
  BY <1>1, <1>2, <1>3, <1>4, <1>5

LEMMA NextTypes == TypeOK /\ [Next]_vars => TypeOK'
BY IngestTypes, PageTypes, SocketTypes DEF Next

(* Every variable keeps its type; no card, list or hash shows an update    *)
(* that has not happened, and no delay is longer than the longest one.     *)
THEOREM DashboardTypeCorrect == Spec => []TypeOK
BY InitTypes, NextTypes, PTL DEF Spec
-----------------------------------------------------------------------------
LEMMA InitLiveInv == Init => LiveInv
BY InitTypes DEF Init, LiveInv, FreshInv, Reached, Nothing

LEMMA UpdateLiveInv ==
  ASSUME LiveInv, NEW e \in Equipment, Update(e)
  PROVE  FreshInv'
<1>1. UNCHANGED <<list, shown, mounted, wire, reaching>>
  BY DEF Update, pageVars
<1> QED
  BY <1>1 DEF LiveInv, FreshInv, Reached, HasCards, LastOnWire

(* An event that Redis hands to the session goes to the end of the wire.   *)
LEMMA PublishedLiveInv ==
  ASSUME LiveInv, NEW e \in Equipment, NEW v \in 1..MaxUpdates, Published(e, v)
  PROVE  FreshInv'
<1> DEFINE ev == [eq |-> e, version |-> v]
<1>1. UNCHANGED <<list, shown, mounted>>
  BY DEF Published, pageVars
<1>2. ev \in Events
  BY DEF Events
<1>3. wire \in Seq(Events) /\ reaching \in [Equipment -> 0..MaxUpdates]
  BY DEF LiveInv, TypeOK, Events
<1>4. CASE session # "subscribed"
  <2>1. wire' = wire /\ reaching' = [reaching EXCEPT ![e] = 0]
    BY <1>4 DEF Published
  <2>2. \A f \in Reached' : f \in Reached /\ reaching'[f] = reaching[f]
    BY <1>3, <2>1 DEF Reached
  <2> QED
    BY <1>1, <2>1, <2>2 DEF LiveInv, FreshInv, HasCards, LastOnWire
<1>5. CASE session = "subscribed"
  <2>1. /\ wire' = Append(wire, ev)
        /\ \A f \in Reached' : f # e => f \in Reached
                                         /\ reaching'[f] = reaching[f]
        /\ e \in Reached' => HasCards /\ v = reaching'[e]
    BY <1>3, <1>5 DEF Published, Reached
  <2>2. /\ wire' \in Seq(Events)
        /\ Len(wire') = Len(wire) + 1
        /\ Len(wire) \in Nat
        /\ \A i \in 1..Len(wire) : wire'[i] = wire[i]
        /\ wire'[Len(wire) + 1] = ev
    BY <1>2, <1>3, <2>1
  <2>4. ASSUME NEW f \in Reached'
        PROVE  /\ HasCards
               /\ \A i \in 1..Len(wire') :
                    wire'[i].eq = f /\ LastOnWire(i)'
                      => wire'[i].version = reaching'[f]
               /\ mounted /\ (\A i \in 1..Len(wire') : wire'[i].eq # f)
                    => shown[f] = reaching'[f]
    <3>1. CASE f = e
      <4>1. HasCards /\ v = reaching'[e]
        BY <2>1, <2>4, <3>1
      <4>2. ASSUME NEW i \in 1..Len(wire'), wire'[i].eq = f, LastOnWire(i)'
            PROVE  wire'[i].version = reaching'[f]
        <5>1. Len(wire) + 1 \in 1..Len(wire') /\ wire'[Len(wire) + 1].eq = f
          BY <2>2, <3>1
        <5>2. ~(Len(wire) + 1 > i)
          BY <4>2, <5>1 DEF LastOnWire
        <5>3. i = Len(wire) + 1
          BY <2>2, <5>2
        <5> QED
          BY <2>2, <3>1, <4>1, <5>3
      <4>3. Len(wire) + 1 \in 1..Len(wire') /\ wire'[Len(wire) + 1].eq = f
        BY <2>2, <3>1
      <4> QED
        BY <4>1, <4>2, <4>3
    <3>2. CASE f # e
      <4>1. f \in Reached /\ reaching'[f] = reaching[f]
        BY <2>1, <2>4, <3>2
      <4>2. HasCards
        BY <4>1 DEF LiveInv, FreshInv
      <4>3. ASSUME NEW i \in 1..Len(wire'), wire'[i].eq = f, LastOnWire(i)'
            PROVE  wire'[i].version = reaching'[f]
        <5>1. i \in 1..Len(wire) /\ wire'[i] = wire[i]
          BY <2>2, <3>2, <4>3
        <5>2. LastOnWire(i)
          BY <2>2, <4>3, <5>1 DEF LastOnWire
        <5> QED
          BY <4>1, <4>3, <5>1, <5>2 DEF LiveInv, FreshInv
      <4>4. ASSUME mounted, \A i \in 1..Len(wire') : wire'[i].eq # f
            PROVE  shown[f] = reaching'[f]
        <5>1. \A i \in 1..Len(wire) : wire[i].eq # f
          BY <2>2, <4>4
        <5> QED
          BY <4>1, <4>4, <5>1 DEF LiveInv, FreshInv
      <4> QED
        BY <4>2, <4>3, <4>4
    <3> QED
      BY <3>1, <3>2
  <2> QED
    BY <1>1, <2>4 DEF FreshInv, HasCards
<1> QED
  BY <1>4, <1>5

LEMMA TaskLiveInv ==
  ASSUME LiveInv,
         \/ \E e \in Equipment, v \in 1..MaxUpdates : Cached(e, v)
         \/ \E task \in tasks : TaskFails(task)
  PROVE  FreshInv'
<1>1. UNCHANGED <<list, shown, mounted, wire, reaching>>
  BY DEF Cached, TaskFails, pageVars
<1> QED
  BY <1>1 DEF LiveInv, FreshInv, Reached, HasCards, LastOnWire

(* Until the list is done no machine has a card, so no event reaches one.  *)
LEMMA ListLiveInv ==
  ASSUME LiveInv, LookUp \/ ListDone \/ ListFails
  PROVE  FreshInv'
<1>1. list.at = "asked" /\ Reached' = Reached
  BY DEF LookUp, ListDone, ListFails, Reached
<1>2. Reached = {}
  BY <1>1 DEF LiveInv, FreshInv, HasCards
<1> QED
  BY <1>1, <1>2 DEF FreshInv

(* The first event on the way is merged into its card.                     *)
LEMMA OnMessageLiveInv ==
  ASSUME LiveInv, OnMessage
  PROVE  FreshInv'
<1> DEFINE ev == wire[1]
<1>1. /\ wire # <<>> /\ wire \in Seq(Events)
      /\ wire' = Tail(wire)
      /\ shown' = Shown(ev)
      /\ UNCHANGED <<list, mounted, reaching>>
  BY DEF OnMessage, ingestVars, LiveInv, TypeOK, Events
<1>2. /\ Len(wire) \in Nat /\ Len(wire) > 0
      /\ wire' \in Seq(Events)
      /\ Len(wire') = Len(wire) - 1
      /\ \A i \in 1..Len(wire') : wire'[i] = wire[i + 1]
      /\ ev \in Events
  BY <1>1
<1>5. ASSUME NEW f \in Reached
      PROVE  /\ HasCards
             /\ \A i \in 1..Len(wire') :
                  wire'[i].eq = f /\ LastOnWire(i)'
                    => wire'[i].version = reaching[f]
             /\ mounted /\ (\A i \in 1..Len(wire') : wire'[i].eq # f)
                  => shown'[f] = reaching[f]
  <2>1. HasCards
    BY DEF LiveInv, FreshInv
  <2>2. ASSUME NEW i \in 1..Len(wire'), wire'[i].eq = f, LastOnWire(i)'
        PROVE  wire'[i].version = reaching[f]
    <3>1. i + 1 \in 1..Len(wire) /\ wire'[i] = wire[i + 1]
      BY <1>2
    <3>2. ASSUME NEW j \in 1..Len(wire), j > i + 1 PROVE wire[j].eq # wire[i + 1].eq
      <4>1. j - 1 \in 1..Len(wire') /\ j - 1 > i /\ (j - 1) + 1 = j
        BY <1>2, <3>2
      <4>2. wire'[j - 1] = wire[j]
        BY <1>2, <4>1
      <4> QED
        BY <2>2, <3>1, <4>1, <4>2 DEF LastOnWire
    <3>3. LastOnWire(i + 1)
      BY <3>2 DEF LastOnWire
    <3> QED
      BY <2>2, <3>1, <3>3 DEF LiveInv, FreshInv
  <2>3. ASSUME mounted, \A i \in 1..Len(wire') : wire'[i].eq # f
        PROVE  shown'[f] = reaching[f]
    <3>1. \A j \in 1..Len(wire) : j > 1 => wire[j].eq # f
      <4> SUFFICES ASSUME NEW j \in 1..Len(wire), j > 1 PROVE wire[j].eq # f
        OBVIOUS
      <4>1. j - 1 \in 1..Len(wire') /\ (j - 1) + 1 = j
        BY <1>2
      <4>2. wire'[j - 1] = wire[j]
        BY <1>2, <4>1
      <4> QED
        BY <2>3, <4>1, <4>2
    <3>2. f \in Equipment /\ shown \in [Equipment -> Versions]
      BY DEF LiveInv, TypeOK, Versions, Reached
    <3>3. CASE ev.eq = f
      <4>1. 1 \in 1..Len(wire) /\ LastOnWire(1)
        BY <1>2, <3>1, <3>3 DEF LastOnWire
      <4>2. ev.version = reaching[f]
        BY <3>3, <4>1 DEF LiveInv, FreshInv
      <4> QED
        BY <1>1, <2>1, <2>3, <3>2, <3>3, <4>2 DEF Shown
    <3>4. CASE ev.eq # f
      <4>1. \A j \in 1..Len(wire) : wire[j].eq # f
        BY <1>2, <3>1, <3>4
      <4>2. shown[f] = reaching[f]
        BY <2>3, <4>1 DEF LiveInv, FreshInv
      <4> QED
        BY <1>1, <3>2, <3>4, <4>2 DEF Shown
    <3> QED
      BY <3>3, <3>4
  <2> QED
    BY <2>1, <2>2, <2>3
<1> QED
  BY <1>1, <1>5 DEF FreshInv, Reached, HasCards

(* What is on the way is lost, and its machines are not reached any more.  *)
LEMMA OnCloseLiveInv ==
  ASSUME LiveInv, OnClose
  PROVE  FreshInv'
<1>1. /\ wire' = <<>>
      /\ reaching' = [e \in Equipment |->
                        IF \E i \in 1..Len(wire) : wire[i].eq = e
                        THEN 0 ELSE reaching[e]]
      /\ UNCHANGED <<list, shown, mounted>>
  BY DEF OnClose, ingestVars, pageVars
<1> SUFFICES ASSUME NEW e \in Reached'
             PROVE  HasCards /\ (mounted => shown[e] = reaching'[e])
  BY <1>1 DEF FreshInv, Reached, HasCards
<1>2. /\ e \in Reached /\ reaching'[e] = reaching[e]
      /\ \A i \in 1..Len(wire) : wire[i].eq # e
  BY <1>1 DEF Reached
<1> QED
  BY <1>2 DEF LiveInv, FreshInv

(* The other steps of the socket and the page leave the cards alone.       *)
LEMMA SocketLiveInv ==
  ASSUME LiveInv,
         ServerSubscribes \/ OnOpen \/ Connect \/ Unmount \/ UNCHANGED vars
  PROVE  FreshInv'
<1>1. /\ UNCHANGED <<list, shown, wire, reaching>>
      /\ mounted' \in {mounted, FALSE}
  BY DEF ServerSubscribes, OnOpen, Connect, Unmount, vars, ingestVars, pageVars,
         LiveInv, TypeOK
<1> QED
  BY <1>1 DEF LiveInv, TypeOK, FreshInv, Reached, HasCards, LastOnWire

LEMMA NextLiveInv == LiveInv /\ [Next]_vars => LiveInv'
<1> SUFFICES ASSUME LiveInv, [Next]_vars PROVE FreshInv'
  BY NextTypes DEF LiveInv
<1>1. ASSUME NEW e \in Equipment, Update(e) PROVE FreshInv'
  BY <1>1, UpdateLiveInv
<1>2. ASSUME NEW e \in Equipment, NEW v \in 1..MaxUpdates, Published(e, v)
      PROVE  FreshInv'
  BY <1>2, PublishedLiveInv
<1>3. CASE \/ \E e \in Equipment, v \in 1..MaxUpdates : Cached(e, v)
           \/ \E task \in tasks : TaskFails(task)
  BY <1>3, TaskLiveInv
<1>4. CASE LookUp \/ ListDone \/ ListFails
  BY <1>4, ListLiveInv
<1>5. CASE OnMessage
  BY <1>5, OnMessageLiveInv
<1>6. CASE OnClose
  BY <1>6, OnCloseLiveInv
<1>7. CASE ServerSubscribes \/ OnOpen \/ Connect \/ Unmount \/ UNCHANGED vars
  BY <1>7, SocketLiveInv
<1> QED
  BY <1>1, <1>2, <1>3, <1>4, <1>5, <1>6, <1>7 DEF Next

(* In whatever order the tasks of ingest publish, and however often the    *)
(* client repeats a command, the last event of a machine that Redis was    *)
(* given and sent to this page is what the card shows as soon as nothing   *)
(* of the machine is on its way.                                           *)
THEOREM CatchUpCorrect == Spec => []CardsCatchUp
<1>1. LiveInv => CardsCatchUp
  BY DEF LiveInv, FreshInv, Reached, CardsCatchUp
<1> QED
  BY <1>1, InitLiveInv, NextLiveInv, PTL DEF Spec
-----------------------------------------------------------------------------
(* Where socket, session and wire stand to each other. *)
ConnectionInv ==
  /\ TypeOK
  /\ OneConnection
  /\ socket \in {"none", "connecting"} => session = "none"
  /\ socket = "open" => session # "none"
  /\ session # "subscribed" => wire = <<>>

LEMMA InitConnection == Init => ConnectionInv
BY InitTypes DEF Init, ConnectionInv, OneConnection, Connections

LEMMA NextConnection == ConnectionInv /\ [Next]_vars => ConnectionInv'
<1> SUFFICES ASSUME ConnectionInv, [Next]_vars PROVE ConnectionInv'
  OBVIOUS
<1> USE DEF ConnectionInv, OneConnection, Connections
<1>0. /\ TypeOK' /\ timers \in Nat /\ mounted \in BOOLEAN
      /\ socket \in {"none", "connecting", "open", "closing"}
  BY NextTypes DEF TypeOK
<1>1. CASE OnClose
  BY <1>0, <1>1 DEF OnClose, TimersAfterClose, pageVars
<1>2. CASE Connect
  BY <1>0, <1>2 DEF Connect, pageVars
<1>3. CASE OnOpen
  BY <1>0, <1>3 DEF OnOpen, Request, pageVars
<1>4. CASE Unmount
  BY <1>0, <1>4 DEF Unmount
<1>5. CASE ServerSubscribes
  BY <1>0, <1>5 DEF ServerSubscribes, pageVars
<1>6. CASE OnMessage
  BY <1>0, <1>6 DEF OnMessage, socketVars
<1>7. ASSUME NEW e \in Equipment, NEW v \in 1..MaxUpdates, Published(e, v)
      PROVE  ConnectionInv'
  BY <1>0, <1>7 DEF Published, pageVars, socketVars
<1>8. CASE UNCHANGED <<mounted, socket, session, wire, timers>>
  BY <1>0, <1>8
<1>9. ASSUME NEW e \in Equipment,
             Update(e) \/ \E v \in 1..MaxUpdates : Cached(e, v)
      PROVE  UNCHANGED <<mounted, socket, session, wire, timers>>
  BY <1>9 DEF Update, Cached, pageVars, socketVars
<1>10. ASSUME \/ \E task \in tasks : TaskFails(task)
              \/ LookUp \/ ListDone \/ ListFails \/ UNCHANGED vars
       PROVE  UNCHANGED <<mounted, socket, session, wire, timers>>
  BY <1>10 DEF TaskFails, LookUp, ListDone, ListFails, pageVars, socketVars, vars
<1> QED
  BY <1>1, <1>2, <1>3, <1>4, <1>5, <1>6, <1>7, <1>8, <1>9, <1>10 DEF Next

(* A page has one connection or one timeout that will make it; after       *)
(* close() at most one, however often the socket closes.                   *)
THEOREM OneConnectionCorrect == Spec => []OneConnection
<1>1. ConnectionInv => OneConnection
  BY DEF ConnectionInv
<1> QED
  BY <1>1, InitConnection, NextConnection, PTL DEF Spec

(* A page shown as Live has sent subscribe_all over the very socket it     *)
(* shows, and an event on its way comes from the session of that socket:   *)
(* none survives a reconnect.                                              *)
LiveIsFed ==
  /\ socket = "open" => session # "none"
  /\ wire # <<>> => session = "subscribed" /\ socket \in {"open", "closing"}

THEOREM LiveIsFedCorrect == Spec => []LiveIsFed
<1>1. ConnectionInv => LiveIsFed
  BY DEF ConnectionInv, LiveIsFed, TypeOK
<1> QED
  BY <1>1, InitConnection, NextConnection, PTL DEF Spec

(* A page that is gone stays gone and starts no connection but the one a   *)
(* pending timeout makes: close() does not clear it (websocket.ts), but    *)
(* nothing follows its closing.                                            *)
GoneForGood == [][~mounted => ~mounted' /\ Connections' <= Connections]_vars

THEOREM GoneForGoodCorrect == Spec => GoneForGood
<1>1. ConnectionInv /\ [Next]_vars =>
        [~mounted => ~mounted' /\ Connections' <= Connections]_vars
  <2> SUFFICES ASSUME ConnectionInv, Next, ~mounted
               PROVE  ~mounted' /\ Connections' <= Connections
    OBVIOUS
  <2>1. timers \in Nat
    BY DEF ConnectionInv, TypeOK
  <2>2. CASE OnClose
    BY <2>1, <2>2 DEF OnClose, TimersAfterClose, Connections, pageVars
  <2>3. CASE Connect
    BY <2>1, <2>3 DEF Connect, Connections, ConnectionInv, OneConnection,
                      pageVars
  <2>4. CASE OnOpen
    BY <2>1, <2>4 DEF OnOpen, Connections, pageVars
  <2>5. CASE UNCHANGED <<mounted, socket, timers>>
    BY <2>1, <2>5 DEF Connections
  <2>6. ASSUME NEW e \in Equipment,
               \/ Update(e)
               \/ \E v \in 1..MaxUpdates : Published(e, v) \/ Cached(e, v)
        PROVE  UNCHANGED <<mounted, socket, timers>>
    BY <2>6 DEF Update, Published, Cached, pageVars, socketVars
  <2>7. ASSUME \/ \E task \in tasks : TaskFails(task)
               \/ LookUp \/ ListDone \/ ListFails
               \/ ServerSubscribes \/ OnMessage
        PROVE  UNCHANGED <<mounted, socket, timers>>
    BY <2>7 DEF TaskFails, LookUp, ListDone, ListFails, ServerSubscribes,
                OnMessage, pageVars, socketVars
  <2>8. ~Unmount
    BY DEF Unmount
  <2> QED
    BY <2>2, <2>3, <2>4, <2>5, <2>6, <2>7, <2>8 DEF Next
<1> QED
  BY <1>1, InitConnection, NextConnection, PTL DEF Spec, GoneForGood
=============================================================================
