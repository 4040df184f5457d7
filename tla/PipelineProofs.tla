--------------------------- MODULE PipelineProofs ---------------------------
(***************************************************************************)
(* What the simulator guarantees for any number of machines, any batch     *)
(* size, unit duration and length of day, and any failures and restarts;   *)
(* and what the OPC UA subscription makes of it, for any number of failed  *)
(* attempts, sessions that end and restarts of ingest.                     *)
(***************************************************************************)
EXTENDS Pipeline, SequenceTheorems, FiniteSetTheorems, TLAPS

StateMachines == [state : States, faultCode : BOOLEAN]

(* The fault code of one state machine, and the counters of one tracker.   *)
CodeMatches(s) == s.faultCode <=> s.state \in {"fault", "maintenance"}

CountersAgree(tr) ==
  /\ tr.inBatch < UnitsPerBatch
  /\ tr.unitSeq = UnitsPerBatch * (tr.batchSeq - 1) + tr.inBatch + 1
  /\ tr.batch.seq = tr.batchSeq
  /\ tr.unit.seq = tr.unitSeq

(* No target in _TICK_PROBABILITIES is one that transition_to refuses with *)
(* ValueError, so a tick of the state machine never raises.                *)
LEMMA TickTargetsAllowed ==
  \A s \in States : TickTargets[s] \subseteq Allowed[s]
BY DEF States, TickTargets, Allowed

(* StateMachine.tick keeps the type and the match of code and state: every *)
(* target in _TICK_PROBABILITIES is a state, and transition_to sets,       *)
(* keeps or clears the code as the state asks.                             *)
LEMMA TickedProperties ==
  ASSUME NEW s \in StateMachines, NEW t \in Ticked(s)
  PROVE  t \in StateMachines /\ (CodeMatches(s) => CodeMatches(t))
<1>1. CASE t = s
  BY <1>1
<1>2. ASSUME NEW to \in TickTargets[s.state], t = TransitionTo(s, to)
      PROVE  t \in StateMachines /\ (CodeMatches(s) => CodeMatches(t))
  <2>1. /\ s.state \in States
        /\ s.state = "idle" => to = "running"
        /\ s.state = "running" => to \in {"fault", "idle"}
        /\ s.state = "fault" => to = "maintenance"
        /\ s.state = "maintenance" => to = "idle"
    BY <1>2 DEF StateMachines, States, TickTargets
  <2>2. t.state = to /\ t.faultCode = (to = "fault" \/ (to # "idle" /\ s.faultCode))
    BY <1>2 DEF TransitionTo
  <2>3. t \in StateMachines
    BY <1>2, <2>1 DEF TransitionTo, StateMachines, States
  <2> QED
    BY <2>1, <2>2, <2>3 DEF CodeMatches, States
<1> QED
  BY <1>1, <1>2 DEF Ticked

(* The ids of the simulator have a day and a number. *)
LEMMA IdType ==
  ASSUME NEW t \in Nat, NEW n \in Nat
  PROVE  Id(t, n) \in Ids /\ Id(t, n).seq = n
BY MachineAssumption DEF Id, Ids

(* A tracker starts in agreement, at its first unit of its first batch.    *)
LEMMA NewTrackerProperties ==
  ASSUME NEW t \in Nat
  PROVE  /\ NewTracker(t) \in TrackerType
         /\ CountersAgree(NewTracker(t))
<1>1. Id(t, 1) \in Ids /\ Id(t, 1).seq = 1
  BY IdType
<1>2. NewTracker(t) \in TrackerType
  BY <1>1 DEF NewTracker, TrackerType
<1> QED
  BY <1>1, <1>2, MachineAssumption DEF NewTracker, CountersAgree

(* BatchTracker.advance keeps the three counters in agreement: a batch of  *)
(* UnitsPerBatch units is followed by the next batch.                      *)
LEMMA AdvancedProperties ==
  ASSUME NEW tr \in TrackerType, NEW t \in Nat
  PROVE  /\ Advanced(tr, t) \in TrackerType
         /\ CountersAgree(tr) => CountersAgree(Advanced(tr, t))
<1> DEFINE full == tr.inBatch + 1 >= UnitsPerBatch
           next == IF full THEN tr.batchSeq + 1 ELSE tr.batchSeq
           new  == Rotated(tr, t)
<1>1. /\ tr.unitSeq \in Nat /\ tr.batchSeq \in Nat /\ tr.inBatch \in Nat
      /\ tr.batch \in Ids
  BY DEF TrackerType
<1>2. next \in Nat
  BY <1>1
<1>3. /\ Id(t, next) \in Ids /\ Id(t, next).seq = next
      /\ Id(t, tr.unitSeq + 1) \in Ids
      /\ Id(t, tr.unitSeq + 1).seq = tr.unitSeq + 1
  BY <1>1, <1>2, IdType
<1>4. /\ new.unitSeq = tr.unitSeq + 1
      /\ new.batchSeq = next
      /\ new.inBatch = IF full THEN 0 ELSE tr.inBatch + 1
      /\ new.batch = IF full THEN Id(t, next) ELSE tr.batch
      /\ new.unit = Id(t, tr.unitSeq + 1)
  BY DEF Rotated, Rotation
<1>5. new \in TrackerType
  BY <1>1, <1>2, <1>3 DEF Rotated, Rotation, TrackerType
<1>6. ASSUME CountersAgree(tr) PROVE CountersAgree(new)
  <2>1. CASE full
    <3>0. tr.inBatch < UnitsPerBatch
      BY <1>6 DEF CountersAgree
    <3>1. tr.inBatch + 1 = UnitsPerBatch
      BY <1>1, <2>1, <3>0, MachineAssumption
    <3>2. UnitsPerBatch * ((tr.batchSeq + 1) - 1)
            = UnitsPerBatch * (tr.batchSeq - 1) + UnitsPerBatch
      BY <1>1, MachineAssumption
    <3>3. new.unitSeq = UnitsPerBatch * (new.batchSeq - 1) + new.inBatch + 1
      BY <1>1, <1>4, <1>6, <2>1, <3>1, <3>2, MachineAssumption DEF CountersAgree
    <3> QED
      BY <1>3, <1>4, <2>1, <3>3, MachineAssumption DEF CountersAgree
  <2>2. CASE ~full
    <3>1. new.unitSeq = UnitsPerBatch * (new.batchSeq - 1) + new.inBatch + 1
      BY <1>1, <1>4, <1>6, <2>2, MachineAssumption DEF CountersAgree
    <3> QED
      BY <1>1, <1>3, <1>4, <1>6, <2>2, <3>1, MachineAssumption DEF CountersAgree
  <2> QED
    BY <2>1, <2>2
<1> QED
  BY <1>5, <1>6 DEF Advanced

-----------------------------------------------------------------------------
(* The state machines and trackers change in Compute and Restart only.     *)
MachinesInv ==
  /\ now \in Nat
  /\ tickTime \in Nat
  /\ at \in 0..NumMachines
  /\ step \in 0..Len(Fields)
  /\ at = 0 => step = 0
  /\ sm \in [Machines -> StateMachines]
  /\ tracker \in [Machines -> TrackerType]
  /\ FaultCodeMatches
  /\ BatchArithmetic

LEMMA MachinesInit == SimInit => MachinesInv
<1> SUFFICES ASSUME SimInit PROVE MachinesInv
  OBVIOUS
<1>1. NewTracker(0) \in TrackerType /\ CountersAgree(NewTracker(0))
  BY NewTrackerProperties
<1>2. sm \in [Machines -> StateMachines] /\ FaultCodeMatches
  BY DEF SimInit, InitialState, StateMachines, States, FaultCodeMatches
<1>3. tracker \in [Machines -> TrackerType] /\ BatchArithmetic
  BY <1>1 DEF SimInit, NewTrackers, BatchArithmetic, CountersAgree
<1> QED
  BY <1>2, <1>3, SimulatorAssumption DEF SimInit, MachinesInv, Fields

LEMMA MachinesStep == MachinesInv /\ [SimNext]_simVars => MachinesInv'
<1> SUFFICES ASSUME MachinesInv, [SimNext]_simVars PROVE MachinesInv'
  OBVIOUS
<1> USE DEF MachinesInv
<1>0. Len(Fields) = 5 /\ NumMachines \in Nat \ {0}
  BY SimulatorAssumption DEF Fields
<1>1. CASE Wake
  BY <1>0, <1>1 DEF Wake, FaultCodeMatches, BatchArithmetic
<1>2. CASE Compute
  <2>1. at \in Machines
    BY <1>0, <1>2 DEF Compute, Machines
  <2>2. PICK next \in Ticked(sm[at]) : sm' = [sm EXCEPT ![at] = next]
    BY <1>2 DEF Compute
  <2>3. CodeMatches(sm[at])
    BY <2>1 DEF FaultCodeMatches, CodeMatches
  <2>4. next \in StateMachines /\ CodeMatches(next)
    BY <2>1, <2>2, <2>3, TickedProperties
  <2>5. sm' \in [Machines -> StateMachines] /\ FaultCodeMatches'
    BY <2>1, <2>2, <2>4 DEF FaultCodeMatches, CodeMatches
  <2>6. CountersAgree(tracker[at])
    BY <2>1 DEF BatchArithmetic, CountersAgree
  <2>7. /\ Advanced(tracker[at], tickTime) \in TrackerType
        /\ CountersAgree(Advanced(tracker[at], tickTime))
    BY <2>1, <2>6, AdvancedProperties
  <2>8. tracker' = [tracker EXCEPT ![at] = Advanced(tracker[at], tickTime)]
    BY <1>2 DEF Compute
  <2>9. tracker' \in [Machines -> TrackerType]
    BY <2>1, <2>7, <2>8
  <2>10. \A m \in Machines : CountersAgree(tracker'[m])
    BY <2>1, <2>7, <2>8 DEF BatchArithmetic, CountersAgree
  <2>11. BatchArithmetic'
    BY <2>10 DEF BatchArithmetic, CountersAgree
  <2> QED
    BY <1>0, <1>2, <2>5, <2>9, <2>11 DEF Compute
<1>3. CASE Write
  <2>1. UNCHANGED <<now, tickTime, sm, tracker>> /\ at # 0
    BY <1>3 DEF Write
  <2>2. FaultCodeMatches' /\ BatchArithmetic'
    BY <2>1 DEF FaultCodeMatches, BatchArithmetic
  <2>3. at' \in 0..NumMachines /\ step' \in 0..Len(Fields) /\ (at' = 0 => step' = 0)
    <3>1. CASE step = Len(Fields)
      BY <1>0, <1>3, <2>1, <3>1 DEF Write, NextMachine
    <3>2. CASE step # Len(Fields)
      BY <1>0, <1>3, <2>1, <3>2 DEF Write
    <3> QED
      BY <3>1, <3>2
  <2> QED
    BY <2>1, <2>2, <2>3
<1>4. CASE WriteFails
  BY <1>0, <1>4 DEF WriteFails, NextMachine, FaultCodeMatches, BatchArithmetic
<1>5. CASE Clock
  BY <1>5 DEF Clock, FaultCodeMatches, BatchArithmetic
<1>6. CASE Restart
  <2>1. NewTracker(now) \in TrackerType /\ CountersAgree(NewTracker(now))
    BY NewTrackerProperties
  <2>2. sm' \in [Machines -> StateMachines] /\ FaultCodeMatches'
    BY <1>6 DEF Restart, InitialState, StateMachines, States, FaultCodeMatches
  <2>3. tracker' \in [Machines -> TrackerType] /\ BatchArithmetic'
    BY <1>6, <2>1 DEF Restart, NewTrackers, BatchArithmetic, CountersAgree
  <2> QED
    BY <1>0, <1>6, <2>2, <2>3 DEF Restart
<1>7. CASE UNCHANGED simVars
  BY <1>7 DEF simVars, FaultCodeMatches, BatchArithmetic
<1> QED
  BY <1>1, <1>2, <1>3, <1>4, <1>5, <1>6, <1>7 DEF SimNext

(* A machine carries a fault code exactly from its fault to the end of its *)
(* maintenance.                                                            *)
THEOREM FaultCodeCorrect == SimSpec => []FaultCodeMatches
<1>1. SimSpec => []MachinesInv
  BY MachinesInit, MachinesStep, PTL DEF SimSpec
<1>2. MachinesInv => FaultCodeMatches
  BY DEF MachinesInv
<1> QED
  BY <1>1, <1>2, PTL

(* Unit, batch and position counters agree and no batch is over-full, for  *)
(* every batch size.                                                       *)
THEOREM BatchArithmeticCorrect == SimSpec => []BatchArithmetic
<1>1. SimSpec => []MachinesInv
  BY MachinesInit, MachinesStep, PTL DEF SimSpec
<1>2. MachinesInv => BatchArithmetic
  BY DEF MachinesInv
<1> QED
  BY <1>1, <1>2, PTL

-----------------------------------------------------------------------------
(* The nodes.  In a tick the nodes up to the next one to write already     *)
(* hold the machine's new values; after a tick without a failure they all  *)
(* do, and nothing touches the machine until its next tick.                *)
Nodes == [Status : States, FaultCode : BOOLEAN, CurrentBatchId : Ids,
          CurrentUnitId : Ids, Metric : {"zero", "idle", "running", "fault"}]

WrittenSoFar ==
  at # 0 => \A i \in 1..Len(Fields) :
              i < step => node[at][Fields[i]] = Current(at)[Fields[i]]

NodesInv ==
  /\ MachinesInv
  /\ node \in [Machines -> Nodes]
  /\ behind \in [Machines -> BOOLEAN]
  /\ WrittenSoFar
  /\ NodesAgreeAtRest

(* What tick_equipment writes has the type of the nodes. *)
LEMMA CurrentType ==
  ASSUME MachinesInv, NEW m \in Machines
  PROVE  Current(m) \in Nodes
<1>1. sm[m] \in StateMachines /\ tracker[m] \in TrackerType
  BY DEF MachinesInv
<1> QED
  BY <1>1 DEF Current, Sample, Nodes, StateMachines, TrackerType

(* Two node records are equal when all the fields agree. *)
LEMMA NodesEqual ==
  ASSUME NEW a \in Nodes, NEW b \in Nodes,
         \A i \in 1..Len(Fields) : a[Fields[i]] = b[Fields[i]]
  PROVE  a = b
<1>1. /\ Len(Fields) = 5
      /\ Fields[1] = "Status" /\ Fields[2] = "FaultCode"
      /\ Fields[3] = "CurrentBatchId" /\ Fields[4] = "CurrentUnitId"
      /\ Fields[5] = "Metric"
  BY DEF Fields
<1>2. /\ a.Status = b.Status /\ a.FaultCode = b.FaultCode
      /\ a.CurrentBatchId = b.CurrentBatchId
      /\ a.CurrentUnitId = b.CurrentUnitId /\ a.Metric = b.Metric
  BY <1>1
<1> QED
  BY <1>2 DEF Nodes

LEMMA NodesInit == SimInit => NodesInv
<1> SUFFICES ASSUME SimInit PROVE NodesInv
  OBVIOUS
<1>1. MachinesInv
  BY MachinesInit
<1>2. NoId \in Ids
  BY DEF NoId, Ids
<1>3. node \in [Machines -> Nodes]
  BY <1>2 DEF SimInit, Blank, Nodes, States
<1> QED
  BY <1>1, <1>3 DEF SimInit, NodesInv, WrittenSoFar, NodesAgreeAtRest

LEMMA NodesStep == NodesInv /\ [SimNext]_simVars => NodesInv'
<1> SUFFICES ASSUME NodesInv, [SimNext]_simVars PROVE NodesInv'
  OBVIOUS
<1> USE DEF NodesInv
<1>0. MachinesInv'
  BY MachinesStep
<1>1. Len(Fields) = 5 /\ NumMachines \in Nat \ {0}
  BY SimulatorAssumption DEF Fields
<1>2. at \in 0..NumMachines /\ step \in 0..5 /\ (at = 0 => step = 0)
  BY <1>1 DEF MachinesInv
<1>3. ASSUME UNCHANGED <<sm, tracker>>
      PROVE  \A m \in Machines : Current(m)' = Current(m)
  BY <1>3 DEF Current
<1>4. CASE Wake
  BY <1>0, <1>2, <1>3, <1>4 DEF Wake, WrittenSoFar, NodesAgreeAtRest
<1>5. CASE Compute
  <2>1. \A m \in Machines : m # at => Current(m)' = Current(m)
    BY <1>5 DEF Compute, Current
  <2> QED
    BY <1>0, <1>1, <1>5, <2>1 DEF Compute, WrittenSoFar, NodesAgreeAtRest
<1>6. CASE Write
  <2>1. at \in Machines /\ step \in 1..5 /\ UNCHANGED <<sm, tracker>>
    BY <1>1, <1>2, <1>6 DEF Write, Machines
  <2> DEFINE f == Fields[step]
             new == [node[at] EXCEPT ![f] = Current(at)[f]]
  <2>2. Current(at) \in Nodes /\ node[at] \in Nodes
    BY <2>1, CurrentType
  <2>3. f \in {"Status", "FaultCode", "CurrentBatchId", "CurrentUnitId", "Metric"}
    BY <2>1 DEF Fields
  <2>4. new \in Nodes
    BY <2>2, <2>3 DEF Nodes
  <2>5. node' = [node EXCEPT ![at] = new]
    BY <1>6, <2>1 DEF Write
  <2>6. \A i \in 1..5 : i <= step => new[Fields[i]] = Current(at)[Fields[i]]
    <3> SUFFICES ASSUME NEW i \in 1..5, i <= step
                 PROVE  new[Fields[i]] = Current(at)[Fields[i]]
      OBVIOUS
    <3>1. CASE Fields[i] = f
      BY <2>2, <2>3, <3>1 DEF Nodes
    <3>2. CASE Fields[i] # f
      <4>1. i < step
        BY <2>1, <3>2
      <4>2. node[at][Fields[i]] = Current(at)[Fields[i]]
        BY <1>1, <2>1, <4>1, SimulatorAssumption DEF WrittenSoFar, Machines
      <4> QED
        BY <2>2, <3>2, <4>2 DEF Nodes
    <3> QED
      BY <3>1, <3>2
  <2> HIDE DEF f, new
  <2>7. node' \in [Machines -> Nodes] /\ node'[at] = new
    BY <2>1, <2>4, <2>5
  <2>8. \A m \in Machines : m # at => node'[m] = node[m]
    BY <2>5
  <2>9. \A m \in Machines : Current(m)' = Current(m)
    BY <1>3, <2>1
  <2>10. CASE step = 5
    <3>1. NextMachine /\ behind' = [behind EXCEPT ![at] = FALSE]
      BY <1>1, <1>6, <2>10 DEF Write
    <3>2. new = Current(at)
      BY <1>1, <2>2, <2>4, <2>6, <2>10, NodesEqual
    <3>3. NodesAgreeAtRest'
      BY <2>1, <2>7, <2>8, <2>9, <3>1, <3>2 DEF NodesAgreeAtRest
    <3>4. WrittenSoFar'
      BY <1>1, <3>1 DEF NextMachine, WrittenSoFar
    <3> QED
      BY <1>0, <2>7, <3>1, <3>3, <3>4
  <2>11. CASE step # 5
    <3>1. step' = step + 1 /\ UNCHANGED <<at, behind>>
      BY <1>1, <1>6, <2>11 DEF Write
    <3>2. NodesAgreeAtRest'
      BY <2>8, <2>9, <3>1 DEF NodesAgreeAtRest
    <3>3. ASSUME NEW i \in 1..5, i < step'
          PROVE  node'[at'][Fields[i]] = Current(at)[Fields[i]]
      BY <2>1, <2>6, <2>7, <3>1, <3>3
    <3>4. WrittenSoFar'
      BY <1>1, <2>1, <2>9, <3>1, <3>3 DEF WrittenSoFar
    <3> QED
      BY <1>0, <2>7, <3>1, <3>2, <3>4
  <2> QED
    BY <2>10, <2>11
<1>7. CASE WriteFails
  <2>1. /\ at \in Machines /\ step' = 0
        /\ UNCHANGED <<sm, tracker, node>>
        /\ behind' = [behind EXCEPT ![at] = TRUE]
    BY <1>1, <1>2, <1>7 DEF WriteFails, NextMachine, Machines
  <2>2. WrittenSoFar'
    BY <1>1, <2>1 DEF WrittenSoFar
  <2>3. NodesAgreeAtRest'
    BY <1>3, <2>1 DEF NodesAgreeAtRest
  <2> QED
    BY <1>0, <2>1, <2>2, <2>3
<1>8. CASE Clock
  BY <1>0, <1>1, <1>2, <1>3, <1>8 DEF Clock, WrittenSoFar, NodesAgreeAtRest, Machines
<1>9. CASE Restart
  <2>1. NoId \in Ids
    BY DEF NoId, Ids
  <2>2. node' \in [Machines -> Nodes]
    BY <1>9, <2>1 DEF Restart, Blank, Nodes, States
  <2> QED
    BY <1>0, <1>9, <2>2 DEF Restart, WrittenSoFar, NodesAgreeAtRest
<1>10. CASE UNCHANGED simVars
  BY <1>0, <1>1, <1>2, <1>3, <1>10 DEF simVars, WrittenSoFar, NodesAgreeAtRest, Machines
<1> QED
  BY <1>4, <1>5, <1>6, <1>7, <1>8, <1>9, <1>10 DEF SimNext

(* Between its ticks a machine's nodes show one state of it, unless its    *)
(* last tick failed half way: for any number of machines and failures.     *)
THEOREM NodesAgreeCorrect == SimSpec => []NodesAgreeAtRest
<1>1. SimSpec => []NodesInv
  BY NodesInit, NodesStep, PTL DEF SimSpec
<1>2. NodesInv => NodesAgreeAtRest
  BY DEF NodesInv
<1> QED
  BY <1>1, <1>2, PTL

-----------------------------------------------------------------------------
(* The rest of the type invariant. *)
Pairs == [batch : Ids, unit : Ids]

TypeInv ==
  /\ NodesInv
  /\ tickTime <= now
  /\ failures \in Nat
  /\ restarts \in Nat
  /\ made \in [Machines -> Seq(Pairs)]

LEMMA TypeInit == SimInit => TypeInv
<1> SUFFICES ASSUME SimInit PROVE TypeInv
  OBVIOUS
<1>1. Id(0, 1) \in Ids
  BY IdType
<1>2. <<[batch |-> Id(0, 1), unit |-> Id(0, 1)]>> \in Seq(Pairs)
  BY <1>1 DEF Pairs
<1> QED
  BY NodesInit, <1>2 DEF SimInit, TypeInv, FirstUnits

LEMMA TypeStep == TypeInv /\ [SimNext]_simVars => TypeInv'
<1> SUFFICES ASSUME TypeInv, [SimNext]_simVars PROVE TypeInv'
  OBVIOUS
<1> USE DEF TypeInv
<1>0. NodesInv' /\ now \in Nat /\ tickTime \in Nat /\ Len(Fields) = 5
  BY NodesStep DEF NodesInv, MachinesInv, Fields
<1>1. CASE Wake
  BY <1>0, <1>1 DEF Wake
<1>2. CASE Compute
  <2>1. tracker' \in [Machines -> TrackerType]
    BY <1>0 DEF NodesInv, MachinesInv
  <2>2. at \in Machines
    BY <1>2, SimulatorAssumption DEF Compute, NodesInv, MachinesInv, Machines
  <2>3. [batch |-> tracker'[at].batch, unit |-> tracker'[at].unit] \in Pairs
    BY <2>1, <2>2 DEF TrackerType, Pairs
  <2>4. made' = made \/ made' = [made EXCEPT ![at] = Append(made[at],
                   [batch |-> tracker'[at].batch, unit |-> tracker'[at].unit])]
    BY <1>2 DEF Compute
  <2>5. made[at] \in Seq(Pairs)
    BY <2>2
  <2>6. Append(made[at],
          [batch |-> tracker'[at].batch, unit |-> tracker'[at].unit]) \in Seq(Pairs)
    BY <2>3, <2>5
  <2>7. made' \in [Machines -> Seq(Pairs)]
    BY <2>4, <2>6
  <2> QED
    BY <1>0, <1>2, <2>7 DEF Compute
<1>3. CASE Write
  BY <1>0, <1>3 DEF Write
<1>4. CASE WriteFails
  BY <1>0, <1>4 DEF WriteFails
<1>5. CASE Clock
  BY <1>0, <1>5 DEF Clock
<1>6. CASE Restart
  <2>1. Id(now, 1) \in Ids
    BY <1>0, IdType
  <2>2. <<[batch |-> Id(now, 1), unit |-> Id(now, 1)]>> \in Seq(Pairs)
    BY <2>1 DEF Pairs
  <2> QED
    BY <1>0, <1>6, <2>2 DEF Restart, FirstUnits
<1>7. CASE UNCHANGED simVars
  BY <1>0, <1>7 DEF simVars
<1> QED
  BY <1>1, <1>2, <1>3, <1>4, <1>5, <1>6, <1>7 DEF SimNext

(* Every variable keeps its type, and a tick never works with a time that  *)
(* is still to come.                                                       *)
THEOREM SimTypeCorrect == SimSpec => []SimTypeOK
<1>1. TypeInv => SimTypeOK
  BY DEF TypeInv, NodesInv, MachinesInv, SimTypeOK, StateMachines, Nodes, Pairs
<1> QED
  BY <1>1, TypeInit, TypeStep, PTL DEF SimSpec
-----------------------------------------------------------------------------
(* Batches and the units in them: the arithmetic of UnitsPerBatch. *)
LEMMA DivUnique ==
  ASSUME NEW b \in Nat \ {0}, NEW q \in Int, NEW r \in 0..(b - 1)
  PROVE  (b * q + r) \div b = q /\ (b * q + r) % b = r
OBVIOUS

(* The numbers of two units in a row are in one batch, or the second is    *)
(* the first unit of the next.                                             *)
LEMMA BatchOfNext ==
  ASSUME NEW n \in Int
  PROVE  /\ BatchOf(n) \in Int
         /\ \/ BatchOf(n) = BatchOf(n - 1)
            \/ BatchOf(n) = BatchOf(n - 1) + 1 /\ (n - 1) % UnitsPerBatch = 0
<1> DEFINE b == UnitsPerBatch
           q == (n - 2) \div b
           r == (n - 2) % b
<1>1. b \in Nat \ {0}
  BY MachineAssumption
<1>2. q \in Int /\ r \in 0..(b - 1) /\ n - 2 = b * q + r
  BY <1>1
<1>3. BatchOf(n - 1) = q + 1 /\ BatchOf(n) = (n - 1) \div b + 1
  BY DEF BatchOf
<1> HIDE DEF b, q, r
<1>4. CASE r + 1 < b
  <2>1. n - 1 = b * q + (r + 1) /\ r + 1 \in 0..(b - 1)
    BY <1>1, <1>2, <1>4
  <2>2. (n - 1) \div b = q
    BY <1>1, <1>2, <2>1, DivUnique
  <2> QED
    BY <1>2, <1>3, <2>2
<1>5. CASE r + 1 = b
  <2>1. n - 1 = b * (q + 1) + 0 /\ 0 \in 0..(b - 1)
    BY <1>1, <1>2, <1>5
  <2>2. (n - 1) \div b = q + 1 /\ (n - 1) % b = 0
    <3>1. q + 1 \in Int
      BY <1>2
    <3>2. /\ (b * (q + 1) + 0) \div b = q + 1
          /\ (b * (q + 1) + 0) % b = 0
      BY <1>1, <2>1, <3>1, DivUnique
    <3> QED
      BY <2>1, <3>2
  <2>3. (n - 1) % UnitsPerBatch = 0
    BY <2>2 DEF b
  <2> QED
    BY <1>2, <1>3, <2>2, <2>3
<1> QED
  BY <1>1, <1>2, <1>4, <1>5

(* The units of a batch follow one another. *)
LEMMA BatchOfRange ==
  ASSUME NEW n \in Int, NEW c \in Int
  PROVE  BatchOf(n) = c
           <=> n \in (UnitsPerBatch * (c - 1) + 1)..(UnitsPerBatch * c)
<1> DEFINE b == UnitsPerBatch
           q == (n - 1) \div b
           r == (n - 1) % b
<1>1. b \in Nat \ {0}
  BY MachineAssumption
<1>2. q \in Int /\ r \in 0..(b - 1) /\ n - 1 = b * q + r
  BY <1>1
<1>3. BatchOf(n) = q + 1
  BY DEF BatchOf
<1>4. b * c = b * (c - 1) + b
  BY <1>1
<1> HIDE DEF b, q, r
<1>5. ASSUME q + 1 = c
      PROVE  n \in (b * (c - 1) + 1)..(b * c)
  <2>1. c - 1 = q
    BY <1>2, <1>5
  <2> QED
    BY <1>1, <1>2, <1>4, <2>1
<1>6. ASSUME n \in (b * (c - 1) + 1)..(b * c)
      PROVE  q + 1 = c
  <2> DEFINE k == n - 1 - b * (c - 1)
  <2>1. b * (c - 1) \in Int
    BY <1>1
  <2>2. k \in 0..(b - 1) /\ n - 1 = b * (c - 1) + k
    BY <1>1, <1>4, <1>6, <2>1
  <2> HIDE DEF k
  <2>3. (n - 1) \div b = c - 1
    BY <1>1, <2>2, DivUnique
  <2> QED
    BY <2>3 DEF q
<1> QED
  BY <1>3, <1>5, <1>6 DEF b

(* A later unit is in the same batch or in a later one. *)
LEMMA BatchOfMonotone ==
  ASSUME NEW i \in Int, NEW n \in Int, i <= n
  PROVE  BatchOf(i) <= BatchOf(n)
<1> DEFINE b == UnitsPerBatch
           c == BatchOf(i)
           d == BatchOf(n)
<1>1. b \in Nat \ {0} /\ c \in Int /\ d \in Int
  BY MachineAssumption, BatchOfNext
<1>2. b * (c - 1) + 1 <= i /\ n <= b * d
  BY <1>1, BatchOfRange
<1> HIDE DEF b, c, d
<1>3. SUFFICES ASSUME c >= d + 1 PROVE FALSE
  BY <1>1 DEF c, d
<1>4. b * (c - 1) >= b * d
  <2>1. c - 1 - d \in Nat
    BY <1>1, <1>3
  <2>2. b * (c - 1) = b * d + b * (c - 1 - d)
    BY <1>1
  <2>3. b * (c - 1 - d) \in Nat
    BY <1>1, <2>1
  <2> QED
    BY <1>1, <2>2, <2>3
<1>5. b * (c - 1) \in Int /\ b * d \in Int
  BY <1>1
<1> QED
  BY <1>2, <1>4, <1>5

(* The counters of a tracker name the batch of its unit. *)
LEMMA BatchOfTracker ==
  ASSUME NEW tr \in TrackerType, CountersAgree(tr)
  PROVE  tr.batchSeq = BatchOf(tr.unitSeq)
<1> DEFINE q == tr.batchSeq - 1
           r == tr.inBatch
<1>1. /\ q \in Int /\ r \in 0..(UnitsPerBatch - 1)
      /\ UnitsPerBatch \in Nat \ {0}
      /\ tr.unitSeq - 1 = UnitsPerBatch * q + r
      /\ tr.batchSeq = q + 1
      /\ tr.unitSeq \in Nat /\ tr.batchSeq \in Nat
  BY MachineAssumption DEF TrackerType, CountersAgree
<1> HIDE DEF q, r
<1>2. (tr.unitSeq - 1) \div UnitsPerBatch = q
  BY <1>1, DivUnique
<1>3. tr.batchSeq = BatchOf(tr.unitSeq)
  BY <1>1, <1>2 DEF BatchOf
<1> QED
  BY <1>3
-----------------------------------------------------------------------------
(* The units a machine has given out so far agree with its tracker: the    *)
(* last of them is the current one, unit i has number i and the number of  *)
(* the batch that i falls in, and a batch number means one batch.          *)
MadeAgrees(tr, s) ==
  /\ Len(s) = tr.unitSeq
  /\ Len(s) >= 1
  /\ s[Len(s)] = [batch |-> tr.batch, unit |-> tr.unit]
  /\ \A i \in 1..Len(s) :
       /\ s[i].unit.seq = i
       /\ s[i].batch.seq = BatchOf(i)
  /\ \A i, j \in 1..Len(s) :
       s[i].batch.seq = s[j].batch.seq => s[i].batch = s[j].batch

MadeInv ==
  /\ TypeInv
  /\ \A m \in Machines : MadeAgrees(tracker[m], made[m])

(* A machine starts with one unit. *)
LEMMA FirstUnitAgrees ==
  ASSUME NEW t \in Nat
  PROVE  MadeAgrees(NewTracker(t), <<[batch |-> Id(t, 1), unit |-> Id(t, 1)]>>)
<1>1. Id(t, 1).seq = 1
  BY IdType
<1>2. BatchOf(1) = 1
  BY MachineAssumption DEF BatchOf
<1> QED
  BY <1>1, <1>2 DEF MadeAgrees, NewTracker

(* One more unit, of the current batch or of a new one, as advance finds.  *)
LEMMA AdvancedAgrees ==
  ASSUME NEW tr \in TrackerType, CountersAgree(tr), NEW s \in Seq(Pairs),
         MadeAgrees(tr, s), NEW t \in Nat, Advanced(tr, t) # tr
  PROVE  MadeAgrees(Advanced(tr, t),
                    Append(s, [batch |-> Advanced(tr, t).batch,
                               unit |-> Advanced(tr, t).unit]))
<1> DEFINE new == Rotated(tr, t)
           e == [batch |-> new.batch, unit |-> new.unit]
           s2 == Append(s, e)
           n == Len(s)
<1>1. /\ Advanced(tr, t) = new
      /\ new \in TrackerType /\ CountersAgree(new)
  BY AdvancedProperties DEF Advanced
<1>2. /\ new.unitSeq = tr.unitSeq + 1
      /\ \/ new.batch = tr.batch
         \/ new.batchSeq = tr.batchSeq + 1
  BY DEF Rotated, Rotation
<1>3. new.batchSeq = BatchOf(new.unitSeq) /\ tr.batchSeq = BatchOf(tr.unitSeq)
  BY <1>1, BatchOfTracker
<1>4. e \in Pairs /\ e.batch = new.batch /\ e.unit = new.unit
  BY <1>1 DEF TrackerType, Pairs
<1>5. /\ n \in Nat /\ n >= 1 /\ n = tr.unitSeq
      /\ tr.batchSeq \in Nat /\ new.batchSeq \in Nat
  BY <1>1, LenProperties DEF MadeAgrees, TrackerType
<1>6. /\ e.unit.seq = n + 1
      /\ e.batch.seq = BatchOf(n + 1)
      /\ tr.batch.seq = tr.batchSeq
  BY <1>1, <1>2, <1>3, <1>4, <1>5 DEF CountersAgree
<1> HIDE DEF new, e
<1>7. /\ Len(s2) = n + 1
      /\ \A i \in 1..n : s2[i] = s[i]
      /\ s2[n + 1] = e
  BY <1>4, AppendProperties
<1> HIDE DEF s2
<1>8. \A i \in 1..(n + 1) : i \in 1..n \/ i = n + 1
  BY <1>5
<1>9. s2[Len(s2)] = [batch |-> new.batch, unit |-> new.unit]
  BY <1>7 DEF e
<1>10. \A i \in 1..Len(s2) : s2[i].unit.seq = i /\ s2[i].batch.seq = BatchOf(i)
  BY <1>6, <1>7, <1>8 DEF MadeAgrees
<1>11. ASSUME NEW i \in 1..n, s[i].batch.seq = e.batch.seq
       PROVE  s[i].batch = e.batch
  <2>1. s[i].batch.seq = BatchOf(i) /\ BatchOf(i) <= tr.batchSeq
    BY <1>3, <1>5, BatchOfMonotone DEF MadeAgrees
  <2>2. new.batchSeq <= tr.batchSeq
    BY <1>2, <1>3, <1>5, <1>6, <1>11, <2>1
  <2>3. new.batch = tr.batch
    BY <1>2, <1>5, <2>2
  <2>4. s[n].batch = tr.batch /\ n \in 1..n
    BY <1>5 DEF MadeAgrees
  <2> QED
    BY <1>4, <1>11, <2>3, <2>4 DEF MadeAgrees
<1>12. \A i, j \in 1..Len(s2) :
         s2[i].batch.seq = s2[j].batch.seq => s2[i].batch = s2[j].batch
  <2> TAKE i, j \in 1..Len(s2)
  <2>1. CASE i \in 1..n /\ j \in 1..n
    <3>1. s[i].batch.seq = s[j].batch.seq => s[i].batch = s[j].batch
      BY <2>1 DEF MadeAgrees
    <3>2. s2[i] = s[i] /\ s2[j] = s[j]
      BY <1>7, <2>1
    <3> QED
      BY <3>1, <3>2
  <2>2. CASE i \in 1..n /\ j = n + 1
    BY <1>7, <1>11, <2>2
  <2>3. CASE i = n + 1 /\ j \in 1..n
    BY <1>7, <1>11, <2>3
  <2> QED
    BY <1>7, <1>8, <2>1, <2>2, <2>3
<1>13. Len(s2) = new.unitSeq /\ Len(s2) >= 1
  BY <1>2, <1>5, <1>7
<1>14. MadeAgrees(new, s2)
  BY <1>9, <1>10, <1>12, <1>13 DEF MadeAgrees
<1> QED
  BY <1>1, <1>14 DEF s2, e

LEMMA MadeInit == SimInit => MadeInv
<1>1. ASSUME SimInit, NEW m \in Machines
      PROVE  /\ tracker[m] = NewTracker(0)
             /\ made[m] = <<[batch |-> Id(0, 1), unit |-> Id(0, 1)]>>
  BY <1>1 DEF SimInit, NewTrackers, FirstUnits
<1> QED
  BY <1>1, TypeInit, FirstUnitAgrees DEF MadeInv

(* What a step of the simulator gives out, unless it starts again. *)
MadeBy(m) ==
  IF tracker'[m] = tracker[m] THEN made'[m] = made[m]
  ELSE made'[m] = Append(made[m], [batch |-> tracker'[m].batch,
                                   unit |-> tracker'[m].unit])

LEMMA MadeEffect ==
  ASSUME TypeInv, [SimNext]_simVars, ~Restart, NEW m \in Machines
  PROVE  MadeBy(m)
<1>1. CASE Compute
  <2>1. /\ at \in Machines
        /\ tracker \in [Machines -> TrackerType]
        /\ made \in [Machines -> Seq(Pairs)]
    BY <1>1, SimulatorAssumption
    DEF Compute, TypeInv, NodesInv, MachinesInv, Machines
  <2>2. /\ tracker' = [tracker EXCEPT ![at] = Advanced(@, tickTime)]
        /\ made' = IF tracker'[at] = tracker[at] THEN made
                   ELSE [made EXCEPT ![at] = Append(@,
                           [batch |-> tracker'[at].batch,
                            unit |-> tracker'[at].unit])]
    BY <1>1 DEF Compute
  <2> QED
    BY <2>1, <2>2 DEF MadeBy
<1>2. CASE UNCHANGED <<tracker, made>>
  BY <1>2 DEF MadeBy
<1> QED
  BY <1>1, <1>2 DEF SimNext, Wake, Write, WriteFails, Clock, simVars

LEMMA MadeStep == MadeInv /\ [SimNext]_simVars => MadeInv'
<1> SUFFICES ASSUME MadeInv, [SimNext]_simVars, NEW m \in Machines
             PROVE  MadeAgrees(tracker'[m], made'[m])
  BY TypeStep DEF MadeInv
<1>0. TypeInv' /\ now \in Nat /\ tickTime \in Nat
  BY TypeStep DEF MadeInv, TypeInv, NodesInv, MachinesInv
<1>1. CASE Restart
  <2>1. /\ tracker'[m] = NewTracker(now)
        /\ made'[m] = <<[batch |-> Id(now, 1), unit |-> Id(now, 1)]>>
    BY <1>1 DEF Restart, NewTrackers, FirstUnits
  <2> QED
    BY <1>0, <2>1, FirstUnitAgrees
<1>2. CASE ~Restart
  <2>1. MadeBy(m)
    BY <1>2, MadeEffect DEF MadeInv
  <2>2. tracker'[m] = tracker[m] \/ tracker'[m] = Advanced(tracker[m], tickTime)
    <3>1. CASE Compute
      BY <3>1 DEF Compute, MadeInv, TypeInv, NodesInv, MachinesInv
    <3>2. CASE UNCHANGED tracker
      BY <3>2
    <3> QED
      BY <1>2, <3>1, <3>2 DEF SimNext, Wake, Write, WriteFails, Clock, simVars
  <2>3. /\ tracker[m] \in TrackerType /\ CountersAgree(tracker[m])
        /\ made[m] \in Seq(Pairs)
    BY DEF MadeInv, TypeInv, NodesInv, MachinesInv, BatchArithmetic,
           CountersAgree
  <2>4. MadeAgrees(tracker[m], made[m])
    BY DEF MadeInv
  <2>5. CASE tracker'[m] = tracker[m]
    BY <2>1, <2>4, <2>5 DEF MadeBy
  <2>6. CASE tracker'[m] # tracker[m]
    BY <1>0, <2>1, <2>2, <2>3, <2>4, <2>6, AdvancedAgrees DEF MadeBy
  <2> QED
    BY <2>5, <2>6
<1> QED
  BY <1>1, <1>2

(* So the units of a batch that is over are those numbered from            *)
(* UnitsPerBatch * (c - 1) + 1 to UnitsPerBatch * c, all of them given out. *)
LEMMA MadeIsFull ==
  ASSUME NEW tr \in TrackerType, CountersAgree(tr), NEW s \in Seq(Pairs),
         MadeAgrees(tr, s), NEW i \in 1..Len(s), s[i].batch # tr.batch
  PROVE  Cardinality({j \in 1..Len(s) : s[j].batch = s[i].batch})
           = UnitsPerBatch
<1> DEFINE b == UnitsPerBatch
           n == Len(s)
           c == BatchOf(i)
           lo == b * (c - 1) + 1
           hi == b * c
<1>1. /\ b \in Nat \ {0} /\ n \in Nat /\ n >= 1 /\ n = tr.unitSeq
      /\ c \in Int
  BY MachineAssumption, BatchOfNext, LenProperties DEF MadeAgrees
<1>2. lo \in Int /\ hi \in Int /\ hi = lo + b - 1
  BY <1>1
<1>3. c # BatchOf(n)
  <2>1. s[n].batch = tr.batch /\ s[n].batch.seq = BatchOf(n) /\ n \in 1..n
    BY <1>1 DEF MadeAgrees
  <2>2. s[i].batch.seq = c
    BY DEF MadeAgrees
  <2>3. s[i].batch.seq # s[n].batch.seq
    BY <2>1 DEF MadeAgrees
  <2> QED
    BY <2>1, <2>2, <2>3
<1>4. n > hi
  <2>1. SUFFICES ASSUME n <= hi PROVE FALSE
    BY <1>1, <1>2
  <2>2. i \in lo..hi /\ i <= n
    BY <1>1, BatchOfRange
  <2>3. n \in lo..hi
    BY <1>1, <1>2, <2>1, <2>2
  <2>4. BatchOf(n) = c
    BY <1>1, <2>3, BatchOfRange
  <2> QED
    BY <1>3, <2>4
<1>5. lo >= 1
  <2>1. BatchOf(1) = 1
    BY MachineAssumption DEF BatchOf
  <2>2. c >= 1
    BY <2>1, BatchOfMonotone
  <2>3. b * (c - 1) \in Nat
    BY <1>1, <2>2
  <2> QED
    BY <2>3
<1>6. \A j \in 1..n : BatchOf(j) = c <=> j \in lo..hi
  BY <1>1, BatchOfRange
<1> HIDE DEF b, lo, hi, c
<1>7. \A j \in 1..n : s[j].batch = s[i].batch <=> BatchOf(j) = c
  BY DEF MadeAgrees, c
<1>8. {j \in 1..n : s[j].batch = s[i].batch} = lo..hi
  BY <1>1, <1>2, <1>4, <1>5, <1>6, <1>7
<1>9. Cardinality(lo..hi) = b
  <2>1. Cardinality(lo..hi) = IF lo > hi THEN 0 ELSE hi - lo + 1
    BY <1>2, FS_Interval
  <2> QED
    BY <1>1, <1>2, <2>1
<1> QED
  BY <1>8, <1>9 DEF b

(* In one run of the simulator a machine gives every unit an id of its own *)
(* and every batch but the current one exactly UnitsPerBatch units, for    *)
(* any size of batches and any lengths of days, ticks and failures.        *)
THEOREM BatchesFullCorrect == SimSpec => []BatchesFull
<1>1. MadeInv => BatchesFull
  <2> SUFFICES ASSUME MadeInv, NEW m \in Machines
               PROVE  /\ \A i, j \in 1..Len(made[m]) :
                           made[m][i].unit = made[m][j].unit => i = j
                      /\ \A i \in 1..Len(made[m]) :
                           made[m][i].batch # tracker[m].batch =>
                             Cardinality({j \in 1..Len(made[m]) :
                                            made[m][j].batch = made[m][i].batch})
                               = UnitsPerBatch
    BY DEF BatchesFull
  <2>1. /\ tracker[m] \in TrackerType /\ CountersAgree(tracker[m])
        /\ made[m] \in Seq(Pairs) /\ MadeAgrees(tracker[m], made[m])
    BY DEF MadeInv, TypeInv, NodesInv, MachinesInv, BatchArithmetic,
           CountersAgree
  <2>2. \A i, j \in 1..Len(made[m]) :
          made[m][i].unit = made[m][j].unit => i = j
    BY <2>1 DEF MadeAgrees
  <2> QED
    BY <2>1, <2>2, MadeIsFull
<1> QED
  BY <1>1, MadeInit, MadeStep, PTL DEF SimSpec
-----------------------------------------------------------------------------
(* What a step of the simulator does to one machine: a rotation is due and *)
(* leaves the nodes alone; any other step may write one of its nodes.      *)
Kept(m) ==
  /\ tracker'[m] = tracker[m]
  /\ \A f \in FieldNames : node'[m][f] \in {node[m][f], Current(m)[f]}

Rotates(m) ==
  /\ tracker'[m].startedAt = tickTime
  /\ tickTime - tracker[m].startedAt >= UnitDuration
  /\ tracker'[m].unitSeq = tracker[m].unitSeq + 1
  /\ node'[m] = node[m]
  /\ now' = now

LEMMA FieldNamesAre ==
  FieldNames = {"Status", "FaultCode", "CurrentBatchId", "CurrentUnitId",
                "Metric"}
<1>1. /\ Len(Fields) = 5
      /\ Fields[1] = "Status" /\ Fields[2] = "FaultCode"
      /\ Fields[3] = "CurrentBatchId" /\ Fields[4] = "CurrentUnitId"
      /\ Fields[5] = "Metric"
  BY DEF Fields
<1>2. 1..Len(Fields) = {1, 2, 3, 4, 5}
  BY <1>1
<1> QED
  BY <1>1, <1>2 DEF FieldNames

LEMMA SimStepEffect ==
  ASSUME TypeInv, SimNext, restarts' = restarts
  PROVE  /\ TypeInv'
         /\ now' \in {now, now + 1}
         /\ \A m \in Machines : Kept(m) \/ Rotates(m)
<1>1. TypeInv'
  BY TypeStep
<1>2. /\ node \in [Machines -> Nodes] /\ tracker \in [Machines -> TrackerType]
      /\ now \in Nat /\ restarts \in Nat
      /\ at \in 0..NumMachines /\ step \in 0..Len(Fields)
  BY DEF TypeInv, NodesInv, MachinesInv
<1>3. CASE Wake \/ WriteFails \/ Clock
  <2>1. UNCHANGED <<tracker, node>> /\ now' \in {now, now + 1}
    BY <1>3 DEF Wake, WriteFails, Clock
  <2> QED
    BY <1>1, <2>1 DEF Kept
<1>4. CASE Compute
  <2>1. /\ UNCHANGED <<now, node>>
        /\ tracker' = [tracker EXCEPT ![at] = Advanced(@, tickTime)]
    BY <1>4 DEF Compute
  <2>2. ASSUME NEW m \in Machines PROVE Kept(m) \/ Rotates(m)
    <3>1. tracker'[m] = tracker[m] \/ tracker'[m] = Advanced(tracker[m], tickTime)
      BY <1>2, <2>1
    <3>2. CASE tracker'[m] = tracker[m]
      BY <2>1, <3>2 DEF Kept
    <3>3. CASE tracker'[m] = Rotated(tracker[m], tickTime)
               /\ ~(tickTime - tracker[m].startedAt < UnitDuration)
      <4>1. /\ tracker'[m].startedAt = tickTime
            /\ tracker'[m].unitSeq = tracker[m].unitSeq + 1
        BY <3>3 DEF Rotated, Rotation
      <4>2. tickTime \in Nat /\ tracker[m].startedAt \in Nat
            /\ UnitDuration \in Nat
        BY <1>2, MachineAssumption
        DEF TrackerType, TypeInv, NodesInv, MachinesInv
      <4> QED
        BY <2>1, <3>3, <4>1, <4>2 DEF Rotates
    <3> QED
      BY <3>1, <3>2, <3>3 DEF Advanced
  <2> QED
    BY <1>1, <2>1, <2>2
<1>5. CASE Write
  <2>1. /\ UNCHANGED <<now, tracker>>
        /\ node' = [node EXCEPT ![at][Fields[step]] = Current(at)[Fields[step]]]
    BY <1>5 DEF Write
  <2>2. ASSUME NEW m \in Machines, NEW f \in FieldNames
        PROVE  node'[m][f] \in {node[m][f], Current(m)[f]}
    <3>1. CASE m # at
      BY <1>2, <2>1, <3>1
    <3>2. CASE m = at
      <4>1. node'[m] = [node[m] EXCEPT ![Fields[step]]
                                       = Current(m)[Fields[step]]]
        BY <1>2, <2>1, <3>2
      <4>2. node[m] \in Nodes
        BY <1>2
      <4> QED
        BY <4>1, <4>2, FieldNamesAre DEF Nodes
    <3> QED
      BY <3>1, <3>2
  <2> QED
    BY <1>1, <2>1, <2>2 DEF Kept
<1>6. ~Restart
  BY <1>2 DEF Restart
<1> QED
  BY <1>3, <1>4, <1>5, <1>6 DEF SimNext

(* Of the nodes, only batch and unit tell where a machine is. *)
LEMMA CurrentIds ==
  \A m : /\ Current(m)["CurrentBatchId"] = tracker[m].batch
         /\ Current(m)["CurrentUnitId"] = tracker[m].unit
BY DEF Current

(* What the simulator does in the composition is what it does alone. *)
LEMMA SimulatorSteps == [Next]_vars => [SimNext]_simVars
BY DEF Next, SimStep, ServerMonitors, Connected, ConnectFails, SessionLost,
       Publish, Deliver, IngestRestart, vars, simVars

-----------------------------------------------------------------------------
(* The notifications under way, field by field. *)
ValuesOf(f) ==
  IF f = "Status" THEN States
  ELSE IF f = "FaultCode" THEN BOOLEAN
  ELSE IF f = "Metric" THEN {"zero", "idle", "running", "fault"}
  ELSE Ids

IsStream(s) ==
  /\ s = [m \in Machines |-> [f \in FieldNames |-> s[m][f]]]
  /\ \A m \in Machines, f \in FieldNames : s[m][f] \in Seq(ValuesOf(f))

Stored ==
  [Status : States \cup {"none"}, FaultCode : {FALSE}, CurrentBatchId : Ids,
   CurrentUnitId : Ids, Metric : {"none", "zero", "idle", "running", "fault"}]

Elems(s) == {s[i] : i \in 1..Len(s)}

(* What ingest holds of a field, or is still going to hear of it. *)
Carried(m, f) ==
  {store[m][f]} \cup Elems(inbox[m][f])
    \cup UNION {Elems(window[a][m][f]) : a \in Attempts}

StreamInv ==
  /\ attempt \in Attempts
  /\ client \in {"connecting", "monitored", "active"}
  /\ feeds \subseteq 1..attempt
  /\ lost \in BOOLEAN
  /\ window = [a \in Attempts |-> window[a]]
  /\ \A a \in Attempts : IsStream(window[a])
  /\ IsStream(inbox)
  /\ store \in [Machines -> Stored]
  /\ \A a \in Attempts \ feeds : window[a] = NoNotifications

(* What is carried comes from the nodes; a restart of ingest, which alone  *)
(* forgets a lost session, forgets everything.                             *)
Passes ==
  \A m \in Machines, f \in FieldNames :
    /\ Carried(m, f)' \subseteq Carried(m, f) \cup {node'[m][f], NoState[f]}
    /\ lost /\ ~lost' => Carried(m, f)' \subseteq {NoState[f]}

LEMMA NodeValues ==
  ASSUME NEW r \in Nodes, NEW f \in FieldNames
  PROVE  r[f] \in ValuesOf(f)
BY FieldNamesAre DEF Nodes, ValuesOf

(* One notification more, one less, and the elements of what is left. *)
LEMMA ElemsOfAppend ==
  ASSUME NEW S, NEW s \in Seq(S), NEW e \in S
  PROVE  /\ Append(s, e) \in Seq(S)
         /\ Elems(Append(s, e)) = Elems(s) \cup {e}
<1>1. Len(s) \in Nat
  BY LenProperties
<1>2. /\ Append(s, e) \in Seq(S)
      /\ Len(Append(s, e)) = Len(s) + 1
      /\ \A i \in 1..Len(s) : Append(s, e)[i] = s[i]
      /\ Append(s, e)[Len(s) + 1] = e
  BY AppendProperties
<1>3. 1..(Len(s) + 1) = 1..Len(s) \cup {Len(s) + 1}
  BY <1>1
<1> QED
  BY <1>2, <1>3 DEF Elems

LEMMA ElemsOfTail ==
  ASSUME NEW S, NEW s \in Seq(S), s # <<>>
  PROVE  /\ Tail(s) \in Seq(S)
         /\ Head(s) \in S
         /\ Head(s) \in Elems(s)
         /\ Elems(Tail(s)) \subseteq Elems(s)
<1>1. /\ Tail(s) \in Seq(S) /\ Head(s) \in S
      /\ Len(Tail(s)) = Len(s) - 1
      /\ \A i \in 1..Len(Tail(s)) : Tail(s)[i] = s[i + 1]
  BY HeadTailProperties
<1>2. Len(s) \in Nat \ {0} /\ Head(s) = s[1]
  BY EmptySeq
<1>3. \A i \in 1..(Len(s) - 1) : i + 1 \in 1..Len(s)
  BY <1>2
<1> QED
  BY <1>1, <1>2, <1>3 DEF Elems

LEMMA ElemsOfOne ==
  ASSUME NEW S, NEW e \in S
  PROVE  /\ <<e>> \in Seq(S) /\ Elems(<<e>>) = {e}
         /\ <<>> \in Seq(S) /\ Elems(<<>>) = {}
BY DEF Elems

LEMMA NoStream ==
  /\ IsStream(NoNotifications)
  /\ \A m \in Machines, f \in FieldNames :
       /\ NoNotifications[m][f] = <<>>
       /\ Elems(NoNotifications[m][f]) = {}
<1>1. \A f \in FieldNames : <<>> \in Seq(ValuesOf(f))
  OBVIOUS
<1>2. \A m \in Machines, f \in FieldNames : NoNotifications[m][f] = <<>>
  BY DEF NoNotifications
<1>3. Elems(<<>>) = {}
  BY DEF Elems
<1>4. NoNotifications = [m \in Machines |-> [f \in FieldNames |->
                           NoNotifications[m][f]]]
  BY <1>2 DEF NoNotifications
<1> QED
  BY <1>1, <1>2, <1>3, <1>4 DEF IsStream

LEMMA StreamsInit == Init => StreamInv
<1> SUFFICES ASSUME Init PROVE StreamInv
  OBVIOUS
<1>1. 1 \in Attempts
  BY PipelineAssumption DEF Attempts
<1>2. NoState \in Stored
  BY DEF NoState, Stored, NoId, Ids
<1> QED
  BY <1>1, <1>2, NoStream DEF Init, StreamInv

(* Steps that leave the notifications and the store alone. *)
LEMMA AttemptStreams ==
  ASSUME StreamInv, Connected \/ ConnectFails
  PROVE  StreamInv' /\ Passes
<1>1. /\ UNCHANGED <<feeds, lost, window, inbox, store>>
      /\ attempt' \in Attempts /\ client' \in {"connecting", "active"}
      /\ attempt' \in {attempt, attempt + 1}
  BY PipelineAssumption DEF Connected, ConnectFails, StreamInv, Attempts
<1>2. feeds' \subseteq 1..attempt'
  BY <1>1 DEF StreamInv, Attempts
<1> QED
  BY <1>1, <1>2 DEF StreamInv, Passes, Carried

(* The server queues the current values. *)
LEMMA MonitorsStreams ==
  ASSUME TypeInv, StreamInv, ServerMonitors
  PROVE  StreamInv' /\ Passes
<1> DEFINE w == [m \in Machines |-> [f \in FieldNames |-> <<node[m][f]>>]]
<1>1. /\ client' = "monitored"
      /\ feeds' = feeds \cup {attempt}
      /\ window' = [window EXCEPT ![attempt] = w]
      /\ UNCHANGED <<node, attempt, lost, inbox, store>>
  BY DEF ServerMonitors, simVars
<1>2. \A m \in Machines, f \in FieldNames : node[m][f] \in ValuesOf(f)
  BY NodeValues DEF TypeInv, NodesInv
<1>3. \A m \in Machines, f \in FieldNames :
        /\ w[m][f] = <<node[m][f]>>
        /\ w[m][f] \in Seq(ValuesOf(f))
        /\ Elems(w[m][f]) = {node[m][f]}
  BY <1>2, ElemsOfOne
<1>4. w = [m \in Machines |-> [f \in FieldNames |-> w[m][f]]]
  OBVIOUS
<1> HIDE DEF w
<1>5. IsStream(w)
  BY <1>3, <1>4 DEF IsStream
<1>6. attempt \in Attempts
  BY DEF StreamInv
<1>7. /\ window' = [a \in Attempts |-> window'[a]]
      /\ window'[attempt] = w
      /\ \A a \in Attempts : a # attempt => window'[a] = window[a]
  BY <1>1, <1>6 DEF StreamInv
<1>8. StreamInv'
  <2>1. feeds' \subseteq 1..attempt'
    BY <1>1 DEF StreamInv, Attempts
  <2> QED
    BY <1>1, <1>5, <1>7, <2>1 DEF StreamInv
<1>9. Passes
  <2>1. ASSUME NEW m \in Machines, NEW f \in FieldNames, NEW b \in Attempts
        PROVE  Elems(window'[b][m][f]) \subseteq
                 {node'[m][f]} \cup Elems(window[b][m][f])
    BY <1>1, <1>3, <1>7
  <2> QED
    BY <1>1, <2>1 DEF Passes, Carried
<1> QED
  BY <1>8, <1>9

LEMMA LostStreams ==
  ASSUME StreamInv, NEW a \in Attempts, SessionLost(a)
  PROVE  StreamInv' /\ Passes
<1>1. /\ lost' = TRUE
      /\ feeds' = feeds \ {a}
      /\ window' = [window EXCEPT ![a] = NoNotifications]
      /\ UNCHANGED <<attempt, client, inbox, store>>
  BY DEF SessionLost
<1>2. /\ window' = [b \in Attempts |-> window'[b]]
      /\ window'[a] = NoNotifications
      /\ \A b \in Attempts : b # a => window'[b] = window[b]
  BY <1>1 DEF StreamInv
<1>3. StreamInv'
  BY <1>1, <1>2, NoStream DEF StreamInv
<1>4. Passes
  BY <1>1, <1>2, NoStream DEF Passes, Carried
<1> QED
  BY <1>3, <1>4

LEMMA PublishStreams ==
  ASSUME StreamInv, NEW a \in Attempts, Publish(a)
  PROVE  StreamInv' /\ Passes
<1>1. /\ inbox' = window[a]
      /\ window' = [window EXCEPT ![a] = NoNotifications]
      /\ UNCHANGED <<attempt, client, feeds, lost, store>>
  BY DEF Publish, sessionVars
<1>2. /\ window' = [b \in Attempts |-> window'[b]]
      /\ window'[a] = NoNotifications
      /\ \A b \in Attempts : b # a => window'[b] = window[b]
  BY <1>1 DEF StreamInv
<1>3. StreamInv'
  BY <1>1, <1>2, NoStream DEF StreamInv
<1>4. Passes
  <2>1. ASSUME NEW m \in Machines, NEW f \in FieldNames, NEW b \in Attempts
        PROVE  Elems(window'[b][m][f]) \subseteq Elems(window[b][m][f])
    BY <1>2, NoStream
  <2>2. \A m, f : Elems(inbox'[m][f]) = Elems(window[a][m][f])
    BY <1>1
  <2> QED
    BY <1>1, <2>1, <2>2 DEF Passes, Carried
<1> QED
  BY <1>3, <1>4

(* A change of a node is queued by every feed. *)
LEMMA SimStreams ==
  ASSUME TypeInv, StreamInv, SimStep
  PROVE  StreamInv' /\ Passes
<1>1. /\ SimNext /\ restarts' = restarts
      /\ window' = [a \in Attempts |-> [m \in Machines |-> [f \in FieldNames |->
           IF a \in feeds /\ node'[m][f] # node[m][f]
           THEN Append(window[a][m][f], node'[m][f]) ELSE window[a][m][f]]]]
      /\ UNCHANGED <<attempt, client, feeds, lost, inbox, store>>
  BY DEF SimStep, sessionVars
<1>2. \A m \in Machines, f \in FieldNames : node'[m][f] \in ValuesOf(f)
  <2>1. node' \in [Machines -> Nodes]
    BY <1>1, SimStepEffect DEF TypeInv, NodesInv
  <2> QED
    BY <2>1, NodeValues
<1>3. ASSUME NEW a \in Attempts, NEW m \in Machines, NEW f \in FieldNames
      PROVE  /\ window'[a][m][f] \in Seq(ValuesOf(f))
             /\ Elems(window'[a][m][f])
                  \subseteq Elems(window[a][m][f]) \cup {node'[m][f]}
  <2>1. window[a][m][f] \in Seq(ValuesOf(f))
    BY DEF StreamInv, IsStream
  <2>2. \/ window'[a][m][f] = window[a][m][f]
        \/ window'[a][m][f] = Append(window[a][m][f], node'[m][f])
    BY <1>1
  <2>3. /\ Append(window[a][m][f], node'[m][f]) \in Seq(ValuesOf(f))
        /\ Elems(Append(window[a][m][f], node'[m][f]))
             = Elems(window[a][m][f]) \cup {node'[m][f]}
    BY <1>2, <2>1, ElemsOfAppend
  <2> QED
    BY <2>1, <2>2, <2>3
<1>4. \A a \in Attempts : IsStream(window'[a])
  BY <1>1, <1>3 DEF IsStream
<1>5. \A a \in Attempts \ feeds : window'[a] = NoNotifications
  <2> SUFFICES ASSUME NEW a \in Attempts \ feeds
               PROVE  window'[a] = NoNotifications
    OBVIOUS
  <2>1. window'[a] = [m \in Machines |-> [f \in FieldNames |-> window[a][m][f]]]
    BY <1>1
  <2>2. window[a] = NoNotifications
    BY DEF StreamInv
  <2> QED
    BY <2>1, <2>2 DEF NoNotifications
<1>6. StreamInv'
  BY <1>1, <1>4, <1>5 DEF StreamInv
<1>7. Passes
  <2>1. \A m \in Machines, f \in FieldNames, a \in Attempts :
          Elems(window'[a][m][f])
            \subseteq Elems(window[a][m][f]) \cup {node'[m][f]}
    BY <1>3
  <2>2. UNCHANGED <<lost, inbox, store>>
    BY <1>1
  <2> QED
    BY <2>1, <2>2 DEF Passes, Carried
<1> QED
  BY <1>6, <1>7

(* The store takes one notification out of the response. *)
LEMMA StoreChanges ==
  ASSUME StreamInv, NEW m \in Machines, NEW f \in FieldNames,
         NEW v \in ValuesOf(f), store' = Changed(m, f, v)
  PROVE  /\ store' \in [Machines -> Stored]
         /\ f # "FaultCode" => store'[m][f] = v
         /\ \A n \in Machines, g \in FieldNames :
              (n # m \/ g # f \/ f = "FaultCode") => store'[n][g] = store[n][g]
<1>1. store \in [Machines -> Stored] /\ store[m] \in Stored
  BY DEF StreamInv
<1>2. CASE f = "FaultCode"
  BY <1>1, <1>2 DEF Changed
<1>3. CASE f # "FaultCode"
  <2> DEFINE new == [store[m] EXCEPT ![f] = v]
  <2>1. store' = [store EXCEPT ![m] = new]
    BY <1>1, <1>3 DEF Changed
  <2>2. new \in Stored /\ new[f] = v
        /\ \A g \in FieldNames : g # f => new[g] = store[m][g]
    <3>1. CASE f = "Status"
      BY <1>1, <3>1, FieldNamesAre DEF Stored, ValuesOf
    <3>2. CASE f = "CurrentBatchId"
      BY <1>1, <3>2, FieldNamesAre DEF Stored, ValuesOf
    <3>3. CASE f = "CurrentUnitId"
      BY <1>1, <3>3, FieldNamesAre DEF Stored, ValuesOf
    <3>4. CASE f = "Metric"
      BY <1>1, <3>4, FieldNamesAre DEF Stored, ValuesOf
    <3> QED
      BY <1>3, <3>1, <3>2, <3>3, <3>4, FieldNamesAre
  <2> HIDE DEF new
  <2> QED
    BY <1>1, <1>3, <2>1, <2>2
<1> QED
  BY <1>2, <1>3

LEMMA DeliverStreams ==
  ASSUME StreamInv, NEW m \in Machines, NEW f \in FieldNames, Deliver(m, f)
  PROVE  StreamInv' /\ Passes
<1> DEFINE v == Head(inbox[m][f])
<1>1. /\ inbox[m][f] # <<>>
      /\ store' = Changed(m, f, v)
      /\ inbox' = [inbox EXCEPT ![m][f] = Tail(@)]
      /\ UNCHANGED <<attempt, client, feeds, lost, window>>
  BY DEF Deliver, sessionVars
<1>2. /\ inbox[m][f] \in Seq(ValuesOf(f))
      /\ inbox = [n \in Machines |-> [g \in FieldNames |-> inbox[n][g]]]
  BY DEF StreamInv, IsStream
<1>3. /\ Tail(inbox[m][f]) \in Seq(ValuesOf(f))
      /\ v \in ValuesOf(f)
      /\ v \in Elems(inbox[m][f])
      /\ Elems(Tail(inbox[m][f])) \subseteq Elems(inbox[m][f])
  BY <1>1, <1>2, ElemsOfTail
<1> HIDE DEF v
<1>4. /\ inbox'[m][f] = Tail(inbox[m][f])
      /\ \A n \in Machines, g \in FieldNames :
           (n # m \/ g # f) => inbox'[n][g] = inbox[n][g]
      /\ inbox' = [n \in Machines |-> [g \in FieldNames |-> inbox'[n][g]]]
  BY <1>1, <1>2
<1>5. IsStream(inbox)'
  <2>1. \A n \in Machines, g \in FieldNames : inbox[n][g] \in Seq(ValuesOf(g))
    BY DEF StreamInv, IsStream
  <2>2. \A n \in Machines, g \in FieldNames : inbox'[n][g] \in Seq(ValuesOf(g))
    BY <1>3, <1>4, <2>1
  <2> QED
    BY <1>4, <2>2 DEF IsStream
<1>6. /\ store' \in [Machines -> Stored]
      /\ f # "FaultCode" => store'[m][f] = v
      /\ \A n \in Machines, g \in FieldNames :
           (n # m \/ g # f \/ f = "FaultCode") => store'[n][g] = store[n][g]
  BY <1>1, <1>3, StoreChanges
<1>7. StreamInv'
  BY <1>1, <1>5, <1>6 DEF StreamInv
<1>8. Passes
  <2> SUFFICES ASSUME NEW n \in Machines, NEW g \in FieldNames
               PROVE  Carried(n, g)' \subseteq Carried(n, g)
    BY <1>1 DEF Passes, StreamInv
  <2>1. CASE n = m /\ g = f
    <3>1. store'[n][g] \in {store[n][g], v}
      BY <1>6, <2>1
    <3> QED
      BY <1>1, <1>3, <1>4, <2>1, <3>1 DEF Carried
  <2>2. CASE n # m \/ g # f
    BY <1>1, <1>4, <1>6, <2>2 DEF Carried
  <2> QED
    BY <2>1, <2>2
<1> QED
  BY <1>7, <1>8

(* Ingest knows nothing when it starts again. *)
LEMMA RestartStreams ==
  ASSUME StreamInv, IngestRestart
  PROVE  StreamInv' /\ Passes
<1>1. /\ attempt < MaxAttempts /\ attempt' = attempt + 1
      /\ client' = "connecting" /\ feeds' = {} /\ lost' = FALSE
      /\ window' = [a \in Attempts |-> NoNotifications]
      /\ inbox' = NoNotifications
      /\ store' = [m \in Machines |-> NoState]
  BY DEF IngestRestart
<1>2. attempt' \in Attempts
  BY <1>1, PipelineAssumption DEF StreamInv, Attempts
<1>3. NoState \in Stored
  BY DEF NoState, Stored, NoId, Ids
<1>4. StreamInv'
  BY <1>1, <1>2, <1>3, NoStream DEF StreamInv
<1>5. ASSUME NEW m \in Machines, NEW f \in FieldNames
      PROVE  Carried(m, f)' \subseteq {NoState[f]}
  BY <1>1, NoStream DEF Carried
<1> QED
  BY <1>4, <1>5 DEF Passes

LEMMA StreamsStep ==
  TypeInv /\ StreamInv /\ [Next]_vars => TypeInv' /\ StreamInv' /\ Passes
<1> SUFFICES ASSUME TypeInv, StreamInv, [Next]_vars
             PROVE  TypeInv' /\ StreamInv' /\ Passes
  OBVIOUS
<1>1. CASE SimStep
  <2>1. TypeInv'
    BY <1>1, SimStepEffect DEF SimStep
  <2> QED
    BY <1>1, <2>1, SimStreams
<1>2. ASSUME UNCHANGED simVars PROVE TypeInv'
  BY <1>2, TypeStep
<1>3. CASE Connected \/ ConnectFails
  BY <1>2, <1>3, AttemptStreams DEF Connected, ConnectFails
<1>4. CASE ServerMonitors
  BY <1>2, <1>4, MonitorsStreams DEF ServerMonitors
<1>5. CASE \E a \in Attempts : SessionLost(a) \/ Publish(a)
  BY <1>2, <1>5, LostStreams, PublishStreams DEF SessionLost, Publish
<1>6. CASE \E m \in Machines, f \in FieldNames : Deliver(m, f)
  BY <1>2, <1>6, DeliverStreams DEF Deliver
<1>7. CASE IngestRestart
  BY <1>2, <1>7, RestartStreams DEF IngestRestart
<1>8. CASE UNCHANGED vars
  BY <1>2, <1>8
  DEF vars, ingestVars, sessionVars, StreamInv, Passes, Carried
<1> QED
  BY <1>1, <1>3, <1>4, <1>5, <1>6, <1>7, <1>8 DEF Next

-----------------------------------------------------------------------------
(* Every stream ends in the value of its node, so the store, once nothing  *)
(* is under way, has that value; before the first feed it has none.        *)
LastOf(s) == s[Len(s)]

Heard == FieldNames \ {"FaultCode"}

Idles(m, f) == inbox[m][f] = <<>> /\ \A a \in feeds : window[a][m][f] = <<>>

FollowInv ==
  /\ \A a \in feeds, m \in Machines, f \in FieldNames :
       window[a][m][f] # <<>> => LastOf(window[a][m][f]) = node[m][f]
  /\ \A m \in Machines, f \in FieldNames :
       inbox[m][f] # <<>> => LastOf(inbox[m][f]) = node[m][f]
  /\ feeds # {} /\ ~lost =>
       \A m \in Machines, f \in Heard :
         Idles(m, f) => store[m][f] = node[m][f]
  /\ feeds = {} /\ ~lost =>
       /\ \A m \in Machines, f \in FieldNames : store[m][f] = NoState[f]
       /\ ~Handling

LEMMA FeedsAre == StreamInv => feeds \subseteq Attempts
BY PipelineAssumption DEF StreamInv, Attempts

LEMMA FollowsInit == Init => FollowInv
BY DEF Init, FollowInv, Handling, NoNotifications

LEMMA LastOfAppend ==
  ASSUME NEW S, NEW s \in Seq(S), NEW e \in S
  PROVE  LastOf(Append(s, e)) = e /\ Append(s, e) # <<>>
BY AppendProperties DEF LastOf

LEMMA LastOfTail ==
  ASSUME NEW S, NEW s \in Seq(S), s # <<>>
  PROVE  /\ Tail(s) # <<>> => LastOf(Tail(s)) = LastOf(s)
         /\ Tail(s) = <<>> => Head(s) = LastOf(s)
<1>1. /\ Tail(s) \in Seq(S)
      /\ Len(Tail(s)) = Len(s) - 1
      /\ \A i \in 1..Len(Tail(s)) : Tail(s)[i] = s[i + 1]
  BY HeadTailProperties
<1>2. Len(s) \in Nat \ {0} /\ Head(s) = s[1]
  BY EmptySeq
<1>3. Tail(s) # <<>> => Len(Tail(s)) \in 1..Len(Tail(s))
  BY <1>1, EmptySeq
<1>4. Tail(s) # <<>> => LastOf(Tail(s)) = LastOf(s)
  BY <1>1, <1>2, <1>3 DEF LastOf
<1>5. ASSUME Tail(s) = <<>> PROVE Len(s) = 1
  <2> DEFINE t == Tail(s)
  <2>1. Len(t) = 0
    <3>1. t = <<>>
      BY <1>5
    <3> HIDE DEF t
    <3> QED
      BY <3>1
  <2>2. Len(s) - 1 = 0 /\ Len(s) \in Nat
    BY <1>1, <1>2, <2>1
  <2> QED
    BY <2>2
<1> QED
  BY <1>2, <1>4, <1>5 DEF LastOf

LEMMA SimFollows ==
  ASSUME TypeInv, StreamInv, FollowInv, SimStep
  PROVE  FollowInv'
<1>1. /\ ~Handling
      /\ SimNext /\ restarts' = restarts
      /\ window' = [a \in Attempts |-> [m \in Machines |-> [f \in FieldNames |->
           IF a \in feeds /\ node'[m][f] # node[m][f]
           THEN Append(window[a][m][f], node'[m][f]) ELSE window[a][m][f]]]]
      /\ UNCHANGED <<feeds, lost, inbox, store>>
  BY DEF SimStep, sessionVars
<1>2. feeds \subseteq Attempts
  BY FeedsAre
<1>3. \A m \in Machines, f \in FieldNames : inbox[m][f] = <<>>
  BY <1>1, NoStream DEF Handling
<1>4. \A m \in Machines, f \in FieldNames : node'[m][f] \in ValuesOf(f)
  <2>1. node' \in [Machines -> Nodes]
    BY <1>1, SimStepEffect DEF TypeInv, NodesInv
  <2> QED
    BY <2>1, NodeValues
<1>5. ASSUME NEW a \in feeds, NEW m \in Machines, NEW f \in FieldNames
      PROVE  \/ node'[m][f] = node[m][f]
                /\ window'[a][m][f] = window[a][m][f]
             \/ window'[a][m][f] # <<>>
                /\ LastOf(window'[a][m][f]) = node'[m][f]
  <2>1. window[a][m][f] \in Seq(ValuesOf(f))
    BY <1>2 DEF StreamInv, IsStream
  <2>2. CASE node'[m][f] = node[m][f]
    BY <1>1, <1>2, <2>2
  <2>3. CASE node'[m][f] # node[m][f]
    <3>1. window'[a][m][f] = Append(window[a][m][f], node'[m][f])
      BY <1>1, <1>2, <2>3
    <3> QED
      BY <1>4, <2>1, <3>1, LastOfAppend
  <2> QED
    BY <2>2, <2>3
<1>6. \A a \in feeds, m \in Machines, f \in FieldNames :
        window'[a][m][f] # <<>> => LastOf(window'[a][m][f]) = node'[m][f]
  BY <1>5 DEF FollowInv
<1>7. ASSUME feeds # {}, ~lost, NEW m \in Machines, NEW f \in Heard,
             Idles(m, f)'
      PROVE  store'[m][f] = node'[m][f]
  <2>1. PICK a \in feeds : TRUE
    BY <1>7
  <2>2. f \in FieldNames
    BY DEF Heard
  <2>3. \A b \in feeds : window'[b][m][f] = <<>>
    BY <1>1, <1>7 DEF Idles
  <2>4. node'[m][f] = node[m][f] /\ \A b \in feeds : window[b][m][f] = <<>>
    BY <1>5, <2>1, <2>2, <2>3
  <2>5. Idles(m, f)
    BY <1>3, <2>2, <2>4 DEF Idles
  <2> QED
    BY <1>1, <1>7, <2>4, <2>5 DEF FollowInv
<1> QED
  BY <1>1, <1>3, <1>6, <1>7 DEF FollowInv, Handling

LEMMA MonitorsFollows ==
  ASSUME StreamInv, FollowInv, ServerMonitors
  PROVE  FollowInv'
<1>1. /\ feeds' = feeds \cup {attempt}
      /\ window' = [window EXCEPT ![attempt] =
           [m \in Machines |-> [f \in FieldNames |-> <<node[m][f]>>]]]
      /\ UNCHANGED <<node, lost, inbox, store>>
  BY DEF ServerMonitors, simVars
<1>2. attempt \in Attempts /\ window = [a \in Attempts |-> window[a]]
  BY DEF StreamInv
<1>3. \A m \in Machines, f \in FieldNames :
        window'[attempt][m][f] = <<node[m][f]>>
  BY <1>1, <1>2
<1>4. \A a \in feeds : a # attempt => window'[a] = window[a]
  BY <1>1, <1>2
<1>5. \A m \in Machines, f \in FieldNames :
        /\ window'[attempt][m][f] # <<>>
        /\ LastOf(window'[attempt][m][f]) = node[m][f]
  BY <1>3 DEF LastOf
<1>6. \A a \in feeds', m \in Machines, f \in FieldNames :
        window'[a][m][f] # <<>> => LastOf(window'[a][m][f]) = node'[m][f]
  BY <1>1, <1>4, <1>5 DEF FollowInv
<1>7. \A m \in Machines, f \in Heard : ~Idles(m, f)'
  BY <1>1, <1>5 DEF Idles, Heard
<1> QED
  BY <1>1, <1>6, <1>7 DEF FollowInv

LEMMA PublishFollows ==
  ASSUME StreamInv, FollowInv, NEW a \in Attempts, Publish(a)
  PROVE  FollowInv'
<1>1. /\ ~Handling
      /\ window[a] # NoNotifications
      /\ inbox' = window[a]
      /\ window' = [window EXCEPT ![a] = NoNotifications]
      /\ UNCHANGED <<node, feeds, lost, store>>
  BY DEF Publish, sessionVars, simVars
<1>2. a \in feeds /\ feeds \subseteq Attempts
      /\ window = [b \in Attempts |-> window[b]]
  BY <1>1, FeedsAre DEF StreamInv
<1>3. /\ \A m \in Machines, f \in FieldNames : window'[a][m][f] = <<>>
      /\ \A b \in feeds : b # a => window'[b] = window[b]
  BY <1>1, <1>2, NoStream
<1>4. \A m \in Machines, f \in FieldNames : inbox[m][f] = <<>>
  BY <1>1, NoStream DEF Handling
<1>5. ASSUME NEW m \in Machines, NEW f \in Heard, Idles(m, f)'
      PROVE  Idles(m, f)
  BY <1>1, <1>3, <1>4, <1>5 DEF Idles, Heard
<1>6. \A b \in feeds', m \in Machines, f \in FieldNames :
        window'[b][m][f] # <<>> => LastOf(window'[b][m][f]) = node'[m][f]
  BY <1>1, <1>3 DEF FollowInv
<1>7. \A m \in Machines, f \in FieldNames :
        inbox'[m][f] # <<>> => LastOf(inbox'[m][f]) = node'[m][f]
  BY <1>1, <1>2 DEF FollowInv
<1> QED
  BY <1>1, <1>2, <1>5, <1>6, <1>7 DEF FollowInv

LEMMA DeliverFollows ==
  ASSUME StreamInv, FollowInv, NEW m \in Machines, NEW f \in FieldNames,
         Deliver(m, f)
  PROVE  FollowInv'
<1>1. /\ inbox[m][f] # <<>>
      /\ store' = Changed(m, f, Head(inbox[m][f]))
      /\ inbox' = [inbox EXCEPT ![m][f] = Tail(@)]
      /\ UNCHANGED <<node, feeds, lost, window>>
  BY DEF Deliver, sessionVars, simVars
<1>2. /\ inbox[m][f] \in Seq(ValuesOf(f))
      /\ inbox = [n \in Machines |-> [g \in FieldNames |-> inbox[n][g]]]
  BY DEF StreamInv, IsStream
<1>3. /\ inbox'[m][f] = Tail(inbox[m][f])
      /\ \A n \in Machines, g \in FieldNames :
           (n # m \/ g # f) => inbox'[n][g] = inbox[n][g]
  BY <1>1, <1>2
<1>4. /\ Tail(inbox[m][f]) # <<>>
           => LastOf(Tail(inbox[m][f])) = LastOf(inbox[m][f])
      /\ Tail(inbox[m][f]) = <<>> => Head(inbox[m][f]) = LastOf(inbox[m][f])
  BY <1>1, <1>2, LastOfTail
<1>5. Head(inbox[m][f]) \in ValuesOf(f)
  BY <1>1, <1>2, ElemsOfTail
<1>6. /\ f # "FaultCode" => store'[m][f] = Head(inbox[m][f])
      /\ \A n \in Machines, g \in FieldNames :
           (n # m \/ g # f \/ f = "FaultCode") => store'[n][g] = store[n][g]
  BY <1>1, <1>5, StoreChanges
<1>7. LastOf(inbox[m][f]) = node[m][f]
  BY <1>1 DEF FollowInv
<1>8. feeds # {} \/ lost
  BY <1>1, NoStream DEF FollowInv, Handling
<1>9. \A n \in Machines, g \in FieldNames :
        inbox'[n][g] # <<>> => LastOf(inbox'[n][g]) = node'[n][g]
  BY <1>1, <1>3, <1>4, <1>7 DEF FollowInv
<1>10. ASSUME feeds # {}, ~lost, NEW n \in Machines, NEW g \in Heard,
              Idles(n, g)'
       PROVE  store'[n][g] = node'[n][g]
  <2>1. g \in FieldNames /\ g # "FaultCode"
    BY DEF Heard
  <2>2. CASE n = m /\ g = f
    <3>1. Tail(inbox[m][f]) = <<>>
      BY <1>3, <1>10, <2>2 DEF Idles
    <3> QED
      BY <1>1, <1>4, <1>6, <1>7, <2>1, <2>2, <3>1
  <2>3. CASE n # m \/ g # f
    <3>1. Idles(n, g)
      BY <1>1, <1>3, <1>10, <2>1, <2>3 DEF Idles
    <3> QED
      BY <1>1, <1>6, <1>10, <2>1, <2>3, <3>1 DEF FollowInv
  <2> QED
    BY <2>2, <2>3
<1> QED
  BY <1>1, <1>8, <1>9, <1>10 DEF FollowInv

LEMMA FollowsStep ==
  TypeInv /\ StreamInv /\ FollowInv /\ [Next]_vars => FollowInv'
<1> SUFFICES ASSUME TypeInv, StreamInv, FollowInv, [Next]_vars
             PROVE  FollowInv'
  OBVIOUS
<1>1. CASE Connected \/ ConnectFails \/ UNCHANGED vars
  <2>1. UNCHANGED <<node, feeds, lost, window, inbox, store>>
    BY <1>1 DEF Connected, ConnectFails, vars, ingestVars, sessionVars, simVars
  <2> QED
    BY <2>1 DEF FollowInv, Idles, Handling
<1>2. ASSUME NEW a \in Attempts, SessionLost(a) PROVE FollowInv'
  <2>1. /\ lost' = TRUE
        /\ feeds' = feeds \ {a}
        /\ window' = [window EXCEPT ![a] = NoNotifications]
        /\ UNCHANGED <<node, inbox>>
    BY <1>2 DEF SessionLost, simVars
  <2>2. \A b \in feeds' : window'[b] = window[b]
    BY <2>1 DEF StreamInv, Attempts
  <2> QED
    BY <2>1, <2>2 DEF FollowInv
<1>3. CASE IngestRestart
  BY <1>3, NoStream DEF IngestRestart, FollowInv, Handling
<1> QED
  BY <1>1, <1>2, <1>3, SimFollows, MonitorsFollows, PublishFollows,
     DeliverFollows DEF Next

-----------------------------------------------------------------------------
(* Where a machine is: its unit and the one before, and their batches. *)
IdFields == {"CurrentBatchId", "CurrentUnitId"}

LastTwo(s) == {Len(s) - 1, Len(s)} \cap 1..Len(s)

LastIds(s, f) ==
  IF f = "CurrentUnitId" THEN {s[i].unit : i \in LastTwo(s)}
  ELSE {s[i].batch : i \in LastTwo(s)}

Recent(m, f) == {NoId} \cup LastIds(made[m], f)

Due(m) == now - tracker[m].startedAt >= UnitDuration

(* A unit is never overdue; when it is due, everybody has heard of it.     *)
(* After a lost session this holds of the nodes alone.                     *)
RecentInv ==
  \A m \in Machines :
    /\ tracker[m].startedAt <= now
    /\ now - tracker[m].startedAt <= UnitDuration
    /\ \A f \in IdFields :
         /\ node[m][f] \in Recent(m, f)
         /\ ~lost => Carried(m, f) \subseteq Recent(m, f)
         /\ Due(m) => /\ node[m][f] = Current(m)[f]
                      /\ ~lost => Carried(m, f) \subseteq {NoId, Current(m)[f]}

(* The tracker's own ids are the last it has given out; after a rotation   *)
(* they are the last but one.                                              *)
LEMMA CurrentIsRecent ==
  ASSUME MadeInv, NEW m \in Machines, NEW f \in IdFields
  PROVE  /\ Current(m)[f] \in Recent(m, f)
         /\ \A e \in Pairs :
              Current(m)[f] \in LastIds(Append(made[m], e), f)
<1> DEFINE s == made[m]
           n == Len(s)
<1>1. /\ n \in Nat /\ n >= 1 /\ s \in Seq(Pairs)
      /\ s[n] = [batch |-> tracker[m].batch, unit |-> tracker[m].unit]
  BY LenProperties DEF MadeInv, MadeAgrees, TypeInv
<1>2. n \in LastTwo(s)
  BY <1>1 DEF LastTwo
<1>3. Current(m)[f] = IF f = "CurrentUnitId" THEN s[n].unit ELSE s[n].batch
  BY <1>1, CurrentIds DEF IdFields
<1>4. Current(m)[f] \in Recent(m, f)
  BY <1>2, <1>3 DEF Recent, LastIds
<1>5. ASSUME NEW e \in Pairs
      PROVE  Current(m)[f] \in LastIds(Append(s, e), f)
  <2>1. Len(Append(s, e)) = n + 1 /\ Append(s, e)[n] = s[n]
    BY <1>1, AppendProperties
  <2>2. n \in LastTwo(Append(s, e))
    BY <1>1, <2>1 DEF LastTwo
  <2> QED
    BY <1>3, <2>1, <2>2 DEF LastIds
<1> QED
  BY <1>4, <1>5

LEMMA NoIdIsRecent ==
  \A m : \A f \in IdFields : NoId \in Recent(m, f) /\ NoState[f] = NoId
BY DEF Recent, NoState, IdFields

LEMMA RecentInit == Init => RecentInv
<1> SUFFICES ASSUME Init, NEW m \in Machines
             PROVE  /\ tracker[m].startedAt = 0 /\ now = 0
                    /\ \A f \in IdFields :
                         node[m][f] = NoId /\ Carried(m, f) = {NoId}
  <2>1. UnitDuration \in Nat \ {0}
    BY MachineAssumption
  <2> QED
    BY <2>1, NoIdIsRecent DEF RecentInv, Due
<1>1. tracker[m].startedAt = 0 /\ now = 0
  BY DEF Init, SimInit, NewTrackers, NewTracker
<1>2. \A f \in IdFields : node[m][f] = NoId
  BY DEF Init, SimInit, Blank, IdFields
<1>3. \A f \in IdFields : Carried(m, f) = {NoId}
  <2> TAKE f \in IdFields
  <2>1. f \in FieldNames
    BY FieldNamesAre DEF IdFields
  <2>2. store[m][f] = NoId
    BY NoIdIsRecent DEF Init
  <2>3. \A a \in Attempts : window[a] = NoNotifications
    BY DEF Init
  <2>4. inbox = NoNotifications
    BY DEF Init
  <2> QED
    BY <2>1, <2>2, <2>3, <2>4, NoStream DEF Carried
<1> QED
  BY <1>1, <1>2, <1>3

(* In this composition the simulator goes on: nothing given out is taken   *)
(* back.                                                                   *)
LEMMA GrowsBy ==
  ASSUME MadeInv, [Next]_vars, NEW m \in Machines
  PROVE  MadeBy(m)
<1>1. CASE UNCHANGED simVars
  BY <1>1 DEF simVars, MadeBy
<1>2. CASE SimStep
  <2>1. restarts \in Nat /\ restarts' = restarts
    BY <1>2 DEF SimStep, MadeInv, TypeInv
  <2>2. ~Restart
    BY <2>1 DEF Restart
  <2> QED
    BY <1>2, <2>2, MadeEffect DEF SimStep, MadeInv
<1> QED
  BY <1>1, <1>2
  DEF Next, ServerMonitors, Connected, ConnectFails, SessionLost, Publish,
      Deliver, IngestRestart, vars

LEMMA MadeNext == MadeInv /\ [Next]_vars => MadeInv'
<1>1. [Next]_vars => [SimNext]_simVars
  BY SimulatorSteps
<1> QED
  BY <1>1, MadeStep

(* When the clock moves, a unit that becomes due has been heard of. *)
LEMMA DueIsHeard ==
  ASSUME TypeInv, StreamInv, FollowInv, RecentInv, SimStep, now' = now + 1,
         NEW m \in Machines, NEW f \in IdFields
  PROVE  /\ now' - tracker[m].startedAt <= UnitDuration
         /\ now' - tracker[m].startedAt >= UnitDuration =>
              /\ node[m][f] = Current(m)[f]
              /\ ~lost => Carried(m, f) \subseteq {NoId, Current(m)[f]}
<1>1. now \in Nat /\ tracker[m].startedAt \in Nat /\ UnitDuration \in Nat
  BY MachineAssumption
  DEF TypeInv, NodesInv, MachinesInv, TrackerType
<1>2. now' # now
  BY <1>1
<1>3. /\ now' - tracker[m].startedAt <= UnitDuration
      /\ now' - tracker[m].startedAt = UnitDuration =>
           /\ \A a \in feeds : window[a][m][f] = <<>>
           /\ node[m] = Current(m)
  BY <1>2 DEF SimStep, UnitsAreLong, IdFields
<1>4. ASSUME now' - tracker[m].startedAt >= UnitDuration, ~lost
      PROVE  Carried(m, f) \subseteq {NoId, Current(m)[f]}
  <2>1. f \in FieldNames /\ f \in Heard
    BY FieldNamesAre DEF IdFields, Heard
  <2>2. now' - tracker[m].startedAt = UnitDuration
    BY <1>1, <1>3, <1>4
  <2>3. \A a \in Attempts : window[a][m][f] = <<>>
    BY <1>3, <2>1, <2>2, NoStream DEF StreamInv
  <2>4. inbox[m][f] = <<>>
    BY <2>1, NoStream DEF SimStep, Handling
  <2>5. Elems(<<>>) = {}
    BY DEF Elems
  <2>6. Carried(m, f) = {store[m][f]}
    BY <2>3, <2>4, <2>5 DEF Carried
  <2>7. store[m][f] \in {NoId, node[m][f]}
    <3>1. CASE feeds = {}
      BY <1>4, <2>1, <3>1, NoIdIsRecent DEF FollowInv
    <3>2. CASE feeds # {}
      <4>1. Idles(m, f)
        BY <2>3, <2>4, FeedsAre DEF Idles
      <4> QED
        BY <1>4, <2>1, <3>2, <4>1 DEF FollowInv
    <3> QED
      BY <3>1, <3>2
  <2>8. node[m] = Current(m)
    BY <1>3, <2>2
  <2> QED
    BY <2>6, <2>7, <2>8
<1> QED
  BY <1>1, <1>3, <1>4

LEMMA RecentStep ==
  MadeInv /\ StreamInv /\ FollowInv /\ RecentInv /\ [Next]_vars => RecentInv'
<1> SUFFICES ASSUME MadeInv, StreamInv, FollowInv, RecentInv, [Next]_vars,
                    NEW m \in Machines
             PROVE  /\ tracker'[m].startedAt <= now'
                    /\ now' - tracker'[m].startedAt <= UnitDuration
                    /\ \A f \in IdFields :
                         /\ node'[m][f] \in Recent(m, f)'
                         /\ ~lost' => Carried(m, f)' \subseteq Recent(m, f)'
                         /\ Due(m)' =>
                              /\ node'[m][f] = Current(m)'[f]
                              /\ ~lost' => Carried(m, f)'
                                             \subseteq {NoId, Current(m)'[f]}
  BY DEF RecentInv
<1>0. TypeInv
  BY DEF MadeInv
<1>1. TypeInv' /\ Passes
  BY <1>0, StreamsStep
<1>2. /\ now \in Nat /\ tickTime \in Nat /\ tickTime <= now
      /\ UnitDuration \in Nat \ {0}
      /\ tracker[m].startedAt \in Nat /\ tracker[m].unitSeq \in Nat
      /\ tracker'[m].startedAt \in Nat
  BY <1>0, <1>1, MachineAssumption DEF TypeInv, NodesInv, MachinesInv, TrackerType
<1>3. /\ tracker[m].startedAt <= now
      /\ now - tracker[m].startedAt <= UnitDuration
  BY DEF RecentInv
<1>4. \/ SimStep /\ now' \in {now, now + 1} /\ (Kept(m) \/ Rotates(m))
      \/ UNCHANGED simVars
  BY <1>0, SimStepEffect
  DEF Next, SimStep, ServerMonitors, Connected, ConnectFails, SessionLost,
      Publish, Deliver, IngestRestart, vars
<1>5. UNCHANGED simVars => Kept(m) /\ now' = now
  BY DEF simVars, Kept
<1>6. ASSUME NEW f \in IdFields
      PROVE  /\ Carried(m, f)' \subseteq Carried(m, f) \cup {node'[m][f], NoId}
             /\ lost /\ ~lost' => Carried(m, f)' \subseteq {NoId}
  BY <1>1, FieldNamesAre, NoIdIsRecent DEF Passes, IdFields
<1>6a. MadeBy(m)
  BY GrowsBy
<1>7. CASE Kept(m)
  <2>1. tracker'[m] = tracker[m]
    BY <1>7 DEF Kept
  <2>2. \A f \in IdFields : /\ Recent(m, f)' = Recent(m, f)
                            /\ Current(m)'[f] = Current(m)[f]
    BY <1>6a, <2>1 DEF MadeBy, Recent, Current, IdFields
  <2>3. \A f \in IdFields : node'[m][f] \in {node[m][f], Current(m)[f]}
    BY <1>7, FieldNamesAre DEF Kept, IdFields
  <2>4. \A f \in IdFields : Current(m)[f] \in Recent(m, f)
    BY CurrentIsRecent
  <2>5. \A f \in IdFields : node'[m][f] \in Recent(m, f)'
    BY <2>2, <2>3, <2>4 DEF RecentInv
  <2>6. \A f \in IdFields : ~lost' => Carried(m, f)' \subseteq Recent(m, f)'
    BY <1>6, <2>2, <2>5, NoIdIsRecent DEF RecentInv
  <2>7. CASE now' = now
    <3>1. Due(m)' = Due(m)
      BY <2>1, <2>7 DEF Due
    <3>2. ASSUME Due(m), NEW f \in IdFields
          PROVE  /\ node'[m][f] = Current(m)'[f]
                 /\ ~lost' => Carried(m, f)' \subseteq {NoId, Current(m)'[f]}
      <4>1. node'[m][f] = Current(m)[f]
        BY <2>3, <3>2 DEF RecentInv
      <4>2. ~lost => Carried(m, f) \subseteq {NoId, Current(m)[f]}
        BY <3>2 DEF RecentInv
      <4>3. ~lost' => Carried(m, f)' \subseteq {NoId, Current(m)[f]}
        BY <1>6, <4>1, <4>2
      <4> QED
        BY <2>2, <4>1, <4>3
    <3> QED
      BY <1>3, <2>1, <2>5, <2>6, <2>7, <3>1, <3>2
  <2>8. CASE now' = now + 1 /\ SimStep
    <3>1. \A f \in IdFields :
            /\ now' - tracker[m].startedAt <= UnitDuration
            /\ now' - tracker[m].startedAt >= UnitDuration =>
                 /\ node[m][f] = Current(m)[f]
                 /\ ~lost => Carried(m, f) \subseteq {NoId, Current(m)[f]}
      BY <1>0, <2>8, DueIsHeard
    <3>2. "CurrentUnitId" \in IdFields
      BY DEF IdFields
    <3>3. /\ tracker'[m].startedAt <= now'
          /\ now' - tracker'[m].startedAt <= UnitDuration
      BY <1>2, <1>3, <2>1, <2>8, <3>1, <3>2
    <3>4. ASSUME Due(m)', NEW f \in IdFields
          PROVE  /\ node'[m][f] = Current(m)'[f]
                 /\ ~lost' => Carried(m, f)' \subseteq {NoId, Current(m)'[f]}
      <4>1. now' - tracker[m].startedAt >= UnitDuration
        BY <2>1, <3>4 DEF Due
      <4>2. node'[m][f] = Current(m)[f]
        BY <2>3, <3>1, <4>1
      <4>3. ~lost' => Carried(m, f)' \subseteq {NoId, Current(m)[f]}
        BY <1>6, <3>1, <4>1, <4>2
      <4> QED
        BY <2>2, <4>2, <4>3
    <3> QED
      BY <2>5, <2>6, <3>3, <3>4
  <2> QED
    BY <1>4, <1>5, <2>7, <2>8
<1>8. CASE Rotates(m) /\ SimStep
  <2>1. /\ tracker'[m].startedAt = tickTime
        /\ tickTime - tracker[m].startedAt >= UnitDuration
        /\ tracker'[m].unitSeq = tracker[m].unitSeq + 1
        /\ node'[m] = node[m]
        /\ now' = now
    BY <1>8 DEF Rotates
  <2>2. Due(m) /\ tickTime = now
    BY <1>2, <1>3, <2>1 DEF Due
  <2>3. /\ tracker'[m].startedAt <= now'
        /\ now' - tracker'[m].startedAt <= UnitDuration
        /\ ~Due(m)'
    BY <1>2, <2>1, <2>2 DEF Due
  <2>4. ASSUME NEW f \in IdFields
        PROVE  Current(m)[f] \in Recent(m, f)' /\ NoId \in Recent(m, f)'
    <3> DEFINE e == [batch |-> tracker'[m].batch, unit |-> tracker'[m].unit]
    <3>1. tracker'[m] # tracker[m]
      BY <1>2, <2>1
    <3>2. made'[m] = Append(made[m], e)
      BY <1>6a, <3>1 DEF MadeBy
    <3>3. e \in Pairs
      BY <1>1 DEF Pairs, TypeInv, NodesInv, MachinesInv, TrackerType
    <3> QED
      BY <3>2, <3>3, CurrentIsRecent DEF Recent
  <2>5. ASSUME NEW f \in IdFields
        PROVE  /\ node'[m][f] \in Recent(m, f)'
               /\ ~lost' => Carried(m, f)' \subseteq Recent(m, f)'
    <3>1. node'[m][f] = Current(m)[f]
      BY <2>1, <2>2 DEF RecentInv
    <3>2. ~lost => Carried(m, f) \subseteq {NoId, Current(m)[f]}
      BY <2>2 DEF RecentInv
    <3>3. ~lost' => Carried(m, f)' \subseteq {NoId, Current(m)[f]}
      BY <1>6, <3>1, <3>2
    <3> QED
      BY <2>4, <3>1, <3>3
  <2> QED
    BY <2>3, <2>5
<1> QED
  BY <1>4, <1>5, <1>7, <1>8

-----------------------------------------------------------------------------
(* last_unit and the samples: what an update writes down comes from the    *)
(* store.  Units are numbered in order, so nothing ingest has names a unit *)
(* that is still to come.                                                  *)
UpTo(m) == {id \in Ids : id.seq <= tracker[m].unitSeq}

(* The unit and the batch of r are of two units in a row among those in s. *)
Traced(r, s) ==
  /\ r.unit.seq \in 1..Len(s)
  /\ s[r.unit.seq].unit = r.unit
  /\ \E i \in {r.unit.seq - 1, r.unit.seq, r.unit.seq + 1} \cap 1..Len(s) :
       /\ r.batch = s[i].batch
       /\ r.batch.seq = BatchOf(i)

Samples == [machine : Machines, batch : Ids, unit : Ids, gap : BOOLEAN]

LedgerInv ==
  /\ lastUnit \in [Machines -> [valid : BOOLEAN, unit : Ids, time : Nat]]
  /\ rows \subseteq Samples
  /\ \A m \in Machines :
       /\ node[m].CurrentUnitId \in UpTo(m)
       /\ Carried(m, "CurrentUnitId") \subseteq UpTo(m)
       /\ lastUnit[m].unit \in UpTo(m)
  /\ UnitStartNotEarly
  /\ TornOnlyAtRotation

LEMMA LedgerInit == Init => LedgerInv
<1> SUFFICES ASSUME Init PROVE LedgerInv
  OBVIOUS
<1>1. lastUnit = [m \in Machines |-> NoEntry] /\ rows = {}
  BY DEF Init
<1>2. NoId \in Ids /\ NoId.seq = 0
  BY DEF NoId, Ids
<1>3. NoEntry \in [valid : BOOLEAN, unit : Ids, time : Nat]
      /\ ~NoEntry.valid /\ NoEntry.unit = NoId
  BY <1>2 DEF NoEntry
<1>4. \A m \in Machines : NoId \in UpTo(m)
  BY <1>2 DEF Init, SimInit, NewTrackers, NewTracker, UpTo
<1>5. ASSUME NEW m \in Machines
      PROVE  node[m].CurrentUnitId = NoId
             /\ Carried(m, "CurrentUnitId") = {NoId}
  <2>1. "CurrentUnitId" \in FieldNames
    BY FieldNamesAre
  <2> QED
    BY <2>1, NoStream DEF Init, SimInit, Blank, NoState, Carried
<1> QED
  BY <1>1, <1>3, <1>4, <1>5
  DEF LedgerInv, UnitStartNotEarly, TornOnlyAtRotation

(* A batch and a unit that are both recent are traced, and stay traced. *)
LEMMA RecentIsTraced ==
  ASSUME NEW tr, NEW s \in Seq(Pairs), MadeAgrees(tr, s), NEW r,
         r.batch \in LastIds(s, "CurrentBatchId"),
         r.unit \in LastIds(s, "CurrentUnitId")
  PROVE  Traced(r, s)
<1>1. /\ Len(s) \in Nat
      /\ \A i \in 1..Len(s) : /\ s[i].unit.seq = i
                              /\ s[i].batch.seq = BatchOf(i)
  BY LenProperties DEF MadeAgrees
<1>2. PICK i \in LastTwo(s) : r.batch = s[i].batch
  BY DEF LastIds
<1>3. PICK j \in LastTwo(s) : r.unit = s[j].unit
  BY DEF LastIds
<1>4. /\ i \in 1..Len(s) /\ j \in 1..Len(s)
      /\ i \in {j - 1, j, j + 1}
  BY <1>1 DEF LastTwo
<1>5. r.unit.seq = j /\ r.batch.seq = BatchOf(i)
  BY <1>1, <1>2, <1>3, <1>4
<1> QED
  BY <1>2, <1>3, <1>4, <1>5 DEF Traced

LEMMA StaysTraced ==
  ASSUME NEW s \in Seq(Pairs), NEW e \in Pairs, NEW r, Traced(r, s)
  PROVE  Traced(r, Append(s, e))
<1>1. /\ Len(s) \in Nat
      /\ Len(Append(s, e)) = Len(s) + 1
      /\ \A i \in 1..Len(s) : Append(s, e)[i] = s[i]
  BY LenProperties, AppendProperties
<1>2. 1..Len(s) \subseteq 1..Len(Append(s, e))
  BY <1>1
<1> QED
  BY <1>1, <1>2 DEF Traced

(* An update at time now, if any, takes unit and batch from the store. *)
Entered(m) ==
  \/ lastUnit'[m] = lastUnit[m]
  \/ lastUnit'[m] = NoEntry
  \/ /\ lastUnit'[m].unit \in Carried(m, "CurrentUnitId")'
     /\ lastUnit'[m].time = now
     /\ UNCHANGED <<tracker, now>>

Taken(r) ==
  /\ r.machine \in Machines
  /\ r.batch \in Carried(r.machine, "CurrentBatchId")'
  /\ r.unit \in Carried(r.machine, "CurrentUnitId")'
  /\ r.gap = lost'

LEMMA LedgerEffect ==
  ASSUME TypeInv, StreamInv, LedgerInv, [Next]_vars
  PROVE  /\ lastUnit' \in [Machines -> [valid : BOOLEAN, unit : Ids, time : Nat]]
         /\ rows' \subseteq Samples
         /\ \A m \in Machines : Entered(m)
         /\ \A r \in rows' : r \in rows \/ Taken(r)
<1>1. StreamInv'
  BY StreamsStep
<1>2. CASE UNCHANGED <<lastUnit, rows>>
  BY <1>2 DEF LedgerInv, Entered
<1>3. CASE IngestRestart
  <2>1. NoEntry \in [valid : BOOLEAN, unit : Ids, time : Nat]
    BY DEF NoEntry, NoId, Ids
  <2> QED
    BY <1>3, <2>1 DEF IngestRestart, LedgerInv, Entered
<1>4. ASSUME NEW m \in Machines, NEW f \in FieldNames, Deliver(m, f),
             store'[m].Metric # "none"
      PROVE  /\ lastUnit' \in [Machines -> [valid : BOOLEAN, unit : Ids,
                                            time : Nat]]
             /\ rows' \subseteq Samples
             /\ \A n \in Machines : Entered(n)
             /\ \A r \in rows' : r \in rows \/ Taken(r)
  <2> DEFINE st == store'[m]
             entry == UnitEntry(m, st)
             row == [machine |-> m, batch |-> st.CurrentBatchId,
                     unit |-> st.CurrentUnitId, gap |-> lost]
  <2>1. /\ lastUnit' = [lastUnit EXCEPT ![m] = entry]
        /\ rows' = rows \cup {row}
        /\ UNCHANGED <<tracker, now, lost>>
    BY <1>4 DEF Deliver, OnUpdate, simVars, sessionVars
  <2>2. st \in Stored /\ lost \in BOOLEAN /\ now \in Nat
    BY <1>1 DEF StreamInv, TypeInv, NodesInv, MachinesInv
  <2>3. /\ st.CurrentBatchId \in Ids /\ st.CurrentUnitId \in Ids
        /\ st.CurrentBatchId \in Carried(m, "CurrentBatchId")'
        /\ st.CurrentUnitId \in Carried(m, "CurrentUnitId")'
    BY <2>2 DEF Stored, Carried
  <2> HIDE DEF st
  <2>4. /\ lastUnit \in [Machines -> [valid : BOOLEAN, unit : Ids, time : Nat]]
        /\ rows \subseteq Samples
    BY DEF LedgerInv
  <2>5. /\ entry \in [valid : BOOLEAN, unit : Ids, time : Nat]
        /\ \/ entry = lastUnit[m]
           \/ entry.unit = st.CurrentUnitId /\ entry.time = now
    <3>1. \/ entry = lastUnit[m]
          \/ entry = [valid |-> TRUE, unit |-> st.CurrentUnitId, time |-> now]
      BY DEF UnitEntry
    <3> HIDE DEF entry
    <3>2. lastUnit[m] \in [valid : BOOLEAN, unit : Ids, time : Nat]
      BY <2>4
    <3>3. CASE entry = lastUnit[m]
      BY <3>2, <3>3
    <3>4. CASE entry = [valid |-> TRUE, unit |-> st.CurrentUnitId, time |-> now]
      <4>1. /\ TRUE \in BOOLEAN /\ st.CurrentUnitId \in Ids /\ now \in Nat
        BY <2>2, <2>3
      <4> QED
        BY <3>4, <4>1
    <3> QED
      BY <3>1, <3>3, <3>4
  <2> HIDE DEF entry
  <2>6. /\ lastUnit' \in [Machines -> [valid : BOOLEAN, unit : Ids, time : Nat]]
        /\ lastUnit'[m] = entry
        /\ \A n \in Machines : n # m => lastUnit'[n] = lastUnit[n]
    BY <2>1, <2>4, <2>5
  <2>7. \A n \in Machines : Entered(n)
    BY <2>1, <2>3, <2>5, <2>6 DEF Entered
  <2>8. \A r : r = row => r \in Samples /\ Taken(r)
    BY <2>1, <2>2, <2>3 DEF Samples, Taken
  <2> QED
    BY <2>1, <2>4, <2>6, <2>7, <2>8
<1>5. ASSUME NEW m \in Machines, NEW f \in FieldNames, Deliver(m, f),
             store'[m].Metric = "none"
      PROVE  UNCHANGED <<lastUnit, rows>>
  BY <1>5 DEF Deliver, OnUpdate
<1> QED
  BY <1>2, <1>3, <1>4, <1>5
  DEF Next, SimStep, ServerMonitors, Connected, ConnectFails, SessionLost,
      Publish, vars, ingestVars

LEMMA LedgerStep ==
  MadeInv /\ StreamInv /\ FollowInv /\ RecentInv /\ LedgerInv /\ [Next]_vars
    => LedgerInv'
<1> SUFFICES ASSUME MadeInv, StreamInv, FollowInv, RecentInv, LedgerInv,
                    [Next]_vars
             PROVE  LedgerInv'
  OBVIOUS
<1>0. TypeInv /\ MadeInv'
  BY MadeNext DEF MadeInv
<1>1. TypeInv' /\ Passes /\ RecentInv'
  BY <1>0, StreamsStep, RecentStep
<1>2. /\ lastUnit' \in [Machines -> [valid : BOOLEAN, unit : Ids, time : Nat]]
      /\ rows' \subseteq Samples
      /\ \A m \in Machines : Entered(m)
      /\ \A r \in rows' : r \in rows \/ Taken(r)
  BY <1>0, LedgerEffect
<1>3. \A m \in Machines : Kept(m) \/ Rotates(m)
  <2>1. CASE UNCHANGED simVars
    BY <2>1 DEF simVars, Kept
  <2>2. CASE SimStep
    BY <1>0, <2>2, SimStepEffect DEF SimStep
  <2> QED
    BY <2>1, <2>2
    DEF Next, ServerMonitors, Connected, ConnectFails, SessionLost, Publish,
        Deliver, IngestRestart, vars
<1>4. ASSUME NEW m \in Machines
      PROVE  /\ tracker[m].unitSeq \in Nat /\ tracker'[m].unitSeq \in Nat
             /\ tracker[m].unit.seq = tracker[m].unitSeq
             /\ tracker'[m].unit.seq = tracker'[m].unitSeq
             /\ tracker'[m].unitSeq >= tracker[m].unitSeq
             /\ tracker'[m].unitSeq = tracker[m].unitSeq
                  => tracker'[m] = tracker[m]
             /\ tracker[m].unit \in Ids
  <2>1. /\ tracker[m].unitSeq \in Nat /\ tracker'[m].unitSeq \in Nat
        /\ tracker[m].unit \in Ids
    BY <1>0, <1>1 DEF TypeInv, NodesInv, MachinesInv, TrackerType
  <2>2. /\ tracker[m].unit.seq = tracker[m].unitSeq
        /\ tracker'[m].unit.seq = tracker'[m].unitSeq
    BY <1>0, <1>1 DEF TypeInv, NodesInv, MachinesInv, BatchArithmetic
  <2> QED
    BY <1>3, <2>1, <2>2 DEF Kept, Rotates
<1>5. ASSUME NEW m \in Machines
      PROVE  /\ UpTo(m) \subseteq UpTo(m)'
             /\ NoId \in UpTo(m)'
             /\ node'[m].CurrentUnitId \in UpTo(m)'
             /\ Carried(m, "CurrentUnitId")' \subseteq UpTo(m)'
             /\ lastUnit'[m].unit \in UpTo(m)'
  <2>1. UpTo(m) \subseteq UpTo(m)'
    BY <1>4 DEF UpTo, Ids
  <2>2. NoId \in UpTo(m)'
    BY <1>4 DEF UpTo, NoId, Ids
  <2>3. Current(m)["CurrentUnitId"] \in UpTo(m)
    BY <1>4, CurrentIds DEF UpTo
  <2>4. "CurrentUnitId" \in FieldNames /\ NoState["CurrentUnitId"] = NoId
    BY FieldNamesAre DEF NoState
  <2>5. node'[m]["CurrentUnitId"] \in UpTo(m)
    BY <1>3, <2>3, <2>4 DEF Kept, Rotates, LedgerInv
  <2>6. Carried(m, "CurrentUnitId")' \subseteq UpTo(m)'
    BY <1>1, <2>1, <2>2, <2>4, <2>5 DEF Passes, LedgerInv
  <2>7. lastUnit'[m].unit \in UpTo(m)'
    BY <1>2, <2>1, <2>2, <2>6 DEF Entered, NoEntry, LedgerInv
  <2> QED
    BY <2>1, <2>2, <2>5, <2>6, <2>7
<1>6. UnitStartNotEarly'
  <2> SUFFICES ASSUME NEW m \in Machines, lastUnit'[m].valid,
                      lastUnit'[m].unit = tracker'[m].unit
               PROVE  lastUnit'[m].time >= tracker'[m].startedAt
    BY DEF UnitStartNotEarly
  <2>1. CASE lastUnit'[m] = lastUnit[m]
    <3>1. lastUnit[m].unit.seq <= tracker[m].unitSeq
      BY DEF LedgerInv, UpTo
    <3>2. tracker'[m] = tracker[m]
      BY <1>4, <2>1, <3>1
    <3> QED
      BY <2>1, <3>2 DEF LedgerInv, UnitStartNotEarly
  <2>2. CASE lastUnit'[m] = NoEntry
    BY <2>2 DEF NoEntry
  <2>3. CASE lastUnit'[m].time = now /\ UNCHANGED <<tracker, now>>
    <3>1. /\ tracker[m].startedAt <= now /\ now \in Nat
          /\ tracker[m].startedAt \in Nat
      BY <1>0 DEF RecentInv, TypeInv, NodesInv, MachinesInv, TrackerType
    <3> QED
      BY <2>3, <3>1
  <2> QED
    BY <1>2, <2>1, <2>2, <2>3 DEF Entered
<1>7. TornOnlyAtRotation'
  <2>1. ASSUME NEW r \in rows', ~r.gap, NoId \notin {r.unit, r.batch}
        PROVE  Traced(r, made'[r.machine])
    <3>0. /\ r.machine \in Machines
          /\ made[r.machine] \in Seq(Pairs) /\ made'[r.machine] \in Seq(Pairs)
          /\ [batch |-> tracker'[r.machine].batch,
              unit |-> tracker'[r.machine].unit] \in Pairs
      BY <1>0, <1>1, <1>2
      DEF Samples, TypeInv, NodesInv, MachinesInv, TrackerType, Pairs
    <3>1. CASE r \in rows
      <4>1. Traced(r, made[r.machine])
        BY <2>1, <3>1 DEF LedgerInv, TornOnlyAtRotation, Traced
      <4>2. MadeBy(r.machine)
        BY <3>0, GrowsBy
      <4> QED
        BY <3>0, <4>1, <4>2, StaysTraced DEF MadeBy
    <3>2. CASE Taken(r)
      <4>1. "CurrentBatchId" \in IdFields /\ "CurrentUnitId" \in IdFields
        BY DEF IdFields
      <4>2. /\ r.batch \in LastIds(made'[r.machine], "CurrentBatchId")
            /\ r.unit \in LastIds(made'[r.machine], "CurrentUnitId")
        BY <1>1, <2>1, <3>2, <4>1 DEF Taken, RecentInv, Recent
      <4>3. MadeAgrees(tracker'[r.machine], made'[r.machine])
        BY <1>0, <3>0 DEF MadeInv
      <4> QED
        BY <3>0, <4>2, <4>3, RecentIsTraced
    <3> QED
      BY <1>2, <3>1, <3>2
  <2> QED
    BY <2>1 DEF TornOnlyAtRotation, Traced
<1> QED
  BY <1>2, <1>5, <1>6, <1>7 DEF LedgerInv

-----------------------------------------------------------------------------
LEMMA PipelineInv ==
  Spec => [](MadeInv /\ StreamInv /\ FollowInv /\ RecentInv /\ LedgerInv)
<1>1. Init => MadeInv /\ StreamInv /\ FollowInv /\ RecentInv /\ LedgerInv
  <2>1. Init => SimInit
    BY DEF Init
  <2> QED
    BY <2>1, MadeInit, StreamsInit, FollowsInit, RecentInit, LedgerInit
<1>2. MadeInv /\ StreamInv /\ FollowInv /\ RecentInv /\ LedgerInv
        /\ [Next]_vars
      => (MadeInv /\ StreamInv /\ FollowInv /\ RecentInv /\ LedgerInv)'
  BY MadeNext, StreamsStep, FollowsStep, RecentStep, LedgerStep DEF MadeInv
<1> QED
  BY <1>1, <1>2, PTL DEF Spec

(* Every variable of simulator and ingest keeps its type, and the store    *)
(* never keeps a fault code.                                               *)
THEOREM PipelineTypeCorrect == Spec => []TypeOK
<1>1. MadeInv => SimTypeOK
  BY DEF MadeInv, TypeInv, NodesInv, MachinesInv, SimTypeOK, StateMachines, Nodes, Pairs
<1>2. SimTypeOK /\ StreamInv /\ LedgerInv => TypeOK
  BY DEF StreamInv, LedgerInv, TypeOK, Stored, Samples
<1> QED
  BY <1>1, <1>2, PipelineInv, PTL

(* With nothing under way the store shows the machine's nodes, however     *)
(* many feeds of failed attempts write to it, unless a session has ended.  *)
THEOREM StoreFollowsCorrect == Spec => []StoreFollowsNodes
<1>1. StreamInv /\ FollowInv => StoreFollowsNodes
  <2> SUFFICES ASSUME StreamInv, FollowInv, ~Handling, NEW m \in Machines,
                      NEW f \in FieldNames \ {"FaultCode"}
               PROVE  LET busy == {a \in feeds : window[a][m][f] # <<>>}
                      IN  /\ \A a \in busy :
                               window[a][m][f][Len(window[a][m][f])]
                                 = node[m][f]
                          /\ feeds # {} /\ ~lost /\ busy = {}
                               => store[m][f] = node[m][f]
    BY DEF StoreFollowsNodes
  <2>1. inbox[m][f] = <<>>
    BY NoStream DEF Handling
  <2>2. \A a \in feeds : window[a][m][f] # <<>> =>
          window[a][m][f][Len(window[a][m][f])] = node[m][f]
    BY DEF FollowInv, LastOf
  <2>3. feeds # {} /\ ~lost /\ (\A a \in feeds : window[a][m][f] = <<>>)
          => store[m][f] = node[m][f]
    BY <2>1 DEF FollowInv, Heard, Idles
  <2> QED
    BY <2>2, <2>3
<1> QED
  BY <1>1, PipelineInv, PTL

(* A sample that names a unit and a batch names a unit the machine had and *)
(* the batch of that unit or of a neighbour, for every batch size, length  *)
(* of day and number of machines, unless a session of that run of ingest   *)
(* had ended.                                                              *)
THEOREM TornCorrect == Spec => []TornOnlyAtRotation
<1>1. LedgerInv => TornOnlyAtRotation
  BY DEF LedgerInv
<1> QED
  BY <1>1, PipelineInv, PTL

(* In numbers: such a sample is off by at most one batch, with the last    *)
(* unit of a batch or with the first.                                      *)
OffByOneBatch ==
  \A r \in rows :
    ~r.gap /\ NoId \notin {r.unit, r.batch}
           /\ r.batch.seq # BatchOf(r.unit.seq) =>
      \/ /\ r.batch.seq = BatchOf(r.unit.seq) + 1
         /\ r.unit.seq % UnitsPerBatch = 0
      \/ /\ r.batch.seq = BatchOf(r.unit.seq) - 1
         /\ (r.unit.seq - 1) % UnitsPerBatch = 0

(* Off by one batch at most, and at its first or last unit only: what      *)
(* TornOnlyAtRotation means for the batch endpoint, for every batch size.  *)
THEOREM OffByOneBatchCorrect == Spec => []OffByOneBatch
<1>1. LedgerInv => OffByOneBatch
  <2> SUFFICES ASSUME LedgerInv, NEW r \in rows, ~r.gap,
                      NoId \notin {r.unit, r.batch},
                      r.batch.seq # BatchOf(r.unit.seq)
               PROVE  \/ /\ r.batch.seq = BatchOf(r.unit.seq) + 1
                         /\ r.unit.seq % UnitsPerBatch = 0
                      \/ /\ r.batch.seq = BatchOf(r.unit.seq) - 1
                         /\ (r.unit.seq - 1) % UnitsPerBatch = 0
    BY DEF OffByOneBatch
  <2> DEFINE n == r.unit.seq
  <2>1. /\ n \in Int
        /\ \/ r.batch.seq = BatchOf(n - 1)
           \/ r.batch.seq = BatchOf(n + 1)
    BY DEF LedgerInv, TornOnlyAtRotation
  <2>2. BatchOf(n - 1) \in Int /\ BatchOf(n) \in Int /\ BatchOf(n + 1) \in Int
    BY <2>1, BatchOfNext
  <2>3. CASE r.batch.seq = BatchOf(n - 1)
    BY <2>1, <2>2, <2>3, BatchOfNext
  <2>4. CASE r.batch.seq = BatchOf(n + 1)
    <3>1. (n + 1) - 1 = n
      BY <2>1
    <3>2. \/ BatchOf(n + 1) = BatchOf(n)
          \/ BatchOf(n + 1) = BatchOf(n) + 1 /\ n % UnitsPerBatch = 0
      <4>1. n + 1 \in Int
        BY <2>1
      <4> QED
        BY <3>1, <4>1, BatchOfNext
    <3> QED
      BY <2>4, <3>2
  <2> QED
    BY <2>1, <2>3, <2>4
<1> QED
  BY <1>1, PipelineInv, PTL

(* unit_started_at is never earlier than the start of the unit it is       *)
(* served with, also over lost sessions and restarts of ingest.            *)
THEOREM UnitStartNotEarlyCorrect == Spec => []UnitStartNotEarly
<1>1. LedgerInv => UnitStartNotEarly
  BY DEF LedgerInv
<1> QED
  BY <1>1, PipelineInv, PTL

-----------------------------------------------------------------------------
(* Nothing ingest does, nor what the library and the network do between    *)
(* them, changes what the simulator does: the composition is a simulator,  *)
(* and everything proved of the simulator holds in it.                     *)
THEOREM PipelineIsSimulator == Spec => SimSpec
<1>1. Init => SimInit
  BY DEF Init
<1> QED
  BY <1>1, SimulatorSteps, PTL DEF Spec, SimSpec

(* So the fault codes, counters, full batches and nodes of the simulator   *)
(* are right beside ingest too, whatever ingest does.                      *)
THEOREM MachinesInPipeline ==
  Spec => [](FaultCodeMatches /\ BatchArithmetic /\ BatchesFull
               /\ NodesAgreeAtRest)
BY PipelineIsSimulator, FaultCodeCorrect, BatchArithmeticCorrect,
   BatchesFullCorrect, NodesAgreeCorrect, PTL

-----------------------------------------------------------------------------
(* opcua_subscription_active is wrong after the end of a session only:     *)
(* failed attempts, their feeds and restarts of ingest do not mislead it.  *)
(* (GaugeTellsActive alone is violated.)                                   *)
GaugeRightUntilLost == client = "active" /\ ~lost => feeds # {}

GaugeInv == client # "connecting" /\ ~lost => attempt \in feeds

THEOREM GaugeCorrect == Spec => []GaugeRightUntilLost
<1>1. Init => GaugeInv
  BY DEF Init, GaugeInv
<1>2. GaugeInv /\ [Next]_vars => GaugeInv'
  <2> SUFFICES ASSUME GaugeInv, [Next]_vars PROVE GaugeInv'
    OBVIOUS
  <2>1. CASE UNCHANGED sessionVars
    BY <2>1 DEF sessionVars, GaugeInv
  <2>2. CASE ServerMonitors
    BY <2>2 DEF ServerMonitors, GaugeInv
  <2>3. CASE Connected
    BY <2>3 DEF Connected, GaugeInv
  <2>4. CASE ConnectFails \/ IngestRestart
    BY <2>4 DEF ConnectFails, IngestRestart, GaugeInv
  <2>5. ASSUME NEW a \in Attempts, SessionLost(a) PROVE GaugeInv'
    BY <2>5 DEF SessionLost, GaugeInv
  <2> QED
    BY <2>1, <2>2, <2>3, <2>4, <2>5
    DEF Next, SimStep, Publish, Deliver, vars, ingestVars
<1>3. GaugeInv => GaugeRightUntilLost
  BY DEF GaugeInv, GaugeRightUntilLost
<1> QED
  BY <1>1, <1>2, <1>3, PTL DEF Spec
=============================================================================
