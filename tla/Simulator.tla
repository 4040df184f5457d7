----------------------------- MODULE Simulator -----------------------------
(***************************************************************************)
(* The simulator process: the loop of simulator/main.py ticks every        *)
(* machine in turn (tick_equipment in simulator/opcua_server.py).  A tick  *)
(* computes the machine's next state at once and then writes the OPC UA    *)
(* nodes one await after another; an exception skips the machine's other   *)
(* writes and is logged, and the loop goes on with the next machine.       *)
(***************************************************************************)
EXTENDS Machine, Sequences, FiniteSets

CONSTANTS
  NumMachines,  \* length of the equipment configuration
  MaxTime,      \* bound on the clock
  MaxFailures,  \* bound on the writes that fail
  MaxRestarts   \* bound on the restarts of the process

ASSUME SimulatorAssumption ==
  /\ NumMachines \in Nat \ {0}
  /\ MaxTime \in Nat
  /\ MaxFailures \in Nat
  /\ MaxRestarts \in Nat

Machines == 1..NumMachines

(* The nodes of a machine, in the order tick_equipment writes them; one    *)
(* metric stands for all.                                                  *)
Fields == <<"Status", "FaultCode", "CurrentBatchId", "CurrentUnitId", "Metric">>

VARIABLES
  now,       \* the wall clock
  tickTime,  \* now of the loop's current iteration
  at,        \* the machine being ticked; 0 while the loop sleeps
  step,      \* 0 before the tick's computation, else the next field to write
  sm,        \* sm[m]: StateMachine
  tracker,   \* tracker[m]: BatchTracker
  node,      \* node[m]: the values of the machine's OPC UA nodes
  behind,    \* behind[m]: the last tick of m did not write all its nodes
  failures,  \* writes that failed so far
  restarts,  \* restarts so far
  made       \* history: the units of m in this run, each with its batch

simVars == <<now, tickTime, at, step, sm, tracker, node, behind, failures,
             restarts, made>>

(* What tick_equipment writes. *)
Current(m) ==
  [Status         |-> sm[m].state,
   FaultCode      |-> sm[m].faultCode,
   CurrentBatchId |-> tracker[m].batch,
   CurrentUnitId  |-> tracker[m].unit,
   Metric         |-> Sample(sm[m].state)]

(* The values the nodes are created with. *)
Blank ==
  [Status |-> "idle", FaultCode |-> FALSE, CurrentBatchId |-> NoId,
   CurrentUnitId |-> NoId, Metric |-> "zero"]
-----------------------------------------------------------------------------
(* build_server at time t. *)
NewTrackers(t) == [m \in Machines |-> NewTracker(t)]

FirstUnits(t) ==
  [m \in Machines |-> <<[batch |-> Id(t, 1), unit |-> Id(t, 1)]>>]

SimInit ==
  /\ now = 0
  /\ tickTime = 0
  /\ at = 0
  /\ step = 0
  /\ sm = [m \in Machines |-> InitialState]
  /\ tracker = NewTrackers(0)
  /\ node = [m \in Machines |-> Blank]
  /\ behind = [m \in Machines |-> TRUE]
  /\ failures = 0
  /\ restarts = 0
  /\ made = FirstUnits(0)

(* The sleep is over: one now for all the machines of this iteration. *)
Wake ==
  /\ at = 0
  /\ at' = 1
  /\ tickTime' = now
  /\ UNCHANGED <<now, step, sm, tracker, node, behind, failures, restarts,
                 made>>

(* state.tick, tracker.advance and sim.sample, with no await between them. *)
Compute ==
  /\ at # 0
  /\ step = 0
  /\ step' = 1
  /\ \E next \in Ticked(sm[at]) : sm' = [sm EXCEPT ![at] = next]
  /\ tracker' = [tracker EXCEPT ![at] = Advanced(@, tickTime)]
  /\ made' = IF tracker'[at] = tracker[at] THEN made
             ELSE [made EXCEPT ![at] = Append(@,
                     [batch |-> tracker'[at].batch, unit |-> tracker'[at].unit])]
  /\ UNCHANGED <<now, tickTime, at, node, behind, failures, restarts>>

(* Mutant of NextMachine: one machine too many. *)
NextMachineTooFar ==
  /\ step' = 0
  /\ at' = IF at > NumMachines THEN 0 ELSE at + 1

(* The tick of a machine is over. *)
NextMachine ==
  /\ step' = 0
  /\ at' = IF at = NumMachines THEN 0 ELSE at + 1

(* Mutant of Write: the unit is written in place of the batch. *)
WriteUnitForBatch ==
  /\ step # 0
  /\ LET f == Fields[step]
         g == IF f = "CurrentBatchId" THEN "CurrentUnitId" ELSE f
     IN  node' = [node EXCEPT ![at][f] = Current(at)[g]]
  /\ IF step = Len(Fields)
     THEN NextMachine /\ behind' = [behind EXCEPT ![at] = FALSE]
     ELSE step' = step + 1 /\ UNCHANGED <<at, behind>>
  /\ UNCHANGED <<now, tickTime, sm, tracker, failures, restarts, made>>

Write ==
  /\ step # 0
  /\ node' = [node EXCEPT ![at][Fields[step]] = Current(at)[Fields[step]]]
  /\ IF step = Len(Fields)
     THEN NextMachine /\ behind' = [behind EXCEPT ![at] = FALSE]
     ELSE step' = step + 1 /\ UNCHANGED <<at, behind>>
  /\ UNCHANGED <<now, tickTime, sm, tracker, failures, restarts, made>>

(* Mutant of WriteFails: the loop over the machines ends at the exception, *)
(* and nothing bounds the failures.                                        *)
WriteFailsEndsLoop ==
  /\ step # 0
  /\ failures' = IF failures < MaxFailures THEN failures + 1 ELSE failures
  /\ behind' = [behind EXCEPT ![at] = TRUE]
  /\ step' = 0
  /\ at' = 0
  /\ UNCHANGED <<now, tickTime, sm, tracker, node, restarts, made>>

(* The exception reaches the loop, which logs it. *)
WriteFails ==
  /\ step # 0
  /\ failures < MaxFailures
  /\ failures' = failures + 1
  /\ behind' = [behind EXCEPT ![at] = TRUE]
  /\ NextMachine
  /\ UNCHANGED <<now, tickTime, sm, tracker, node, restarts, made>>

Clock ==
  /\ now < MaxTime
  /\ now' = now + 1
  /\ UNCHANGED <<tickTime, at, step, sm, tracker, node, behind, failures,
                 restarts, made>>

(* The process stops and starts again: nothing is kept. *)
Restart ==
  /\ restarts < MaxRestarts
  /\ restarts' = restarts + 1
  /\ tickTime' = now
  /\ at' = 0
  /\ step' = 0
  /\ sm' = [m \in Machines |-> InitialState]
  /\ tracker' = NewTrackers(now)
  /\ node' = [m \in Machines |-> Blank]
  /\ behind' = [m \in Machines |-> TRUE]
  /\ made' = FirstUnits(now)
  /\ UNCHANGED <<now, failures>>

SimNext == Wake \/ Compute \/ Write \/ WriteFails \/ Clock \/ Restart

SimSpec == SimInit /\ [][SimNext]_simVars

(* The event loop runs the coroutine; the clock advances. *)
SimFairSpec ==
  /\ SimSpec
  /\ WF_simVars(Wake)
  /\ WF_simVars(Compute)
  /\ WF_simVars(Write \/ WriteFails)
  /\ WF_simVars(Clock)
-----------------------------------------------------------------------------
Ids == [day : Nat, seq : Nat]

TrackerType ==
  [unitSeq : Nat, batchSeq : Nat, inBatch : Nat, batch : Ids, unit : Ids,
   startedAt : Nat]

(* Every variable has its type, a sleeping loop is at no field, and a tick *)
(* never works with a time that is still to come.                          *)
SimTypeOK ==
  /\ now \in Nat
  /\ tickTime \in Nat /\ tickTime <= now
  /\ at \in 0..NumMachines
  /\ step \in 0..Len(Fields)
  /\ at = 0 => step = 0
  /\ sm \in [Machines -> [state : States, faultCode : BOOLEAN]]
  /\ tracker \in [Machines -> TrackerType]
  /\ node \in [Machines -> [Status : States, FaultCode : BOOLEAN,
                            CurrentBatchId : Ids, CurrentUnitId : Ids,
                            Metric : {"zero", "idle", "running", "fault"}]]
  /\ behind \in [Machines -> BOOLEAN]
  /\ failures \in Nat
  /\ restarts \in Nat
  /\ made \in [Machines -> Seq([batch : Ids, unit : Ids])]

(* A machine has a fault code from the fault to the end of its maintenance *)
(* and at no other time.                                                   *)
FaultCodeMatches ==
  \A m \in Machines :
    sm[m].faultCode <=> sm[m].state \in {"fault", "maintenance"}

(* The three counters of a tracker agree: the current unit is the next     *)
(* one of the current batch, and a batch is never over-full.               *)
BatchArithmetic ==
  \A m \in Machines :
    LET tr == tracker[m]
    IN  /\ tr.inBatch < UnitsPerBatch
        /\ tr.unitSeq = UnitsPerBatch * (tr.batchSeq - 1) + tr.inBatch + 1
        /\ tr.batch.seq = tr.batchSeq
        /\ tr.unit.seq = tr.unitSeq

(* In one run a machine gives every unit an id of its own, and every batch *)
(* but the current one exactly UnitsPerBatch units, also when days change. *)
BatchesFull ==
  \A m \in Machines :
    LET units(b) == {i \in 1..Len(made[m]) : made[m][i].batch = b}
    IN  /\ \A i, j \in 1..Len(made[m]) :
             made[m][i].unit = made[m][j].unit => i = j
        /\ \A i \in 1..Len(made[m]) :
             made[m][i].batch # tracker[m].batch =>
               Cardinality(units(made[m][i].batch)) = UnitsPerBatch

(* While the loop is not at a machine whose last tick was written in full, *)
(* the machine's nodes show one state of it: its batch, its unit, its      *)
(* status and its metrics of one moment.                                   *)
NodesAgreeAtRest ==
  \A m \in Machines : at # m /\ ~behind[m] => node[m] = Current(m)

(* A machine whose writes fail does not keep the others from being ticked. *)
EveryMachineTicks == \A m \in Machines : []<>(at = m)
=============================================================================
