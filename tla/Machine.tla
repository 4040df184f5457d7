------------------------------ MODULE Machine ------------------------------
(***************************************************************************)
(* One simulated machine: its state machine (simulator/state_machine.py),  *)
(* its batch and unit counters (simulator/batch_tracker.py) and the        *)
(* metrics it samples (simulator/equipment.py), as operators.              *)
(*                                                                         *)
(* A fault code is set or not; an id is its date and its number (prefixes  *)
(* are constant per machine); a metric is the regime it is drawn from.     *)
(***************************************************************************)
EXTENDS Integers

CONSTANTS
  UnitsPerBatch,  \* _UNITS_PER_BATCH
  UnitDuration,   \* unit_duration_seconds, in clock units
  DayLength       \* clock units of a day

ASSUME MachineAssumption ==
  /\ UnitsPerBatch \in Nat \ {0}
  /\ UnitDuration \in Nat \ {0}
  /\ DayLength \in Nat \ {0}

States == {"idle", "running", "fault", "maintenance"}

(* _ALLOWED: transition_to refuses any other target (a tick never asks     *)
(* for one: TickTargetsAllowed in PipelineProofs).                         *)
Allowed == [idle        |-> {"running"},
            running     |-> {"fault", "idle"},
            fault       |-> {"maintenance"},
            maintenance |-> {"idle"}]

(* The targets in _TICK_PROBABILITIES; any of them or none is drawn. *)
TickTargets == [idle        |-> {"running"},
                running     |-> {"fault", "idle"},
                fault       |-> {"maintenance"},
                maintenance |-> {"idle"}]

(* Mutant of TransitionTo: maintenance clears the fault code. *)
TransitionClearing(sm, s) ==
  [state |-> s, faultCode |-> s = "fault"]

(* transition_to, for an allowed target. *)
TransitionTo(sm, s) ==
  [state     |-> s,
   faultCode |-> s = "fault" \/ (s # "idle" /\ sm.faultCode)]

(* StateMachine.tick: the machine stays as it is or makes one transition. *)
Ticked(sm) == {sm} \cup {TransitionTo(sm, s) : s \in TickTargets[sm.state]}

InitialState == [state |-> "idle", faultCode |-> FALSE]
-----------------------------------------------------------------------------
Id(time, seq) == [day |-> time \div DayLength, seq |-> seq]

NoId == [day |-> 0, seq |-> 0]   \* the empty string

NewTracker(time) ==
  [unitSeq   |-> 1,
   batchSeq  |-> 1,
   inBatch   |-> 0,
   batch     |-> Id(time, 1),
   unit      |-> Id(time, 1),
   startedAt |-> time]

(* The next unit; after the last of a full batch also the next batch. *)
Rotation(tr, time, full) ==
  LET next == IF full THEN tr.batchSeq + 1 ELSE tr.batchSeq
  IN  [unitSeq   |-> tr.unitSeq + 1,
       batchSeq  |-> next,
       inBatch   |-> IF full THEN 0 ELSE tr.inBatch + 1,
       batch     |-> IF full THEN Id(time, next) ELSE tr.batch,
       unit      |-> Id(time, tr.unitSeq + 1),
       startedAt |-> time]

(* Mutants of Rotated: a batch gets one unit too many; one too few; units  *)
(* are numbered within their batch.                                        *)
RotatedLate(tr, time) == Rotation(tr, time, tr.inBatch + 1 > UnitsPerBatch)

RotatedEarly(tr, time) == Rotation(tr, time, tr.inBatch + 2 >= UnitsPerBatch)

RotatedRenumbering(tr, time) ==
  LET rotation == Rotation(tr, time, tr.inBatch + 1 >= UnitsPerBatch)
  IN  [rotation EXCEPT !.unit = Id(time, rotation.inBatch + 1)]

Rotated(tr, time) == Rotation(tr, time, tr.inBatch + 1 >= UnitsPerBatch)

(* BatchTracker.advance: at most one rotation, however late the call is. *)
Advanced(tr, time) ==
  IF time - tr.startedAt < UnitDuration THEN tr ELSE Rotated(tr, time)
-----------------------------------------------------------------------------
(* EquipmentSimulator.sample: the regime a metric is drawn from. *)
Sample(state) == IF state \in {"running", "fault"} THEN state ELSE "idle"
=============================================================================
