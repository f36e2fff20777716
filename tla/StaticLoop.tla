----------------------------- MODULE StaticLoop -----------------------------
(***************************************************************************)
(* The closed loop of the static experiment: controller, its worker, plant *)
(* and the topics between them.                                            *)
(***************************************************************************)
EXTENDS StaticPlant, StaticController

vars == <<topics, plantVars, controllerVars>>

Init ==
  /\ TopicsInit
  /\ PlantInit
  /\ ControllerInit

PlantStep == PlantNext /\ UNCHANGED controllerVars
ControllerStep == (ControllerNext \/ WorkerNext) /\ UNCHANGED plantVars
NetworkStep == Lose /\ UNCHANGED <<plantVars, controllerVars>>

Next == PlantStep \/ ControllerStep \/ NetworkStep

Spec == Init /\ [][Next]_vars

-----------------------------------------------------------------------------
TypeOK ==
  /\ TopicsTypeOK
  /\ PlantTypeOK
  /\ ControllerTypeOK

\* The motions the controller has asked for and the plant has not refused.
LiveMotions == (commands \cup {checking, pending, active}) \ {NoMotion}

\* The plant refuses a command of its only controller for two reasons only: it
\* is late, or the plant's own check does not certify it.  Never is one busy,
\* repeated, off the path, or in disagreement with the motion it continues.
OnlyLateOrUncertified ==
  \A a \in admissions : a.reason \in {"accepted", "late_command", "uncertified"}

\* While a refusal is on its way no calculation is under way: callback and
\* worker never change the recovery state at the same time.
RecoveryHasOneWriter ==
  \A a \in admissions :
    Alive /\ a.reason # "accepted" => calculation = NoCalculation

\* Every answer that arrives is expected: its cycle is still open.
AnswersAreExpected == Alive => \A a \in admissions : a.id \in cycles

\* After a refusal the reference stays until the confirmation has begun again
\* and lasted, counted from the start step of the refused motion.
RefusalPausesReference ==
  refused # NoMotion =>
    \A m \in LiveMotions : m.id > refused.id /\ m.feed > 0
      => m.start >= refused.start + Ticks + (IF Improved THEN Confirmation ELSE 0)

\* A motion that is due continues the one that is active: advance never raises.
ActivationContinues ==
  pending # NoMotion =>
    /\ pending.start > step
    /\ pending.initial = StateAt(active, pending.start)

\* Joint state and reference of the plant are continuous: a new motion begins
\* where the old one has just arrived.
ActuatorIsContinuous ==
  [][step' = step + 1 =>
       /\ StateAt(active', step') = StateAt(active, step')
       /\ ReferenceAt(active', step') = ReferenceAt(active, step')]_vars

\* A run that reports "completed" has its reference at the end of the path.
CompletedAtTheEnd ==
  termination = "completed" => ReferenceAt(active, step) = Length

\* RecordingLimits: the steps so far bound the calculations.
CalculationsFitTheBudget ==
  started <= (step + Ticks - 1) \div Ticks + 2

\* Every calculation has one cycle record, or is still open.
EveryCycleIsRecorded ==
  started = recorded + Cardinality(cycles)
              + (IF calculation = NoCalculation THEN 0 ELSE 1)

\* Where the last command is: on its way, at the plant's check, accepted, or
\* nothing will come of it any more.
Outstanding ==
  IF commands # {} THEN "sent"
  ELSE IF checking # NoMotion THEN "taken"
  ELSE IF pending # NoMotion THEN "accepted"
  ELSE "over"

\* Controller and plant keep the control cycle of module StaticCycle.  The one
\* decides by old snapshots and the answers that arrive, yet begins no cycle
\* while a command of its own is undecided or has still to start; and every
\* cycle it begins is recorded once, or is still owed.
Cycle ==
  INSTANCE StaticCycle
    WITH Fallible <- FALSE, sent <- sequence, stage <- Outstanding,
         active <- active.id, calculating <- (calculation # NoCalculation),
         open <- cycles, owed <- started - recorded, takes <- TRUE

ImplementsCycle == Cycle!Spec

=============================================================================
