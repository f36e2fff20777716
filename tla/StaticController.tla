-------------------------- MODULE StaticController --------------------------
(***************************************************************************)
(* StaticExperimentController.  One thread runs the callbacks, a worker    *)
(* runs one StaticControl.propose at a time; both change the recovery      *)
(* state.                                                                  *)
(***************************************************************************)
EXTENDS StaticTopics, StaticRecovery

CONSTANTS
  Gain,          \* the feed growth of one control period
  EndpointHold,  \* endpoint_hold_s
  NoCalculation  \* None, for _calculation

ASSUME ControllerAssumption == Gain \in Nat /\ EndpointHold \in Nat

VARIABLES
  mode,         \* _execution_state, and then how the process ends
  termination,  \* _termination
  latest,       \* the last snapshot received
  waiting,      \* _waiting_id, 0 for None
  calculation,  \* _calculation: its inputs and, once done, its outcome
  lastStart,    \* _last_calculation_start_step, 0 for None
  sequence,     \* _sequence
  cycles,       \* the keys of _cycle_started
  endpoint,     \* _endpoint_since, None while there is none
  recovery,     \* control.recovery
  started,      \* the calculations the recording budget has counted
  recorded      \* the cycle records written

controllerVars == <<mode, termination, latest, waiting, calculation, lastStart,
                    sequence, cycles, endpoint, recovery, started, recorded>>

\* What a calculation ends with.
Outcomes == {"running", "error", "none", "motion"}
Calculations == [start : Nat, initial : States, from : Nat, executed : Nat,
                 seen : Snapshots, outcome : Outcomes, feed : Nat]

ASSUME NoCalculationAssumption == NoCalculation \notin Calculations

ControllerTypeOK ==
  /\ mode \in {"tracking", "holding", "failing", "leaving", "ended"}
  /\ termination \in {"none", "completed", "pause_timeout"}
  /\ latest \in Snapshots \cup {NoSample}
  /\ waiting \in Nat
  /\ calculation \in Calculations \cup {NoCalculation}
  /\ lastStart \in Nat
  /\ sequence \in Nat
  /\ cycles \in SUBSET Nat /\ IsFiniteSet(cycles)
  /\ endpoint \in Nat \cup {None}
  /\ recovery \in Recoveries
  /\ started \in Nat
  /\ recorded \in Nat

ControllerInit ==
  /\ mode = "tracking"
  /\ termination = "none"
  /\ latest = NoSample
  /\ waiting = 0
  /\ calculation = NoCalculation
  /\ lastStart = 0
  /\ sequence = 0
  /\ cycles = {}
  /\ endpoint = None
  /\ recovery = FirstRecovery
  /\ started = 0
  /\ recorded = 0

Alive == mode \in {"tracking", "holding"}

-----------------------------------------------------------------------------
(* Callbacks for what the plant sends *)

\* _on_state
OnState ==
  /\ Alive
  /\ sample # NoSample
  /\ latest' = sample
  /\ sample' = NoSample
  /\ UNCHANGED <<commands, admissions, mode, termination, waiting, calculation,
                 lastStart, sequence, cycles, endpoint, recovery, started,
                 recorded>>

\* _on_admission: the cycle is closed and recorded, a refusal also ends the
\* wait and pauses the reference.
NoneRemain(id) == {}  \* mutant: every open cycle is forgotten
Remaining(id) == cycles \ {id}

OnAdmission(a) ==
  /\ Alive
  /\ a \in admissions
  /\ a.id \in cycles
  /\ admissions' = admissions \ {a}
  /\ cycles' = Remaining(a.id)
  /\ recorded' = recorded + 1
  /\ IF a.reason = "accepted"
     THEN UNCHANGED <<waiting, recovery>>
     ELSE waiting' = 0 /\ recovery' = Rejected(recovery, a.step)
  /\ UNCHANGED <<commands, sample, mode, termination, latest, calculation,
                 lastStart, sequence, endpoint, started>>

-----------------------------------------------------------------------------
(* The timer: begin a calculation, or take up the one that is done *)

\* next_control_step: soon after its start a motion is continued at the end of
\* its control period, later at the second period boundary from now on.
Early == IF Ticks \div 10 > 1 THEN Ticks \div 10 ELSE 1
NextStart(m, s) ==
  IF s <= m.start + Early THEN m.start + Ticks
  ELSE ((s + Ticks - 1) \div Ticks + 1) * Ticks

\* A start that is not later than the last one tried counts as none.
RetryStart == TRUE  \* mutant: a start step is tried again and again
FreshStart == NextStart(latest.active, latest.step) > lastStart

\* The command that is waited for must have become active.
NoWait == TRUE  \* mutant: nothing is waited for
WaitIsOver == waiting # 0 => latest.active.id = waiting

\* _tick while no calculation runs and nothing is waited for any more.
Consider ==
  LET start == NextStart(latest.active, latest.step)
      begins == latest.pending = 0 /\ FreshStart
  IN /\ mode = "tracking"
     /\ latest # NoSample
     /\ calculation = NoCalculation
     /\ WaitIsOver
     /\ waiting # 0 \/ begins
     /\ waiting' = 0
     /\ calculation' =
          IF begins
          THEN [start |-> start,
                initial |-> StateAt(latest.active, start),
                from |-> ReferenceAt(latest.active, start),
                executed |-> IF start = latest.active.start + Ticks
                             THEN latest.active.feed ELSE 0,
                seen |-> latest, outcome |-> "running", feed |-> 0]
          ELSE NoCalculation
     /\ lastStart' = IF begins THEN start ELSE lastStart
     /\ started' = IF begins THEN started + 1 ELSE started
     /\ UNCHANGED <<topics, mode, termination, latest, sequence, cycles,
                    endpoint, recovery, recorded>>

\* The bound on the feed of a calculation: the profile, the path's end, and
\* the growth of the feed executed before.
Lesser(a, b) == IF a < b THEN a ELSE b
NominalToTheEnd(c) ==  \* mutant: the end of the path bounds the feed too late
  IF c.from >= Length THEN 0 ELSE Lesser(MaxFeed, c.executed + Gain)
Nominal(c) ==
  Lesser(MaxFeed,
         Lesser((Length - c.from) \div Ticks, c.executed + Gain))
AtEndpoint(c) == c.from >= Length

\* propose: a certified motion of the greatest possible feed, 0 if there is
\* none; the recovery rules; and, if they hold the reference, the problem of
\* zero feed, whose motion is certified, refused, or fails to be found.
Propose(finding, feed, zero) ==
  /\ mode # "ended"
  /\ calculation # NoCalculation
  /\ calculation.outcome = "running"
  /\ calculation.start >= recovery.time
  /\ feed \in 0 .. Nominal(calculation)
  /\ finding.positive = (feed > 0)
  /\ recovery' = Updated(recovery, calculation.start, finding,
                         AtEndpoint(calculation))
  /\ LET moves == recovery'.phase = "RUNNING"
     IN calculation' =
          [calculation EXCEPT
             !.feed = IF moves THEN feed ELSE 0,
             !.outcome = IF recovery'.phase = "FAULT" THEN "none"
                         ELSE IF moves \/ zero = "certified" THEN "motion"
                         ELSE IF zero = "refused" THEN "none" ELSE "error"]
  /\ UNCHANGED <<topics, mode, termination, latest, waiting, lastStart,
                 sequence, cycles, endpoint, started, recorded>>

\* The solver raises before the rules are asked.
ProposeFails ==
  /\ mode # "ended"
  /\ calculation # NoCalculation
  /\ calculation.outcome = "running"
  /\ calculation' = [calculation EXCEPT !.outcome = "error"]
  /\ UNCHANGED <<topics, mode, termination, latest, waiting, lastStart,
                 sequence, cycles, endpoint, recovery, started, recorded>>

\* _tick finds the future done and calls _finish_calculation.
Finishes ==
  /\ mode = "tracking"
  /\ calculation # NoCalculation
  /\ calculation.outcome # "running"
  /\ calculation' = NoCalculation

FinishError ==
  /\ Finishes
  /\ calculation.outcome = "error"
  /\ recorded' = recorded + 1
  /\ mode' = "failing"
  /\ UNCHANGED <<topics, termination, latest, waiting, lastStart, sequence,
                 cycles, endpoint, recovery, started>>

\* The pause has lasted too long: the controller holds.
FinishFaultByPhase ==  \* mutant: the phase is reported for the reason
  /\ Finishes
  /\ calculation.outcome # "error"
  /\ recovery.phase = "FAULT"
  /\ recorded' = recorded + 1
  /\ mode' = "holding"
  /\ termination' = recovery.phase
  /\ UNCHANGED <<topics, latest, waiting, lastStart, sequence, cycles,
                 endpoint, recovery, started>>
FinishFault ==
  /\ Finishes
  /\ calculation.outcome # "error"
  /\ recovery.phase = "FAULT"
  /\ recorded' = recorded + 1
  /\ mode' = "holding"
  /\ termination' = "pause_timeout"
  /\ UNCHANGED <<topics, latest, waiting, lastStart, sequence, cycles,
                 endpoint, recovery, started>>

FinishNone ==
  /\ Finishes
  /\ calculation.outcome = "none"
  /\ recovery.phase # "FAULT"
  /\ recorded' = recorded + 1
  /\ UNCHANGED <<topics, mode, termination, latest, waiting, lastStart,
                 sequence, cycles, endpoint, recovery, started>>

\* The command is published.  Then the endpoint is judged, by the snapshot the
\* calculation began with: "inside" says the tool is within tolerance.
SinceInside(inside) ==  \* mutant: the reference may be anywhere
  IF ~inside THEN None
  ELSE IF endpoint = None THEN calculation.seen.step ELSE endpoint
EndpointSince(inside) ==
  IF ~inside \/ ReferenceAt(calculation.seen.active, calculation.seen.step)
                  < Length
  THEN None
  ELSE IF endpoint = None THEN calculation.seen.step ELSE endpoint

FinishMotion(inside) ==
  /\ Finishes
  /\ calculation.outcome = "motion"
  /\ recovery.phase # "FAULT"
  /\ sequence' = sequence + 1
  /\ cycles' = cycles \cup {sequence'}
  /\ waiting' = sequence'
  /\ commands' = commands \cup
       {[id |-> sequence', start |-> calculation.start,
         initial |-> calculation.initial, from |-> calculation.from,
         feed |-> calculation.feed]}
  /\ endpoint' = EndpointSince(inside)
  /\ LET held == /\ endpoint' # None
                 /\ calculation.seen.step - endpoint' >= EndpointHold
     IN /\ mode' = IF held THEN "holding" ELSE mode
        /\ termination' = IF held THEN "completed" ELSE termination
  /\ UNCHANGED <<admissions, sample, latest, lastStart, recovery, started,
                 recorded>>

-----------------------------------------------------------------------------
(* The end of the process *)

\* Callbacks stop.  "failing": an answer overdue for 1 s, feedback older than
\* 200 ms, an interrupt, an exhausted budget.  "leaving": the stop file, or a
\* controller that holds and has all its answers.
StopSpinning(end) ==
  /\ Alive
  /\ end \in {"failing", "leaving"}
  /\ mode' = end
  /\ UNCHANGED <<topics, termination, latest, waiting, calculation, lastStart,
                 sequence, cycles, endpoint, recovery, started, recorded>>

\* finish_recording, when the worker is done: whatever is open is recorded.
NoneOpen == 0  \* mutant: the calculation is dropped without a record
OpenCalculation == IF calculation = NoCalculation THEN 0 ELSE 1

FinishRecording ==
  LET failed == calculation # NoCalculation /\ calculation.outcome = "error"
  IN /\ mode \in {"failing", "leaving"}
     /\ calculation # NoCalculation => calculation.outcome # "running"
     /\ mode' = "ended"
     /\ recorded' = recorded + OpenCalculation + Cardinality(cycles)
     /\ cycles' = {}
     /\ calculation' = NoCalculation
     /\ recovery' = IF mode = "failing" \/ failed
                    THEN Fault(recovery) ELSE recovery
     /\ UNCHANGED <<topics, termination, latest, waiting, lastStart, sequence,
                    endpoint, started>>

WorkerNext ==
  \/ \E finding \in Findings, feed \in 0 .. MaxFeed,
        zero \in {"certified", "refused", "fails"} :
       Propose(finding, feed, zero)
  \/ ProposeFails

ControllerNext ==
  \/ OnState
  \/ \E a \in admissions : OnAdmission(a)
  \/ Consider
  \/ FinishError \/ FinishFault \/ FinishNone
  \/ \E inside \in BOOLEAN : FinishMotion(inside)
  \/ \E end \in {"failing", "leaving"} : StopSpinning(end)
  \/ FinishRecording

=============================================================================
