-------------------------- MODULE StaticLoopProofs --------------------------
(***************************************************************************)
(* Proofs about StaticLoop, for every path, period, rule and length of     *)
(* run, and whatever messages are lost.                                    *)
(***************************************************************************)
EXTENDS StaticLoop, FiniteSetTheorems, TLAPS

(***************************************************************************)
(* The inductive invariant.                                                *)
(***************************************************************************)

\* One command at a time is on its way, being checked or accepted but not yet
\* active, and it is the one the controller waits for.
OneCommand ==
  /\ active.id <= lastRequest
  /\ lastRequest <= sequence
  /\ waiting # 0 => waiting = sequence
  /\ \A m \in commands :
       /\ m.id = waiting
       /\ m.id > lastRequest
       /\ checking = NoMotion
       /\ pending = NoMotion
       /\ \A n \in commands : n = m
  /\ checking # NoMotion =>
       /\ checking.id = waiting
       /\ checking.id > lastRequest
       /\ pending = NoMotion
  /\ pending # NoMotion =>
       /\ pending.id = waiting
       /\ pending.id = lastRequest
       /\ pending.id > active.id

\* An answer on its way is the only one to its command; while a refusal is on
\* its way, the refused command is the one that is waited for.
OneAnswer ==
  /\ \A a \in admissions :
       /\ a.id <= lastRequest
       /\ a.reason \in {"accepted", "late_command", "uncertified"}
       /\ a.reason # "accepted" =>
            /\ a.id = waiting
            /\ active.id < a.id
            /\ commands = {}
            /\ checking = NoMotion
            /\ pending = NoMotion
  /\ \A a, b \in admissions : a.id = b.id => a = b

\* The cycle of an undecided or unanswered command is open.
CyclesAreOpen ==
  Alive =>
    /\ \A a \in admissions : a.id \in cycles
    /\ \A m \in commands : m.id \in cycles
    /\ checking # NoMotion => checking.id \in cycles

\* A snapshot, however old, shows the active motion unless that motion is the
\* one that is waited for.
Shows(s) ==
  /\ s.step <= step
  /\ s.active.id <= active.id
  /\ s.active.id = active.id => s.active = active
  /\ waiting = 0 \/ active.id # waiting => s.active = active

\* So do the snapshot on its way and the last one received, in this order.
Seen ==
  /\ sample # NoSample => Shows(sample)
  /\ latest = NoSample =>
       sequence = 0 /\ waiting = 0 /\ calculation = NoCalculation
  /\ latest # NoSample => Shows(latest)
  /\ sample # NoSample /\ latest # NoSample =>
       latest.step < sample.step /\ latest.active.id <= sample.active.id

\* m continues the active motion and stays on the path.
Fits(m) == m.from + m.feed * Ticks <= Length
Continues(m) ==
  /\ m.initial = StateAt(active, m.start)
  /\ m.from = ReferenceAt(active, m.start)

\* A calculation is made while nothing is waited for.
CalculationFits ==
  calculation # NoCalculation =>
    /\ waiting = 0
    /\ Continues(calculation)
    /\ Fits(calculation)
    /\ calculation.seen.active = active
    /\ calculation.seen.step <= step

MotionsFit ==
  /\ Fits(active)
  /\ \A m \in commands : Fits(m) /\ Continues(m)
  /\ checking # NoMotion => Fits(checking) /\ Continues(checking)
  /\ pending # NoMotion =>
       Fits(pending) /\ Continues(pending) /\ pending.start > step

IInv ==
  /\ TypeOK
  /\ OneCommand
  /\ OneAnswer
  /\ CyclesAreOpen
  /\ Seen
  /\ CalculationFits
  /\ MotionsFit
  /\ CompletedAtTheEnd

-----------------------------------------------------------------------------
(* Facts about the operators *)

\* A factor may be replaced by a greater one.
LEMMA ProductOrder ==
  ASSUME NEW a \in Nat, NEW b \in Nat, NEW c \in Nat, b <= c
  PROVE  a * b <= a * c
<1>1. PICK d \in Nat : c = b + d
  <2>1. c - b \in Nat /\ c = b + (c - b)
    OBVIOUS
  <2> QED  BY <2>1
<1>2. a * c = a * b + a * d /\ a * b \in Nat /\ a * d \in Nat
  BY <1>1, SMT
<1> QED  BY <1>2

\* The reference moves during the control period only.
LEMMA EffectiveStepsType ==
  ASSUME NEW m \in Motions, NEW s \in Nat
  PROVE  EffectiveSteps(m, s) \in 0 .. Ticks
BY TopicsAssumption DEF EffectiveSteps, Motions

\* The steps that move the reference grow with time.
LEMMA EffectiveStepsOrder ==
  ASSUME NEW m \in Motions, NEW s \in Nat, NEW t \in Nat, s <= t
  PROVE  EffectiveSteps(m, s) <= EffectiveSteps(m, t)
BY TopicsAssumption DEF EffectiveSteps, Motions

\* state_at_step returns the name of a joint state.
LEMMA StateAtType ==
  ASSUME NEW m \in Motions, NEW s \in Nat
  PROVE  StateAt(m, s) \in States
BY TopicsAssumption DEF StateAt, Motions, States

\* reference_at_step returns a length of path.
LEMMA ReferenceType ==
  ASSUME NEW m \in Motions, NEW s \in Nat
  PROVE  ReferenceAt(m, s) \in Nat
BY EffectiveStepsType, TopicsAssumption DEF ReferenceAt, Motions

\* The reference of a motion never moves back.
LEMMA ReferenceOrder ==
  ASSUME NEW m \in Motions, NEW s \in Nat, NEW t \in Nat, s <= t
  PROVE  ReferenceAt(m, s) <= ReferenceAt(m, t)
<1>1. /\ EffectiveSteps(m, s) \in Nat
      /\ EffectiveSteps(m, t) \in Nat
      /\ EffectiveSteps(m, s) <= EffectiveSteps(m, t)
  BY EffectiveStepsType, EffectiveStepsOrder, TopicsAssumption
<1>2. m.feed \in Nat /\ m.from \in Nat
  BY DEF Motions
<1>3. m.feed * EffectiveSteps(m, s) <= m.feed * EffectiveSteps(m, t)
  BY <1>1, <1>2, ProductOrder
<1>4. /\ m.feed * EffectiveSteps(m, s) \in Nat
      /\ m.feed * EffectiveSteps(m, t) \in Nat
  BY <1>1, <1>2
<1> QED  BY <1>2, <1>3, <1>4 DEF ReferenceAt

\* A motion that fits keeps its reference on the path.
LEMMA ReferenceBound ==
  ASSUME NEW m \in Motions, NEW s \in Nat, Fits(m)
  PROVE  ReferenceAt(m, s) <= Length
<1>1. EffectiveSteps(m, s) \in Nat /\ EffectiveSteps(m, s) <= Ticks
  BY EffectiveStepsType, TopicsAssumption
<1>2. m.feed \in Nat /\ m.from \in Nat /\ Ticks \in Nat /\ Length \in Nat
  BY TopicsAssumption DEF Motions
<1>3. m.feed * EffectiveSteps(m, s) <= m.feed * Ticks
  BY <1>1, <1>2, ProductOrder
<1>4. m.feed * EffectiveSteps(m, s) \in Nat /\ m.feed * Ticks \in Nat
  BY <1>1, <1>2
<1> QED  BY <1>2, <1>3, <1>4 DEF ReferenceAt, Fits

\* A feed bounded by the rest of the path over Ticks stays on the path.
LEMMA QuotientBound ==
  ASSUME NEW a \in Nat, NEW n \in Nat \ {0}, NEW q \in Nat, q <= a \div n
  PROVE  q * n <= a
<1>1. a \div n \in Nat /\ n * (a \div n) <= a
  BY SMT
<1>2. n * q <= n * (a \div n)
  BY <1>1, ProductOrder
<1>3. n * q = q * n /\ n * q \in Nat /\ n * (a \div n) \in Nat
  BY <1>1
<1> QED  BY <1>1, <1>2, <1>3

\* next_control_step returns a step.
LEMMA NextStartType ==
  ASSUME NEW m \in Motions, NEW s \in Nat
  PROVE  NextStart(m, s) \in Nat
<1>1. m.start \in Nat /\ Ticks \in Nat \ {0}
  BY TopicsAssumption DEF Motions
<1>2. s + Ticks - 1 \in Nat
  BY <1>1
<1>3. (s + Ticks - 1) \div Ticks \in Nat
  BY <1>1, <1>2, SMT
<1>4. ((s + Ticks - 1) \div Ticks + 1) * Ticks \in Nat
  BY <1>1, <1>3
<1> QED  BY <1>1, <1>4 DEF NextStart

\* RecoveryState.rejected returns a recovery state.
LEMMA RejectedType ==
  ASSUME NEW r \in Recoveries, NEW t \in Nat
  PROVE  Rejected(r, t) \in Recoveries
BY DEF Rejected, Transition, Recoveries, Phases, Times

\* RecoveryState.update returns a recovery state.
LEMMA UpdatedType ==
  ASSUME NEW r \in Recoveries, NEW t \in Nat, NEW f \in Findings,
         NEW endpt \in BOOLEAN
  PROVE  Updated(r, t, f, endpt) \in Recoveries
<1> DEFINE u == [r EXCEPT !.time = t]
           v == Interrupted(u, t, f)
<1>1. u \in Recoveries
  BY DEF Recoveries, Times
<1>2. v \in Recoveries
  BY <1>1 DEF Interrupted, Transition, Recoveries, Phases, Times
<1>3. Waited(v, t, f) \in Recoveries
  <2> HIDE DEF v
  <2> DEFINE p == [v EXCEPT !.paused = Since(@, t)]
  <2>1. p \in Recoveries /\ Since(v.valid, t) \in Times
    BY <1>2 DEF Recoveries, Times, Since
  <2> HIDE DEF p
  <2>2. /\ Fault(p) \in Recoveries
        /\ Transition([p EXCEPT !.valid = None], "REFERENCE_PAUSED") \in Recoveries
        /\ Transition([p EXCEPT !.paused = None, !.valid = Since(@, t)], "RUNNING")
             \in Recoveries
        /\ Transition([p EXCEPT !.valid = Since(@, t)], "RECOVERING") \in Recoveries
    BY <2>1 DEF Fault, Transition, Recoveries, Phases, Times, Since
  <2> QED  BY <2>2 DEF Waited, p
<1>4. Transition(u, "ENDPOINT_HOLD") \in Recoveries
  BY <1>1 DEF Transition, Recoveries, Phases
<1> QED  BY <1>1, <1>2, <1>3, <1>4 DEF Updated

-----------------------------------------------------------------------------
(* Types *)

\* The initial values have their types.
LEMMA InitTypeOK == Init => TypeOK
<1> SUFFICES ASSUME Init PROVE TypeOK
  OBVIOUS
<1> USE TopicsAssumption, NoneAssumption
<1>1. FirstMotion \in Motions
  BY DEF FirstMotion, Motions, States
<1>2. TopicsTypeOK
  BY DEF Init, TopicsInit, TopicsTypeOK
<1>3. PlantTypeOK
  BY <1>1 DEF Init, PlantInit, PlantTypeOK
<1>4. FirstRecovery \in Recoveries
  BY DEF FirstRecovery, Recoveries, Phases, Times
<1>5. ControllerTypeOK
  BY <1>4, FS_EmptySet DEF Init, ControllerInit, ControllerTypeOK, None
<1> QED  BY <1>2, <1>3, <1>5 DEF TypeOK

\* The schedule keeps its types when it advances with p for pending.
LEMMA AdvanceTypeOK ==
  ASSUME TypeOK, step < MaxStep, NEW p \in Motions \cup {NoMotion}, Advance(p)
  PROVE  /\ step' \in 0 .. MaxStep
         /\ active' \in Motions
         /\ pending' \in Motions \cup {NoMotion}
         /\ sample' \in Snapshots \cup {NoSample}
<1> USE TopicsAssumption, NoneAssumption
<1>1. step' \in 0 .. MaxStep /\ step' \in Nat
  BY DEF Advance, TypeOK, PlantTypeOK
<1>2. active' \in Motions
  BY DEF Advance, Starts, TypeOK, PlantTypeOK
<1>3. pending' \in Motions \cup {NoMotion}
  BY DEF Advance, TypeOK, PlantTypeOK
<1>4. (IF pending' = NoMotion THEN 0 ELSE pending'.id) \in Nat
  BY <1>3 DEF Motions
<1>5. sample' \in Snapshots \cup {NoSample}
  BY <1>1, <1>2, <1>4 DEF Advance, Snapshots, TypeOK, TopicsTypeOK
<1> QED  BY <1>1, <1>2, <1>3, <1>5

\* The timer starts a calculation, of a start step not tried before, or none.
LEMMA ConsiderBegins ==
  ASSUME TypeOK, Consider
  PROVE  LET start == NextStart(latest.active, latest.step)
         IN /\ latest \in Snapshots
            /\ calculation = NoCalculation
            /\ \/ UNCHANGED <<calculation, lastStart, started>>
               \/ /\ calculation' \in Calculations
                  /\ calculation'.start = start /\ calculation'.feed = 0
                  /\ lastStart' = start /\ start \in Nat /\ start > lastStart
                  /\ started' = started + 1
<1> DEFINE start == NextStart(latest.active, latest.step)
           begins == latest.pending = 0 /\ FreshStart
<1>1. /\ latest \in Snapshots /\ latest.active \in Motions /\ latest.step \in Nat
      /\ calculation = NoCalculation
  BY DEF Consider, TypeOK, ControllerTypeOK, Snapshots
<1>2. start \in Nat
  BY <1>1, NextStartType
<1>3. /\ StateAt(latest.active, start) \in States
      /\ ReferenceAt(latest.active, start) \in Nat
  BY <1>1, <1>2, StateAtType, ReferenceType
<1>4. (IF start = latest.active.start + Ticks
       THEN latest.active.feed ELSE 0) \in Nat
  BY <1>1 DEF Motions
<1>5. start > lastStart <=> FreshStart
  BY DEF FreshStart
<1> HIDE DEF start
<1>6. [start |-> start,
       initial |-> StateAt(latest.active, start),
       from |-> ReferenceAt(latest.active, start),
       executed |-> IF start = latest.active.start + Ticks
                    THEN latest.active.feed ELSE 0,
       seen |-> latest, outcome |-> "running", feed |-> 0] \in Calculations
  BY <1>1, <1>2, <1>3, <1>4 DEF Calculations, Outcomes
<1>7. CASE begins
  <2>1. /\ calculation' = [start |-> start,
              initial |-> StateAt(latest.active, start),
              from |-> ReferenceAt(latest.active, start),
              executed |-> IF start = latest.active.start + Ticks
                           THEN latest.active.feed ELSE 0,
              seen |-> latest, outcome |-> "running", feed |-> 0]
        /\ lastStart' = start /\ started' = started + 1
    BY <1>7 DEF Consider, start
  <2>2. calculation'.start = start /\ calculation'.feed = 0
    BY <2>1
  <2> QED  BY <1>1, <1>2, <1>5, <1>6, <1>7, <2>1, <2>2 DEF start
<1>8. CASE ~begins
  BY <1>1, <1>8 DEF Consider
<1> QED  BY <1>7, <1>8

\* The worker decides the calculation that is under way, and keeps its start.
LEMMA ProposeDone ==
  ASSUME TypeOK, NEW finding \in Findings, NEW feed \in 0 .. MaxFeed,
         NEW zero \in {"certified", "refused", "fails"},
         Propose(finding, feed, zero)
  PROVE  /\ calculation \in Calculations
         /\ calculation' \in Calculations
         /\ calculation'.start = calculation.start
         /\ calculation'.feed > 0 => recovery'.phase = "RUNNING"
<1> USE TopicsAssumption
<1>1. calculation \in Calculations
  BY DEF Propose, TypeOK, ControllerTypeOK
<1>2. PICK f \in Nat, o \in Outcomes :
        /\ calculation' = [calculation EXCEPT !.feed = f, !.outcome = o]
        /\ f > 0 => recovery'.phase = "RUNNING"
  <2> DEFINE f == IF recovery'.phase = "RUNNING" THEN feed ELSE 0
             o == IF recovery'.phase = "FAULT" THEN "none"
                  ELSE IF recovery'.phase = "RUNNING" \/ zero = "certified"
                       THEN "motion"
                  ELSE IF zero = "refused" THEN "none" ELSE "error"
  <2>1. f \in Nat /\ o \in Outcomes /\ (f > 0 => recovery'.phase = "RUNNING")
    BY DEF Outcomes
  <2>2. calculation' = [calculation EXCEPT !.feed = f, !.outcome = o]
    BY DEF Propose
  <2> HIDE DEF f, o
  <2> QED  BY <2>1, <2>2
<1> QED  BY <1>1, <1>2 DEF Calculations

\* So does a solver that raises.
LEMMA ProposeFailsDone ==
  ASSUME TypeOK, ProposeFails
  PROVE  /\ calculation \in Calculations
         /\ calculation' \in Calculations
         /\ calculation'.start = calculation.start
         /\ calculation'.feed = calculation.feed
<1>1. /\ calculation \in Calculations
      /\ calculation' = [calculation EXCEPT !.outcome = "error"]
  BY DEF ProposeFails, TypeOK, ControllerTypeOK
<1> QED  BY <1>1 DEF Calculations, Outcomes

\* No callback, timer or worker step assigns a value of another type.
LEMMA NextTypeOK == TypeOK /\ [Next]_vars => TypeOK'
<1> SUFFICES ASSUME TypeOK, [Next]_vars PROVE TypeOK'
  OBVIOUS
<1> USE TopicsAssumption, NoneAssumption, NoSampleAssumption,
        NoCalculationAssumption, ControllerAssumption
<1>1. CASE PlantStep
  <2>1. ASSUME NEW m \in commands, OnCommand(m)
        PROVE  TopicsTypeOK' /\ PlantTypeOK'
    <3>1. Answer(m, "admission_busy") \in Answers
          /\ Answer(m, "path_interval") \in Answers
      BY DEF TypeOK, TopicsTypeOK, PlantTypeOK, Answer, Answers, Motions, Reasons
    <3> QED
      BY <2>1, <3>1
      DEF OnCommand, Refusal, TypeOK, TopicsTypeOK, PlantTypeOK
  <2>2. ASSUME PlantTick  PROVE TopicsTypeOK' /\ PlantTypeOK'
    BY <2>2, AdvanceTypeOK
    DEF PlantTick, TypeOK, TopicsTypeOK, PlantTypeOK
  <2>3. ASSUME NEW certified \in BOOLEAN, Admit(certified)
        PROVE  TopicsTypeOK' /\ PlantTypeOK'
    <3> DEFINE verdict == Verdict(checking, certified)
    <3>1. checking \in Motions /\ verdict \in Reasons
      BY <2>3 DEF Admit, TypeOK, PlantTypeOK, Verdict, Reasons
    <3>2. Answer(checking, verdict) \in Answers
      BY <3>1 DEF TypeOK, PlantTypeOK, Answer, Answers, Motions
    <3> HIDE DEF verdict
    <3>3. /\ step < MaxStep
          /\ admissions' = admissions \cup {Answer(checking, verdict)}
          /\ refused' = Refused(checking, verdict)
          /\ lastRequest' = IF verdict = "repeated_command"
                            THEN lastRequest ELSE checking.id
          /\ Advance(IF verdict = "accepted" THEN checking ELSE pending)
          /\ checking' = NoMotion
          /\ commands' = commands
      BY <2>3 DEF Admit, verdict
    <3>4. (IF verdict = "accepted" THEN checking ELSE pending)
            \in Motions \cup {NoMotion}
      BY <3>1 DEF TypeOK, PlantTypeOK
    <3>5. /\ step' \in 0 .. MaxStep
          /\ active' \in Motions
          /\ pending' \in Motions \cup {NoMotion}
          /\ sample' \in Snapshots \cup {NoSample}
      BY <3>3, <3>4, AdvanceTypeOK
    <3> QED
      BY <3>1, <3>2, <3>3, <3>5
      DEF TypeOK, TopicsTypeOK, PlantTypeOK, Refused, Motions
  <2>4. ControllerTypeOK'
    BY <1>1 DEF PlantStep, controllerVars, TypeOK, ControllerTypeOK
  <2> QED  BY <1>1, <2>1, <2>2, <2>3, <2>4 DEF PlantStep, PlantNext, TypeOK
<1>2. CASE ControllerStep
  <2> USE DEF TypeOK, TopicsTypeOK, ControllerTypeOK, topics
  <2>1. PlantTypeOK'
    BY <1>2 DEF ControllerStep, plantVars, PlantTypeOK
  <2>2. CASE OnState
    BY <2>1, <2>2 DEF OnState
  <2>3. ASSUME NEW a \in admissions, OnAdmission(a)  PROVE TypeOK'
    <3>1. a.step \in Nat
      BY DEF Answers
    <3>2. recovery' \in Recoveries
      BY <2>3, <3>1, RejectedType DEF OnAdmission
    <3>3. IsFiniteSet(cycles \ {a.id})
      BY FS_RemoveElement
    <3>4. cycles' \in SUBSET Nat /\ IsFiniteSet(cycles')
      BY <2>3, <3>3 DEF OnAdmission, Remaining
    <3>5. waiting' \in Nat
      BY <2>3 DEF OnAdmission
    <3>6. admissions' \in SUBSET Answers /\ recorded' \in Nat
      BY <2>3 DEF OnAdmission
    <3> QED  BY <2>1, <2>3, <3>2, <3>4, <3>5, <3>6 DEF OnAdmission
  <2>4. CASE Consider
    <3>1. /\ calculation' \in Calculations \cup {NoCalculation}
          /\ lastStart' \in Nat
          /\ started' \in Nat
          /\ waiting' = 0
      BY <2>4, ConsiderBegins DEF Consider
    <3> QED  BY <2>1, <2>4, <3>1 DEF Consider
  <2>5. ASSUME NEW finding \in Findings, NEW feed \in 0 .. MaxFeed,
               NEW zero \in {"certified", "refused", "fails"},
               Propose(finding, feed, zero)
        PROVE  TypeOK'
    <3>1. calculation \in Calculations /\ calculation.start \in Nat
      BY <2>5 DEF Propose, Calculations
    <3>2. AtEndpoint(calculation) \in BOOLEAN
      BY DEF AtEndpoint
    <3>3. recovery' = Updated(recovery, calculation.start, finding,
                             AtEndpoint(calculation))
      BY <2>5 DEF Propose
    <3>4. recovery' \in Recoveries
      BY <3>1, <3>2, <3>3, UpdatedType
    <3>5. calculation' \in Calculations
      BY <2>5, ProposeDone
    <3> QED  BY <2>1, <2>5, <3>4, <3>5 DEF Propose
  <2>6. CASE ProposeFails
    <3>1. calculation' \in Calculations
      BY <2>6, ProposeFailsDone
    <3> QED  BY <2>1, <2>6, <3>1 DEF ProposeFails
  <2>7. CASE FinishError \/ FinishFault \/ FinishNone
    <3>1. calculation' = NoCalculation /\ recorded' \in Nat
      BY <2>7 DEF FinishError, FinishFault, FinishNone, Finishes
    <3>2. /\ mode' \in {"tracking", "holding", "failing"}
          /\ termination' \in {"none", "completed", "pause_timeout"}
      BY <2>7 DEF FinishError, FinishFault, FinishNone, Finishes
    <3>3. UNCHANGED <<topics, latest, waiting, lastStart, sequence, cycles,
                      endpoint, recovery, started>>
      BY <2>7 DEF FinishError, FinishFault, FinishNone
    <3> QED  BY <2>1, <3>1, <3>2, <3>3
  <2>8. ASSUME NEW inside \in BOOLEAN, FinishMotion(inside)  PROVE TypeOK'
    <3>1. calculation \in Calculations /\ calculation.seen.step \in Nat
      BY <2>8 DEF FinishMotion, Finishes, Calculations, Snapshots
    <3>2. sequence' \in Nat
      BY <2>8 DEF FinishMotion
    <3>3. [id |-> sequence', start |-> calculation.start,
           initial |-> calculation.initial, from |-> calculation.from,
           feed |-> calculation.feed] \in Motions
      BY <3>1, <3>2 DEF Calculations, Motions
    <3>4. commands' \in SUBSET Motions
      BY <2>8, <3>3 DEF FinishMotion
    <3>5. endpoint' \in Nat \cup {None}
      BY <2>8, <3>1 DEF FinishMotion, EndpointSince
    <3>6. cycles' \in SUBSET Nat /\ IsFiniteSet(cycles')
      BY <2>8, <3>2, FS_AddElement DEF FinishMotion
    <3>7. /\ mode' \in {"tracking", "holding", "failing", "leaving", "ended"}
          /\ termination' \in {"none", "completed", "pause_timeout"}
      BY <2>8 DEF FinishMotion
    <3> QED
      BY <2>1, <2>8, <3>2, <3>4, <3>5, <3>6, <3>7 DEF FinishMotion, Finishes
  <2>9. ASSUME NEW end \in {"failing", "leaving"}, StopSpinning(end)
        PROVE  TypeOK'
    BY <2>1, <2>9 DEF StopSpinning
  <2>10. CASE FinishRecording
    <3>1. recovery' \in Recoveries
      BY <2>10 DEF FinishRecording, Fault, Transition, Recoveries, Phases
    <3>2. recorded' \in Nat
      <4>1. Cardinality(cycles) \in Nat
        BY FS_CardinalityType
      <4> QED  BY <2>10, <4>1 DEF FinishRecording, OpenCalculation
    <3> QED  BY <2>1, <2>10, <3>1, <3>2, FS_EmptySet DEF FinishRecording
  <2> QED
    BY <1>2, <2>2, <2>3, <2>4, <2>5, <2>6, <2>7, <2>8, <2>9, <2>10
    DEF ControllerStep, ControllerNext, WorkerNext
<1>3. CASE NetworkStep
  <2>1. TopicsTypeOK'
    BY <1>3 DEF NetworkStep, Lose, TypeOK, TopicsTypeOK
  <2>2. PlantTypeOK' /\ ControllerTypeOK'
    BY <1>3
    DEF NetworkStep, plantVars, controllerVars, TypeOK, PlantTypeOK,
        ControllerTypeOK
  <2> QED  BY <2>1, <2>2 DEF TypeOK
<1>4. CASE UNCHANGED vars
  BY <1>4
  DEF vars, topics, plantVars, controllerVars, TypeOK, TopicsTypeOK,
      PlantTypeOK, ControllerTypeOK
<1> QED  BY <1>1, <1>2, <1>3, <1>4 DEF Next

\* Every variable of the loop keeps the type its code gives it.
THEOREM LoopTypes == Spec => []TypeOK
<1>1. Init => TypeOK
  BY InitTypeOK
<1>2. TypeOK /\ [Next]_vars => TypeOK'
  BY NextTypeOK
<1> QED  BY <1>1, <1>2, PTL DEF Spec

-----------------------------------------------------------------------------
(* The inductive invariant holds initially and is kept by every step *)

\* At the beginning nothing is on its way and the plant stands still.
LEMMA InitIInv == Init => IInv
<1> SUFFICES ASSUME Init PROVE IInv
  OBVIOUS
<1> USE DEF Init, TopicsInit, PlantInit, ControllerInit
<1>1. TypeOK
  BY InitTypeOK
<1>2. OneCommand /\ OneAnswer /\ CyclesAreOpen
  BY DEF OneCommand, OneAnswer, CyclesAreOpen, FirstMotion
<1>3. Seen /\ CalculationFits /\ CompletedAtTheEnd
  BY DEF Seen, CalculationFits, CompletedAtTheEnd
<1>4. Fits(active)
  BY TopicsAssumption DEF Fits, FirstMotion
<1>5. MotionsFit
  BY <1>4 DEF MotionsFit
<1> QED  BY <1>1, <1>2, <1>3, <1>5 DEF IInv

\* While nothing is waited for, nothing is on its way to becoming active.
LEMMA NothingAwaited ==
  ASSUME IInv, waiting = 0
  PROVE  /\ commands = {}
         /\ checking = NoMotion
         /\ pending = NoMotion
         /\ \A a \in admissions : a.reason = "accepted"
<1> USE DEF IInv, TypeOK
<1>1. active.id \in Nat /\ lastRequest \in Nat
  BY DEF PlantTypeOK, Motions
<1>2. commands = {} /\ checking = NoMotion
  <2>1. commands \subseteq Motions /\ checking \in Motions \cup {NoMotion}
    BY DEF TopicsTypeOK, PlantTypeOK
  <2> QED  BY <1>1, <2>1 DEF OneCommand, Motions
<1>3. pending = NoMotion
  <2>1. pending \in Motions \cup {NoMotion}
    BY DEF PlantTypeOK
  <2> QED  BY <1>1, <2>1 DEF OneCommand, Motions
<1>4. \A a \in admissions : a.reason = "accepted"
  BY <1>1 DEF OneAnswer
<1> QED  BY <1>2, <1>3, <1>4

\* What an advance of the schedule does when p, pending or just accepted, is
\* due later and continues the active motion.
Due(p) ==
  p # NoMotion =>
    /\ p.id = waiting
    /\ p.id > active.id
    /\ p.start > step
    /\ Fits(p)
    /\ Continues(p)

\* schedule.advance exchanges the active motion only for one that continues it.
LEMMA AdvanceKeeps ==
  ASSUME IInv, step < MaxStep, NEW p \in Motions \cup {NoMotion}, Due(p),
         Advance(p)
  PROVE  /\ StateAt(active', step') = StateAt(active, step')
         /\ ReferenceAt(active', step') = ReferenceAt(active, step')
         /\ Fits(active')
         /\ pending' = NoMotion => active' = active \/ active' = p
         /\ pending' # NoMotion =>
              pending' = p /\ active' = active /\ p.start > step'
         /\ active'.id >= active.id
         /\ active' # active => active' = p /\ p # NoMotion
         /\ \/ sample' = [step |-> step', active |-> active',
                          pending |-> IF pending' = NoMotion
                                      THEN 0 ELSE pending'.id]
            \/ sample' = sample
<1> USE NoneAssumption, TopicsAssumption
<1>0. step \in Nat /\ active \in Motions /\ Fits(active) /\ step' = step + 1
  BY DEF IInv, TypeOK, PlantTypeOK, MotionsFit, Advance
<1>1. CASE Starts(p)
  <2>1. /\ p \in Motions /\ p.start = step' /\ active' = p /\ pending' = NoMotion
        /\ p.initial = StateAt(active, step')
        /\ p.from = ReferenceAt(active, step')
        /\ Fits(p) /\ p.id > active.id
    BY <1>0, <1>1 DEF Advance, Starts, Due, Continues
  <2>2. StateAt(p, step') = p.initial
    BY <1>0, <2>1 DEF StateAt, Motions
  <2>3. ReferenceAt(p, step') = p.from
    BY <1>0, <2>1 DEF ReferenceAt, EffectiveSteps, Motions
  <2>4. p.id \in Nat /\ active.id \in Nat
    BY <1>0, <2>1 DEF Motions
  <2> QED  BY <1>1, <2>1, <2>2, <2>3, <2>4 DEF Advance, Starts
<1>2. CASE ~Starts(p)
  <2>1. active' = active /\ pending' = p
    BY <1>2 DEF Advance
  <2>2. p # NoMotion => p.start > step'
    BY <1>0, <1>2 DEF Starts, Due, Motions
  <2>3. active.id \in Nat
    BY <1>0 DEF Motions
  <2> QED  BY <1>0, <1>2, <2>1, <2>2, <2>3 DEF Advance
<1> QED  BY <1>1, <1>2

\* What snapshots show stays true when the schedule advances and sends another.
LEMMA AdvanceSeen ==
  ASSUME IInv, step < MaxStep, NEW p \in Motions \cup {NoMotion}, Due(p),
         Advance(p), UNCHANGED controllerVars
  PROVE  Seen' /\ CalculationFits' /\ CompletedAtTheEnd'
<1> USE NoneAssumption, TopicsAssumption
<1>0. /\ UNCHANGED <<termination, latest, waiting, calculation, sequence>>
      /\ step \in Nat /\ step' = step + 1 /\ active \in Motions
      /\ waiting \in Nat
  BY DEF controllerVars, Advance, IInv, TypeOK, PlantTypeOK, ControllerTypeOK
<1>1. active.id \in Nat
  BY <1>0 DEF Motions
<1>2. active' # active => p \in Motions /\ active' = p /\ p.id = waiting
                          /\ p.id > active.id /\ waiting # 0
  BY <1>0, <1>1, AdvanceKeeps DEF Due, Motions
<1>3. Seen'
  <2>1. \/ sample' = [step |-> step', active |-> active',
                      pending |-> IF pending' = NoMotion THEN 0 ELSE pending'.id]
        \/ sample' = sample
    BY AdvanceKeeps
  <2>2. latest' = NoSample =>
          sequence' = 0 /\ waiting' = 0 /\ calculation' = NoCalculation
    BY <1>0 DEF IInv, Seen, Shows
  <2>3. ASSUME NEW s \in Snapshots, Shows(s)
        PROVE  (Shows(s))'
    <3>1. s.step \in Nat /\ s.active.id \in Nat
      BY DEF Snapshots, Motions
    <3> QED  BY <1>0, <1>1, <1>2, <2>3, <3>1 DEF Shows
  <2>4. sample \in Snapshots \cup {NoSample} /\ latest \in Snapshots \cup {NoSample}
    BY DEF IInv, TypeOK, TopicsTypeOK, ControllerTypeOK
  <2>5. latest' # NoSample => (Shows(latest))'
    <3>1. latest # NoSample => latest \in Snapshots /\ Shows(latest)
      BY <2>4 DEF IInv, Seen, Shows
    <3> QED  BY <1>0, <2>3, <3>1 DEF Shows
  <2>6. CASE sample' = sample
    <3>1. sample # NoSample => sample \in Snapshots /\ Shows(sample)
      BY <2>4 DEF IInv, Seen, Shows
    <3>2. sample # NoSample => (Shows(sample))'
      BY <2>3, <2>6, <3>1 DEF Shows
    <3> QED  BY <1>0, <2>2, <2>5, <2>6, <3>2 DEF IInv, Seen, Shows
  <2>7. CASE sample' = [step |-> step', active |-> active',
                        pending |-> IF pending' = NoMotion THEN 0 ELSE pending'.id]
    <3>1. sample'.step = step' /\ sample'.active = active'
      BY <2>7
    <3>2. (Shows(sample))'
      BY <1>0, <1>1, <1>2, <3>1 DEF Shows, Motions
    <3>3. ASSUME latest # NoSample
          PROVE  latest.step < step' /\ latest.active.id <= active'.id
      <4>1. latest.step <= step /\ latest.step \in Nat
        BY <2>4, <3>3 DEF IInv, Seen, Shows, Snapshots
      <4>2. latest.active.id <= active'.id
        BY <1>0, <2>5, <3>3 DEF Shows
      <4> QED  BY <1>0, <4>1, <4>2
    <3> QED  BY <1>0, <2>2, <2>5, <3>1, <3>2, <3>3 DEF Seen
  <2> QED  BY <2>1, <2>6, <2>7
<1>4. CalculationFits'
  <2> SUFFICES ASSUME calculation # NoCalculation
               PROVE  CalculationFits'
    BY <1>0 DEF CalculationFits
  <2>1. /\ waiting = 0
        /\ Continues(calculation)
        /\ Fits(calculation)
        /\ calculation.seen.active = active
        /\ calculation.seen.step <= step
    BY DEF IInv, CalculationFits
  <2>2. active' = active
    BY <1>2, <2>1
  <2>3. calculation.seen.step \in Nat
    BY DEF IInv, TypeOK, ControllerTypeOK, Calculations, Snapshots
  <2> QED  BY <1>0, <2>1, <2>2, <2>3 DEF CalculationFits, Continues, Fits
<1>5. CompletedAtTheEnd'
  <2> SUFFICES ASSUME termination = "completed"
               PROVE  ReferenceAt(active', step') = Length
    BY <1>0 DEF CompletedAtTheEnd
  <2>1. ReferenceAt(active, step) = Length
    BY DEF IInv, CompletedAtTheEnd
  <2>2. ReferenceAt(active, step) <= ReferenceAt(active, step')
    BY <1>0, ReferenceOrder
  <2>3. ReferenceAt(active, step') <= Length
    BY <1>0, ReferenceBound DEF IInv, MotionsFit
  <2>4. ReferenceAt(active, step') \in Nat
    BY <1>0, ReferenceType
  <2> QED  BY <2>1, <2>2, <2>3, <2>4, AdvanceKeeps
<1> QED  BY <1>3, <1>4, <1>5

\* The plant takes up a command: it is never busy, and the motion never leaves
\* the path.
LEMMA OnCommandIInv ==
  ASSUME IInv, TypeOK', NEW m \in commands, OnCommand(m),
         UNCHANGED controllerVars
  PROVE  IInv'
<1> USE NoneAssumption, TopicsAssumption
<1>0. /\ UNCHANGED <<mode, termination, latest, waiting, calculation, sequence,
                     cycles, sample, step, active, pending, lastRequest>>
      /\ m \in Motions /\ commands \subseteq Motions
  BY DEF controllerVars, OnCommand, IInv, TypeOK, TopicsTypeOK
<1>1. /\ m.id = waiting /\ m.id > lastRequest
      /\ checking = NoMotion /\ pending = NoMotion
      /\ commands = {m}
      /\ Fits(m) /\ Continues(m)
  BY DEF IInv, OneCommand, MotionsFit
<1>2. ~Busy /\ ~LeavesPath(m)
  <2>1. m.from + m.feed * Ticks \in Nat
    BY <1>0 DEF Motions
  <2> QED  BY <1>1, <2>1 DEF Busy, LeavesPath, Fits
<1>3. commands' = {} /\ checking' = m /\ admissions' = admissions
  BY <1>1, <1>2 DEF OnCommand
<1>4. OneCommand'
  BY <1>0, <1>1, <1>3 DEF IInv, OneCommand
<1>5. OneAnswer'
  BY <1>0, <1>1, <1>3 DEF IInv, OneAnswer
<1>6. CyclesAreOpen'
  BY <1>0, <1>1, <1>3 DEF IInv, CyclesAreOpen, Alive
<1>7. Seen' /\ CalculationFits' /\ CompletedAtTheEnd'
  BY <1>0 DEF IInv, Seen, Shows, CalculationFits, CompletedAtTheEnd, Continues, Fits
<1>8. MotionsFit'
  BY <1>0, <1>1, <1>3 DEF IInv, MotionsFit, Continues, Fits
<1> QED  BY <1>4, <1>5, <1>6, <1>7, <1>8 DEF IInv

\* The plant's timer without a certificate.
LEMMA PlantTickIInv ==
  ASSUME IInv, TypeOK', PlantTick, UNCHANGED controllerVars
  PROVE  IInv'
<1> USE NoneAssumption, TopicsAssumption
<1>0. /\ UNCHANGED <<mode, waiting, sequence, cycles, commands, admissions,
                     lastRequest, checking>>
      /\ step < MaxStep /\ Advance(pending)
      /\ pending \in Motions \cup {NoMotion}
      /\ active.id \in Nat /\ lastRequest \in Nat
  BY DEF controllerVars, PlantTick, IInv, TypeOK, PlantTypeOK, Motions
<1>1. Due(pending)
  BY DEF IInv, OneCommand, MotionsFit, Due
<1>2. Seen' /\ CalculationFits' /\ CompletedAtTheEnd'
  BY <1>0, <1>1, AdvanceSeen
<1>3. /\ Fits(active')
      /\ active' # active => active' = pending /\ pending # NoMotion
      /\ pending' # NoMotion =>
           pending' = pending /\ active' = active /\ pending.start > step'
  BY <1>0, <1>1, AdvanceKeeps
<1>4. pending # NoMotion =>
        /\ pending.id = waiting /\ pending.id = lastRequest
        /\ pending.id > active.id
        /\ commands = {} /\ checking = NoMotion
        /\ \A a \in admissions : a.reason = "accepted"
  BY DEF IInv, OneCommand, OneAnswer
<1>5. OneCommand'
  BY <1>0, <1>3, <1>4 DEF IInv, OneCommand
<1>6. OneAnswer'
  BY <1>0, <1>3, <1>4 DEF IInv, OneAnswer
<1>7. CyclesAreOpen'
  BY <1>0 DEF IInv, CyclesAreOpen, Alive
<1>8. MotionsFit'
  BY <1>0, <1>3, <1>4 DEF IInv, MotionsFit, Continues, Fits
<1> QED  BY <1>2, <1>5, <1>6, <1>7, <1>8 DEF IInv

\* The plant answers: a motion is late, not certified or accepted, and an
\* accepted one is due.
LEMMA AdmitIInv ==
  ASSUME IInv, TypeOK', NEW certified \in BOOLEAN, Admit(certified),
         UNCHANGED controllerVars
  PROVE  IInv'
<1> USE NoneAssumption, TopicsAssumption
<1> DEFINE verdict == Verdict(checking, certified)
           p == IF verdict = "accepted" THEN checking ELSE pending
           answer == Answer(checking, verdict)
<1>0. /\ UNCHANGED <<mode, waiting, sequence, cycles, commands>>
      /\ step < MaxStep /\ checking # NoMotion /\ checking \in Motions
      /\ active.id \in Nat /\ lastRequest \in Nat /\ checking.id \in Nat
      /\ step \in Nat /\ checking.start \in Nat
  BY DEF controllerVars, Admit, IInv, TypeOK, PlantTypeOK, Motions
<1>1. /\ checking.id = waiting /\ checking.id > lastRequest
      /\ pending = NoMotion /\ commands = {}
      /\ Fits(checking) /\ Continues(checking)
      /\ active.id <= lastRequest /\ lastRequest <= sequence
      /\ waiting # 0 => waiting = sequence
  BY <1>0 DEF IInv, OneCommand, MotionsFit
<1>2. /\ verdict \in {"accepted", "late_command", "uncertified"}
      /\ verdict = "accepted" => checking.start > step
  BY <1>0, <1>1 DEF Verdict, Late, Continues
<1>3. answer.id = checking.id /\ answer.reason = verdict
  BY DEF Answer
<1> HIDE DEF verdict
<1>4. /\ admissions' = admissions \cup {answer}
      /\ lastRequest' = checking.id
      /\ checking' = NoMotion
      /\ Advance(p)
  BY <1>2 DEF Admit, verdict
<1>5. p \in Motions \cup {NoMotion} /\ Due(p)
  BY <1>0, <1>1, <1>2 DEF Due
<1>6. Seen' /\ CalculationFits' /\ CompletedAtTheEnd'
  BY <1>0, <1>4, <1>5, AdvanceSeen
<1>7. /\ Fits(active')
      /\ active' # active => active' = p /\ p # NoMotion
      /\ pending' # NoMotion => pending' = p /\ active' = active /\ p.start > step'
  BY <1>0, <1>4, <1>5, AdvanceKeeps
<1>8. p # NoMotion => verdict = "accepted" /\ p = checking
  BY <1>1
<1> HIDE DEF p, answer
<1>9. OneCommand'
  BY <1>0, <1>1, <1>4, <1>7, <1>8 DEF OneCommand
<1>10. OneAnswer'
  <2>1. \A a \in admissions : a.id <= lastRequest /\ a.reason = "accepted"
    BY <1>0 DEF IInv, OneAnswer
  <2>2. \A a \in admissions : a.id # answer.id
    <3>1. \A a \in admissions : a.id \in Nat
      BY DEF IInv, TypeOK, TopicsTypeOK, Answers
    <3> QED  BY <1>0, <1>1, <1>3, <2>1, <3>1
  <2>3. verdict # "accepted" =>
          active' = active /\ pending' = NoMotion /\ active.id < checking.id
    BY <1>0, <1>1, <1>7, <1>8
  <2>4. \A a, b \in admissions' : a.id = b.id => a = b
    BY <1>4, <2>2 DEF IInv, OneAnswer
  <2>5. ASSUME NEW a \in admissions'
        PROVE  /\ a.id <= lastRequest'
               /\ a.reason \in {"accepted", "late_command", "uncertified"}
               /\ a.reason # "accepted" =>
                    /\ a.id = waiting' /\ active'.id < a.id
                    /\ commands' = {} /\ checking' = NoMotion
                    /\ pending' = NoMotion
    <3>1. CASE a \in admissions
      <4>1. a.id \in Nat
        BY <3>1 DEF IInv, TypeOK, TopicsTypeOK, Answers
      <4> QED  BY <1>0, <1>1, <1>4, <2>1, <3>1, <4>1
    <3>2. CASE a = answer
      BY <1>0, <1>1, <1>2, <1>3, <1>4, <2>3, <3>2
    <3> QED  BY <1>4, <3>1, <3>2
  <2> QED  BY <2>4, <2>5 DEF OneAnswer
<1>11. CyclesAreOpen'
  BY <1>0, <1>1, <1>3, <1>4 DEF IInv, CyclesAreOpen, Alive
<1>12. MotionsFit'
  BY <1>0, <1>1, <1>4, <1>7, <1>8 DEF MotionsFit, Continues, Fits
<1> QED  BY <1>6, <1>9, <1>10, <1>11, <1>12 DEF IInv

\* A lost message takes nothing from what the others rely on.
LEMMA LoseIInv ==
  ASSUME IInv, TypeOK', NetworkStep
  PROVE  IInv'
<1>1. /\ commands' \subseteq commands /\ admissions' \subseteq admissions
      /\ sample' = sample \/ sample' = NoSample
      /\ UNCHANGED <<plantVars, controllerVars>>
  BY DEF NetworkStep, Lose
<1> USE <1>1 DEF plantVars, controllerVars
<1>2. OneCommand'
  BY DEF IInv, OneCommand
<1>3. OneAnswer'
  BY DEF IInv, OneAnswer
<1>4. CyclesAreOpen' /\ Seen'
  BY DEF IInv, CyclesAreOpen, Alive, Seen, Shows
<1>5. CalculationFits' /\ MotionsFit' /\ CompletedAtTheEnd'
  BY DEF IInv, CalculationFits, MotionsFit, CompletedAtTheEnd, Continues, Fits
<1> QED  BY <1>2, <1>3, <1>4, <1>5 DEF IInv

-----------------------------------------------------------------------------
(* The steps of the controller and its worker *)

\* The state callback replaces the last snapshot by a later one.
LEMMA OnStateIInv ==
  ASSUME IInv, TypeOK', OnState, UNCHANGED plantVars
  PROVE  IInv'
<1> USE NoneAssumption
<1>1. /\ sample' = NoSample /\ latest' = sample /\ sample # NoSample
      /\ UNCHANGED <<commands, admissions, mode, termination, waiting,
                     calculation, sequence, cycles, step, active, pending,
                     lastRequest, checking>>
  BY DEF OnState, plantVars
<1>2. sample' = NoSample /\ (Shows(latest))'
  BY <1>1 DEF IInv, Seen, Shows
<1>3. Seen'
  BY <1>1, <1>2 DEF IInv, TypeOK, PlantTypeOK, Motions, Seen, Shows
<1>4. OneCommand' /\ OneAnswer' /\ CyclesAreOpen'
  BY <1>1 DEF IInv, OneCommand, OneAnswer, CyclesAreOpen, Alive
<1>5. CalculationFits' /\ MotionsFit' /\ CompletedAtTheEnd'
  BY <1>1
  DEF IInv, CalculationFits, MotionsFit, CompletedAtTheEnd, Continues, Fits
<1> QED  BY <1>3, <1>4, <1>5 DEF IInv

\* An answer arrives.  When it refuses, the wait is over for good: nothing
\* else is on its way.
LEMMA OnAdmissionIInv ==
  ASSUME IInv, TypeOK', NEW a \in admissions, OnAdmission(a),
         UNCHANGED plantVars
  PROVE  IInv'
<1> USE NoneAssumption
<1>1. /\ admissions' = admissions \ {a} /\ cycles' = cycles \ {a.id}
      /\ UNCHANGED <<commands, sample, mode, termination, latest, calculation,
                     sequence, step, active, pending, lastRequest, checking>>
      /\ a.reason = "accepted" => waiting' = waiting
      /\ a.reason # "accepted" => waiting' = 0
      /\ Alive
  BY DEF OnAdmission, Remaining, plantVars
<1>2. a.reason # "accepted" =>
        /\ a.id = waiting /\ active.id < a.id
        /\ commands = {} /\ checking = NoMotion /\ pending = NoMotion
        /\ \A b \in admissions \ {a} : b.reason = "accepted"
  BY DEF IInv, OneAnswer
<1>3. OneCommand'
  BY <1>1, <1>2 DEF IInv, OneCommand
<1>4. OneAnswer'
  BY <1>1, <1>2 DEF IInv, OneAnswer
<1>5. CyclesAreOpen'
  <2>1. \A b \in admissions' : b.id # a.id
    BY <1>1 DEF IInv, OneAnswer
  <2>2. /\ a.id \in Nat /\ lastRequest \in Nat /\ a.id <= lastRequest
        /\ commands \subseteq Motions /\ checking \in Motions \cup {NoMotion}
    BY DEF IInv, OneAnswer, TypeOK, TopicsTypeOK, PlantTypeOK, Answers
  <2>3. \A m \in commands : m.id # a.id
    BY <2>2 DEF IInv, OneCommand, Motions
  <2>4. checking # NoMotion => checking.id # a.id
    BY <2>2 DEF IInv, OneCommand, Motions
  <2> QED  BY <1>1, <2>1, <2>3, <2>4 DEF IInv, CyclesAreOpen, Alive
<1>6. Seen'
  <2>1. a.reason # "accepted" => active.id # waiting
    BY <1>2 DEF IInv, TypeOK, TopicsTypeOK, PlantTypeOK, Answers, Motions
  <2>2. latest = NoSample => a.reason = "accepted"
    BY <1>2 DEF IInv, Seen, Shows, TypeOK, TopicsTypeOK, PlantTypeOK, Answers, Motions
  <2> QED  BY <1>1, <2>1, <2>2 DEF IInv, Seen, Shows
<1>7. CalculationFits' /\ MotionsFit' /\ CompletedAtTheEnd'
  BY <1>1
  DEF IInv, CalculationFits, MotionsFit, CompletedAtTheEnd, Continues, Fits
<1> QED  BY <1>3, <1>4, <1>5, <1>6, <1>7 DEF IInv

\* A calculation begins where the active motion will be: the snapshot it
\* begins with shows that motion.
LEMMA ConsiderIInv ==
  ASSUME IInv, TypeOK', Consider, UNCHANGED plantVars
  PROVE  IInv'
<1> USE NoneAssumption, NoSampleAssumption, NoCalculationAssumption,
        TopicsAssumption
<1> DEFINE start == NextStart(latest.active, latest.step)
           begins == latest.pending = 0 /\ FreshStart
<1>1. /\ UNCHANGED <<commands, admissions, sample, mode, termination, latest,
                     sequence, cycles, step, active, pending, lastRequest,
                     checking>>
      /\ latest # NoSample /\ calculation = NoCalculation
      /\ waiting # 0 => latest.active.id = waiting
      /\ waiting' = 0
  BY DEF Consider, WaitIsOver, plantVars, topics
<1>2. /\ latest \in Snapshots /\ latest.active \in Motions
      /\ latest.active.id \in Nat /\ active.id \in Nat /\ active \in Motions
      /\ lastRequest \in Nat /\ sequence \in Nat
  BY <1>1 DEF IInv, TypeOK, PlantTypeOK, ControllerTypeOK, Snapshots, Motions
<1>3. latest.active = active
  <2>1. CASE waiting = 0
    BY <1>1, <2>1 DEF IInv, Seen, Shows
  <2>2. CASE waiting # 0
    <3>1. latest.active.id <= active.id
      BY <1>1 DEF IInv, Seen, Shows
    <3>2. active.id <= waiting
      BY <1>2, <2>2 DEF IInv, OneCommand
    <3>3. latest.active.id = active.id
      BY <1>1, <1>2, <2>2, <3>1, <3>2
    <3> QED  BY <1>1, <3>3 DEF IInv, Seen, Shows
  <2> QED  BY <2>1, <2>2
<1>4. /\ commands = {} /\ checking = NoMotion /\ pending = NoMotion
      /\ \A a \in admissions : a.reason = "accepted"
  <2>1. CASE waiting = 0
    BY <2>1, NothingAwaited
  <2>2. CASE waiting # 0
    <3>1. active.id = waiting
      BY <1>1, <1>3, <2>2
    <3>2. commands = {}
      <4>1. \A m \in commands : m.id \in Nat
        BY DEF IInv, TypeOK, TopicsTypeOK, Motions
      <4> QED  BY <1>2, <3>1, <4>1 DEF IInv, OneCommand
    <3>3. checking = NoMotion
      <4>1. checking # NoMotion => checking.id \in Nat
        BY DEF IInv, TypeOK, PlantTypeOK, Motions
      <4> QED  BY <1>2, <3>1, <4>1 DEF IInv, OneCommand
    <3>4. pending = NoMotion
      BY <1>2, <3>1 DEF IInv, OneCommand
    <3>5. \A a \in admissions : a.reason = "accepted"
      BY <1>2, <3>1 DEF IInv, OneAnswer
    <3> QED  BY <3>2, <3>3, <3>4, <3>5
  <2> QED  BY <2>1, <2>2
<1>5. OneCommand'
  BY <1>1, <1>4 DEF IInv, OneCommand
<1>6. OneAnswer'
  BY <1>1, <1>4 DEF IInv, OneAnswer
<1>7. CyclesAreOpen'
  BY <1>1 DEF IInv, CyclesAreOpen, Alive
<1>8. Seen'
  <2>1. sample # NoSample => sample.active = active
    <3>1. sample # NoSample => sample.active.id \in Nat
      BY DEF IInv, TypeOK, TopicsTypeOK, Snapshots, Motions
    <3>2. sample # NoSample =>
            /\ active.id <= sample.active.id /\ sample.active.id <= active.id
            /\ sample.active.id = active.id => sample.active = active
      BY <1>1, <1>3 DEF IInv, Seen, Shows
    <3> QED  BY <1>2, <3>1, <3>2
  <2> QED  BY <1>1, <1>3, <2>1 DEF IInv, Seen, Shows
<1>9. CalculationFits'
  <2>1. CASE ~begins
    BY <2>1 DEF Consider, CalculationFits
  <2>2. CASE begins
    <3>1. /\ calculation'.start = start
          /\ calculation'.initial = StateAt(active, start)
          /\ calculation'.from = ReferenceAt(active, start)
          /\ calculation'.feed = 0
          /\ calculation'.seen = latest
      BY <1>3, <2>2 DEF Consider
    <3>2. start \in Nat
      BY <1>2, NextStartType DEF Snapshots
    <3>3. ReferenceAt(active, start) \in Nat /\ ReferenceAt(active, start) <= Length
      BY <1>2, <3>2, ReferenceType, ReferenceBound DEF IInv, MotionsFit
    <3> HIDE DEF start
    <3>4. (Fits(calculation))'
      BY <3>1, <3>3 DEF Fits
    <3>5. (Continues(calculation))'
      BY <1>1, <3>1 DEF Continues
    <3>6. latest.step <= step
      BY <1>1 DEF IInv, Seen, Shows
    <3> QED  BY <1>1, <1>3, <3>1, <3>4, <3>5, <3>6 DEF CalculationFits
  <2> QED  BY <2>1, <2>2
<1>10. MotionsFit' /\ CompletedAtTheEnd'
  BY <1>1 DEF IInv, MotionsFit, CompletedAtTheEnd, Continues, Fits
<1> QED  BY <1>5, <1>6, <1>7, <1>8, <1>9, <1>10 DEF IInv

\* The feed found stays within what is left of the path.
LEMMA ProposeIInv ==
  ASSUME IInv, TypeOK', NEW finding \in Findings, NEW feed \in 0 .. MaxFeed,
         NEW zero \in {"certified", "refused", "fails"},
         Propose(finding, feed, zero), UNCHANGED plantVars
  PROVE  IInv'
<1> USE NoCalculationAssumption, TopicsAssumption, ControllerAssumption
<1>1. UNCHANGED <<commands, admissions, sample, mode, termination, latest,
                  waiting, sequence, cycles, step, active, pending,
                  lastRequest, checking>>
  BY DEF Propose, plantVars, topics
<1>2. /\ calculation \in Calculations /\ calculation # NoCalculation
      /\ feed \in 0 .. Nominal(calculation)
      /\ calculation' =
           [calculation EXCEPT
              !.feed = IF recovery'.phase = "RUNNING" THEN feed ELSE 0,
              !.outcome = IF recovery'.phase = "FAULT" THEN "none"
                          ELSE IF recovery'.phase = "RUNNING" \/ zero = "certified"
                               THEN "motion"
                          ELSE IF zero = "refused" THEN "none" ELSE "error"]
  BY DEF Propose, IInv, TypeOK, ControllerTypeOK
<1>3. /\ calculation'.start = calculation.start
      /\ calculation'.initial = calculation.initial
      /\ calculation'.from = calculation.from
      /\ calculation'.seen = calculation.seen
      /\ calculation'.feed \in {0, feed}
  BY <1>2 DEF Calculations
<1>4. calculation.from \in Nat /\ calculation.from <= Length
  <2>1. calculation.from + calculation.feed * Ticks <= Length
    BY <1>2 DEF IInv, CalculationFits, Fits
  <2>2. calculation.from \in Nat /\ calculation.feed * Ticks \in Nat
    BY <1>2 DEF Calculations
  <2> QED  BY <2>1, <2>2
<1>5. feed * Ticks <= Length - calculation.from
  <2>1. (Length - calculation.from) \div Ticks \in Nat
    BY <1>4, SMT
  <2>2. calculation.executed \in Nat
    BY <1>2 DEF Calculations
  <2>3. feed \in Nat /\ feed <= (Length - calculation.from) \div Ticks
    BY <1>2, <2>1, <2>2 DEF Nominal, Lesser
  <2>4. Length - calculation.from \in Nat
    BY <1>4
  <2> QED  BY <2>3, <2>4, QuotientBound
<1>6. (Fits(calculation))'
  <2>1. feed * Ticks \in Nat /\ 0 * Ticks = 0
    OBVIOUS
  <2> QED  BY <1>3, <1>4, <1>5, <2>1 DEF Fits
<1>7. CalculationFits'
  BY <1>1, <1>2, <1>3, <1>6 DEF IInv, CalculationFits, Continues
<1>8. OneCommand' /\ OneAnswer' /\ CyclesAreOpen'
  BY <1>1 DEF IInv, OneCommand, OneAnswer, CyclesAreOpen, Alive
<1>9. Seen' /\ MotionsFit' /\ CompletedAtTheEnd'
  BY <1>1, <1>2
  DEF IInv, Seen, Shows, MotionsFit, CompletedAtTheEnd, Continues, Fits
<1> QED  BY <1>7, <1>8, <1>9 DEF IInv

\* The command continues the active motion, and nothing else is on its way.
LEMMA FinishMotionIInv ==
  ASSUME IInv, TypeOK', NEW inside \in BOOLEAN, FinishMotion(inside),
         UNCHANGED plantVars
  PROVE  IInv'
<1> USE NoneAssumption, NoCalculationAssumption, NoSampleAssumption,
        TopicsAssumption
<1> DEFINE m == [id |-> sequence + 1, start |-> calculation.start,
                 initial |-> calculation.initial, from |-> calculation.from,
                 feed |-> calculation.feed]
<1>1. /\ UNCHANGED <<admissions, sample, latest, step, active, pending,
                     lastRequest, checking>>
      /\ calculation # NoCalculation /\ calculation' = NoCalculation
      /\ sequence' = sequence + 1 /\ waiting' = sequence + 1
      /\ commands' = commands \cup {m}
      /\ cycles' = cycles \cup {sequence + 1}
      /\ mode = "tracking"
  BY DEF FinishMotion, Finishes, plantVars
<1>2. /\ waiting = 0 /\ Continues(calculation) /\ Fits(calculation)
      /\ calculation.seen.active = active /\ calculation.seen.step <= step
  BY <1>1 DEF IInv, CalculationFits
<1>3. /\ commands = {} /\ checking = NoMotion /\ pending = NoMotion
      /\ \A a \in admissions : a.reason = "accepted"
  BY <1>2, NothingAwaited
<1>4. /\ sequence \in Nat /\ lastRequest \in Nat /\ active.id \in Nat
      /\ active \in Motions /\ step \in Nat
      /\ calculation.seen.step \in Nat
  BY <1>1
  DEF IInv, TypeOK, PlantTypeOK, ControllerTypeOK, Motions, Calculations, Snapshots
<1>5. active.id <= lastRequest /\ lastRequest <= sequence
  BY DEF IInv, OneCommand
<1>6. Continues(m) /\ Fits(m)
  BY <1>2 DEF Continues, Fits
<1>7. m.id = sequence + 1
  OBVIOUS
<1> HIDE DEF m
<1>8. OneCommand'
  BY <1>1, <1>3, <1>4, <1>5, <1>7 DEF OneCommand
<1>9. OneAnswer'
  BY <1>1, <1>3 DEF IInv, OneAnswer
<1>10. CyclesAreOpen'
  BY <1>1, <1>3, <1>7 DEF IInv, CyclesAreOpen, Alive
<1>11. Seen'
  <2>1. /\ latest # NoSample /\ latest.active = active
        /\ sample # NoSample => sample.active = active
    BY <1>1, <1>2 DEF IInv, Seen, Shows
  <2> QED  BY <1>1, <2>1 DEF IInv, Seen, Shows
<1>12. CalculationFits'
  BY <1>1 DEF CalculationFits
<1>13. MotionsFit'
  BY <1>1, <1>3, <1>6 DEF IInv, MotionsFit, Continues, Fits
<1>14. CompletedAtTheEnd'
  <2> SUFFICES ASSUME termination' = "completed"
               PROVE  ReferenceAt(active, step) = Length
    BY <1>1 DEF CompletedAtTheEnd
  <2>1. CASE termination = "completed"
    BY <2>1 DEF IInv, CompletedAtTheEnd
  <2>2. CASE termination # "completed"
    <3>1. endpoint' # None /\ endpoint' = EndpointSince(inside)
      BY <2>2 DEF FinishMotion
    <3>2. ~(ReferenceAt(active, calculation.seen.step) < Length)
      BY <1>2, <3>1 DEF EndpointSince
    <3>3. /\ ReferenceAt(active, calculation.seen.step) \in Nat
          /\ ReferenceAt(active, step) \in Nat
          /\ ReferenceAt(active, calculation.seen.step) <= ReferenceAt(active, step)
      BY <1>2, <1>4, ReferenceType, ReferenceOrder
    <3>4. ReferenceAt(active, step) <= Length
      BY <1>4, ReferenceBound DEF IInv, MotionsFit
    <3> QED  BY <3>2, <3>3, <3>4
  <2> QED  BY <2>1, <2>2
<1> QED
  BY <1>8, <1>9, <1>10, <1>11, <1>12, <1>13, <1>14 DEF IInv

\* The remaining steps end the calculation or the process, or only its outcome
\* changes.
LEMMA OtherStepsIInv ==
  ASSUME IInv, TypeOK', UNCHANGED plantVars,
         \/ ProposeFails
         \/ FinishError \/ FinishFault \/ FinishNone
         \/ \E end \in {"failing", "leaving"} : StopSpinning(end)
         \/ FinishRecording
  PROVE  IInv'
<1> USE NoCalculationAssumption
<1>1. UNCHANGED <<commands, admissions, sample, latest, waiting, sequence,
                  step, active, pending, lastRequest, checking>>
  BY DEF ProposeFails, FinishError, FinishFault, FinishNone, StopSpinning,
         FinishRecording, plantVars, topics
<1>2. termination' = "completed" => termination = "completed"
  BY DEF ProposeFails, FinishError, FinishFault, FinishNone, StopSpinning,
         FinishRecording
<1>3. Alive' => Alive /\ cycles' = cycles
  BY DEF ProposeFails, FinishError, FinishFault, FinishNone, StopSpinning,
         FinishRecording, Finishes, Alive
<1>4. \/ calculation' = NoCalculation
      \/ calculation' = calculation
      \/ /\ calculation # NoCalculation
         /\ calculation' = [calculation EXCEPT !.outcome = "error"]
  BY DEF ProposeFails, FinishError, FinishFault, FinishNone, StopSpinning,
         FinishRecording, Finishes
<1>5. calculation' = NoCalculation
        \/ /\ calculation # NoCalculation
           /\ calculation'.start = calculation.start
           /\ calculation'.initial = calculation.initial
           /\ calculation'.from = calculation.from
           /\ calculation'.feed = calculation.feed
           /\ calculation'.seen = calculation.seen
  BY <1>4 DEF IInv, TypeOK, ControllerTypeOK, Calculations
<1>6. OneCommand' /\ OneAnswer'
  BY <1>1 DEF IInv, OneCommand, OneAnswer
<1>7. CyclesAreOpen'
  BY <1>1, <1>3 DEF IInv, CyclesAreOpen
<1>8. Seen' /\ CompletedAtTheEnd'
  BY <1>1, <1>2, <1>5 DEF IInv, Seen, Shows, CompletedAtTheEnd
<1>9. CalculationFits'
  BY <1>1, <1>5 DEF IInv, CalculationFits, Continues, Fits
<1>10. MotionsFit'
  BY <1>1 DEF IInv, MotionsFit, Continues, Fits
<1> QED  BY <1>6, <1>7, <1>8, <1>9, <1>10 DEF IInv

\* The conjunction of the steps above: IInv is inductive.
LEMMA NextIInv == IInv /\ [Next]_vars => IInv'
<1> SUFFICES ASSUME IInv, [Next]_vars PROVE IInv'
  OBVIOUS
<1>1. TypeOK'
  BY NextTypeOK DEF IInv
<1>2. CASE PlantStep
  BY <1>1, <1>2, OnCommandIInv, PlantTickIInv, AdmitIInv
  DEF PlantStep, PlantNext
<1>3. CASE ControllerStep
  BY <1>1, <1>3, OnStateIInv, OnAdmissionIInv, ConsiderIInv, ProposeIInv,
     FinishMotionIInv, OtherStepsIInv
  DEF ControllerStep, ControllerNext, WorkerNext
<1>4. CASE NetworkStep
  BY <1>1, <1>4, LoseIInv
<1>5. CASE UNCHANGED vars
  <2> USE <1>5 DEF vars, topics, plantVars, controllerVars
  <2>1. OneCommand' /\ OneAnswer' /\ CyclesAreOpen' /\ Seen'
    BY DEF IInv, OneCommand, OneAnswer, CyclesAreOpen, Alive, Seen, Shows
  <2>2. CalculationFits' /\ MotionsFit' /\ CompletedAtTheEnd'
    BY DEF IInv, CalculationFits, MotionsFit, CompletedAtTheEnd, Continues, Fits
  <2> QED  BY <1>1, <2>1, <2>2 DEF IInv
<1> QED  BY <1>2, <1>3, <1>4, <1>5 DEF Next

\* IInv holds in every state of the loop.
LEMMA LoopInvariant == Spec => []IInv
<1>1. Init => IInv
  BY InitIInv
<1>2. IInv /\ [Next]_vars => IInv'
  BY NextIInv
<1> QED  BY <1>1, <1>2, PTL DEF Spec

-----------------------------------------------------------------------------
(* The properties *)

\* A command is refused only because it is late or not certified.
THEOREM LateOrUncertified == Spec => []OnlyLateOrUncertified
<1>1. IInv => OnlyLateOrUncertified
  BY DEF IInv, OneAnswer, OnlyLateOrUncertified
<1> QED  BY <1>1, LoopInvariant, PTL

\* The callback that takes up a refusal and the worker never change the
\* recovery state at the same time.
THEOREM OneWriter == Spec => []RecoveryHasOneWriter
<1>1. IInv => RecoveryHasOneWriter
  <2> SUFFICES ASSUME IInv, NEW a \in admissions, a.reason # "accepted"
               PROVE  calculation = NoCalculation
    BY DEF RecoveryHasOneWriter
  <2>1. a.id = waiting /\ active.id < a.id
    BY DEF IInv, OneAnswer
  <2>2. a.id \in Nat /\ active.id \in Nat
    BY DEF IInv, TypeOK, TopicsTypeOK, PlantTypeOK, Answers, Motions
  <2>3. waiting # 0
    BY <2>1, <2>2
  <2> QED  BY <2>3 DEF IInv, CalculationFits
<1> QED  BY <1>1, LoopInvariant, PTL

\* The cycle of every answer that arrives is open.
THEOREM ExpectedAnswers == Spec => []AnswersAreExpected
<1>1. IInv => AnswersAreExpected
  BY DEF IInv, CyclesAreOpen, AnswersAreExpected
<1> QED  BY <1>1, LoopInvariant, PTL

\* An accepted motion starts in the future and continues the active one.
THEOREM DueActivation == Spec => []ActivationContinues
<1>1. IInv => ActivationContinues
  BY DEF IInv, MotionsFit, Continues, ActivationContinues
<1> QED  BY <1>1, LoopInvariant, PTL

\* The reference is at the end of the path when "completed" is reported.
THEOREM Completion == Spec => []CompletedAtTheEnd
<1>1. IInv => CompletedAtTheEnd
  BY DEF IInv
<1> QED  BY <1>1, LoopInvariant, PTL

\* Joint state and reference are continuous from one motion to the next.
THEOREM Continuity == Spec => ActuatorIsContinuous
<1> DEFINE Smooth == step' = step + 1 =>
             /\ StateAt(active', step') = StateAt(active, step')
             /\ ReferenceAt(active', step') = ReferenceAt(active, step')
<1>1. IInv /\ [Next]_vars => [Smooth]_vars
  <2> SUFFICES ASSUME IInv, [Next]_vars, step' = step + 1  PROVE Smooth
    OBVIOUS
  <2>0. /\ step \in Nat /\ pending \in Motions \cup {NoMotion}
        /\ checking \in Motions \cup {NoMotion}
    BY TopicsAssumption DEF IInv, TypeOK, PlantTypeOK
  <2>1. CASE PlantTick
    <3>1. Due(pending)
      BY DEF IInv, OneCommand, MotionsFit, Due
    <3> QED  BY <2>0, <2>1, <3>1, AdvanceKeeps DEF PlantTick
  <2>2. ASSUME NEW certified \in BOOLEAN, Admit(certified)  PROVE Smooth
    <3> DEFINE verdict == Verdict(checking, certified)
               p == IF verdict = "accepted" THEN checking ELSE pending
    <3>1. Due(p)
      <4>1. checking # NoMotion /\ checking \in Motions
        BY <2>0, <2>2 DEF Admit
      <4>2. /\ checking.id = waiting /\ checking.id > lastRequest
            /\ active.id <= lastRequest
            /\ pending = NoMotion
            /\ Fits(checking) /\ Continues(checking)
        BY <4>1 DEF IInv, OneCommand, MotionsFit
      <4>3. /\ checking.id \in Nat /\ lastRequest \in Nat /\ active.id \in Nat
            /\ checking.start \in Nat
        BY <4>1 DEF IInv, TypeOK, PlantTypeOK, Motions
      <4>4. verdict = "accepted" => checking.start > step
        BY <2>0, <4>3 DEF Verdict, Late
      <4> QED  BY <4>2, <4>3, <4>4 DEF Due
    <3>2. p \in Motions \cup {NoMotion} /\ Advance(p) /\ step < MaxStep
      BY <2>0, <2>2 DEF Admit
    <3> QED  BY <3>1, <3>2, AdvanceKeeps
  <2>3. PlantTick \/ \E certified \in BOOLEAN : Admit(certified)
    <3>1. step' # step
      BY <2>0
    <3> QED
      BY <3>1
      DEF Next, PlantStep, PlantNext, OnCommand, ControllerStep, NetworkStep,
          plantVars, vars
  <2> QED  BY <2>1, <2>2, <2>3
<1> QED  BY <1>1, LoopInvariant, PTL DEF Spec, ActuatorIsContinuous

(***************************************************************************)
(* The control cycle.  OneCommand says that the three places of a command  *)
(* exclude each other, and that it is the last one sent; Seen, that a      *)
(* controller that waits for nothing has nothing outstanding.              *)
(***************************************************************************)

\* What is outstanding is the last command, and it is waited for.
LEMMA OutstandingIsWaitedFor ==
  ASSUME IInv
  PROVE  /\ Outstanding # "over" => waiting = sequence /\ waiting # 0
         /\ \A m \in commands :
              m.id = sequence /\ commands = {m} /\ Outstanding = "sent"
         /\ checking # NoMotion => checking.id = sequence /\ Outstanding = "taken"
         /\ pending # NoMotion => pending.id = sequence /\ Outstanding = "accepted"
BY DEF IInv, OneCommand, Outstanding, TypeOK, TopicsTypeOK, PlantTypeOK,
   ControllerTypeOK, Motions

\* A controller whose wait is over, or that calculates, has nothing outstanding.
LEMMA NothingOutstanding ==
  ASSUME IInv
  PROVE  /\ calculation # NoCalculation => Outstanding = "over"
         /\ latest # NoSample /\ WaitIsOver => Outstanding = "over"
<1>1. calculation # NoCalculation => waiting = 0
  BY DEF IInv, CalculationFits
<1>2. CASE latest # NoSample /\ WaitIsOver /\ waiting # 0
  <2>1. latest.active.id = waiting /\ latest.active.id <= active.id
    BY <1>2 DEF WaitIsOver, IInv, Seen, Shows
  <2>2. active.id <= lastRequest /\ lastRequest <= sequence /\ waiting = sequence
    BY <1>2 DEF IInv, OneCommand
  <2>3. active.id = sequence /\ lastRequest = sequence
    BY <2>1, <2>2 DEF IInv, TypeOK, PlantTypeOK, ControllerTypeOK, Motions
  <2>4. commands = {} /\ checking = NoMotion /\ pending = NoMotion
    BY <1>2, <2>2, <2>3 DEF IInv, OneCommand, TypeOK, PlantTypeOK,
       ControllerTypeOK, TopicsTypeOK, Motions
  <2> QED  BY <2>4 DEF Outstanding
<1> QED  BY <1>1, <1>2, OutstandingIsWaitedFor

\* A step of the control cycle, or none.
cycleNext == [Cycle!Next]_(Cycle!cycleVars)

\* Callbacks of the plant.
LEMMA PlantKeepsCycle ==
  ASSUME IInv, IInv', PlantStep
  PROVE  cycleNext
<1>0. /\ UNCHANGED <<sequence, cycles, calculation, started, recorded>>
      /\ checking \in Motions \cup {NoMotion} /\ pending \in Motions \cup {NoMotion}
      /\ NoMotion \notin Motions
  BY NoneAssumption DEF PlantStep, controllerVars, IInv, TypeOK, PlantTypeOK
<1>1. ASSUME NEW m \in commands, OnCommand(m)
      PROVE  cycleNext
  <2>1. /\ commands = {m} /\ Outstanding = "sent" /\ commands' = {}
        /\ checking = NoMotion /\ pending = NoMotion /\ m # NoMotion
        /\ UNCHANGED <<pending, active>>
    BY <1>0, <1>1, OutstandingIsWaitedFor DEF OnCommand, IInv, OneCommand, TypeOK, TopicsTypeOK
  <2>2. Outstanding' \in {"taken", "over"}
    BY <1>1, <2>1 DEF OnCommand, Outstanding
  <2> QED  BY <1>0, <2>1, <2>2 DEF cycleNext, Cycle!Next, Cycle!Take, Cycle!Vanish
<1>2. CASE PlantTick
  <2>1. UNCHANGED <<commands, checking>>
    BY <1>2 DEF PlantTick
  <2>2. CASE Starts(pending)
    <3>1. /\ Outstanding = "accepted" /\ active'.id = sequence /\ pending' = NoMotion
          /\ commands = {} /\ checking = NoMotion
      BY <1>2, <2>2, OutstandingIsWaitedFor DEF PlantTick, Advance, Starts, Outstanding
    <3>2. Outstanding' = "over"
      BY <2>1, <3>1 DEF Outstanding
    <3> QED  BY <1>0, <3>1, <3>2 DEF cycleNext, Cycle!Next, Cycle!Start
  <2>3. CASE ~Starts(pending)
    <3>1. UNCHANGED <<active, pending>>
      BY <1>2, <2>3 DEF PlantTick, Advance
    <3>2. Outstanding' = Outstanding
      BY <2>1, <3>1 DEF Outstanding
    <3> QED  BY <1>0, <3>1, <3>2 DEF cycleNext, Cycle!cycleVars
  <2> QED  BY <2>2, <2>3
<1>3. ASSUME NEW certified \in BOOLEAN, Admit(certified)
      PROVE  cycleNext
  <2> DEFINE accepted == Verdict(checking, certified) = "accepted"
  <2>1. /\ Outstanding = "taken" /\ commands = {} /\ pending = NoMotion
        /\ checking # NoMotion /\ checking.id = sequence
    BY <1>3, OutstandingIsWaitedFor DEF Admit, Outstanding, IInv, OneCommand
  <2>2. commands' = {} /\ checking' = NoMotion
    BY <1>3, <2>1 DEF Admit
  <2>3. Advance(IF accepted THEN checking ELSE NoMotion)
    BY <1>3, <2>1 DEF Admit
  <2>4. CASE accepted /\ Starts(checking)
    <3>1. active' = checking /\ pending' = NoMotion
      BY <2>3, <2>4 DEF Advance
    <3>2. Outstanding' = "over"
      BY <2>2, <3>1 DEF Outstanding
    <3> QED  BY <1>0, <2>1, <3>1, <3>2 DEF cycleNext, Cycle!Next, Cycle!Start
  <2>5. CASE accepted /\ ~Starts(checking)
    <3>1. active' = active /\ pending' = checking
      BY <2>3, <2>5 DEF Advance
    <3>2. Outstanding' = "accepted"
      BY <2>1, <2>2, <3>1 DEF Outstanding
    <3> QED  BY <1>0, <2>1, <3>1, <3>2 DEF cycleNext, Cycle!Next, Cycle!Accept
  <2>6. CASE ~accepted
    <3>1. active' = active /\ pending' = NoMotion
      BY <2>3, <2>6 DEF Advance, Starts
    <3>2. Outstanding' = "over"
      BY <2>2, <3>1 DEF Outstanding
    <3> QED  BY <1>0, <2>1, <3>1, <3>2 DEF cycleNext, Cycle!Next, Cycle!Vanish
  <2> QED  BY <2>4, <2>5, <2>6
<1> QED  BY <1>1, <1>2, <1>3 DEF PlantStep, PlantNext

\* Callbacks of the controller, and its worker.
LEMMA ControllerKeepsCycle ==
  ASSUME IInv, IInv', ControllerStep
  PROVE  cycleNext
<1>0. /\ UNCHANGED <<active, checking, pending>>
      /\ started \in Nat /\ recorded \in Nat /\ sequence \in Nat
      /\ commands' = commands => Outstanding' = Outstanding
  BY DEF ControllerStep, plantVars, IInv, TypeOK, ControllerTypeOK, Outstanding
<1>1. CASE OnState
  BY <1>0, <1>1 DEF OnState, cycleNext, Cycle!cycleVars
<1>2. ASSUME NEW a \in admissions, OnAdmission(a)
      PROVE  cycleNext
  <2>1. /\ a.id \in cycles /\ cycles' = cycles \ {a.id} /\ recorded' = recorded + 1
        /\ UNCHANGED <<commands, calculation, sequence, started>>
    BY <1>2 DEF OnAdmission, Remaining
  <2>2. a.id = sequence => Outstanding \in {"accepted", "over"}
    <3>1. a.id <= lastRequest
      BY DEF IInv, OneAnswer
    <3>2. \A m \in commands : m.id > lastRequest /\ m.id = sequence
      BY OutstandingIsWaitedFor DEF IInv, OneCommand
    <3>3. checking # NoMotion => checking.id > lastRequest /\ checking.id = sequence
      BY OutstandingIsWaitedFor DEF IInv, OneCommand
    <3>4. lastRequest \in Nat
      BY DEF IInv, TypeOK, PlantTypeOK
    <3> QED  BY <1>0, <3>1, <3>2, <3>3, <3>4 DEF Outstanding
  <2>3. started' - recorded' = (started - recorded) - 1
    BY <1>0, <2>1
  <2>4. Cycle!Record(a.id)
    BY <1>0, <2>1, <2>2, <2>3 DEF Cycle!Record
  <2> QED  BY <2>1, <2>4 DEF cycleNext, Cycle!Next
<1>3. CASE Consider
  <2>0. /\ calculation = NoCalculation /\ Outstanding = "over"
        /\ UNCHANGED <<commands, sequence, cycles, recorded>>
    BY <1>3, NothingOutstanding DEF Consider, topics
  <2>1. CASE calculation' = NoCalculation /\ started' = started
    BY <1>0, <2>0, <2>1 DEF cycleNext, Cycle!cycleVars
  <2>2. CASE calculation' # NoCalculation /\ started' = started + 1
    <3>1. started' - recorded' = (started - recorded) + 1
      BY <1>0, <2>0, <2>2
    <3> QED  BY <1>0, <2>0, <2>2, <3>1 DEF cycleNext, Cycle!Next, Cycle!Begin
  <2>3. \/ UNCHANGED <<calculation, started>>
        \/ calculation' \in Calculations /\ started' = started + 1
    BY <1>3, ConsiderBegins DEF IInv
  <2> QED  BY <2>0, <2>1, <2>2, <2>3, NoCalculationAssumption
<1>4. CASE FinishError \/ FinishFault \/ FinishNone
  <2>1. /\ calculation # NoCalculation /\ calculation' = NoCalculation
        /\ recorded' = recorded + 1
        /\ UNCHANGED <<commands, sequence, cycles, started>>
    BY <1>4 DEF FinishError, FinishFault, FinishNone, Finishes, topics
  <2>2. started' - recorded' = (started - recorded) - 1
    BY <1>0, <2>1
  <2> QED  BY <1>0, <2>1, <2>2 DEF cycleNext, Cycle!Next, Cycle!Discard
<1>5. ASSUME NEW inside \in BOOLEAN, FinishMotion(inside)
      PROVE  cycleNext
  <2>1. /\ calculation # NoCalculation /\ calculation' = NoCalculation
        /\ sequence' = sequence + 1 /\ cycles' = cycles \cup {sequence'}
        /\ commands' # {}
        /\ UNCHANGED <<recorded, started>>
    BY <1>5 DEF FinishMotion, Finishes
  <2>2. Outstanding = "over" /\ Outstanding' = "sent"
    BY <2>1, NothingOutstanding DEF Outstanding
  <2> QED  BY <1>0, <2>1, <2>2 DEF cycleNext, Cycle!Next, Cycle!Send
<1>6. ASSUME NEW end, StopSpinning(end)
      PROVE  cycleNext
  BY <1>0, <1>6 DEF StopSpinning, topics, cycleNext, Cycle!cycleVars
<1>7. CASE FinishRecording
  <2>1. /\ calculation' = NoCalculation /\ cycles' = {}
        /\ recorded' = recorded + OpenCalculation + Cardinality(cycles)
        /\ UNCHANGED <<commands, sequence, started>>
    BY <1>7 DEF FinishRecording, topics
  <2>2. Cardinality(cycles) \in Nat /\ OpenCalculation \in {0, 1}
    BY FS_CardinalityType DEF IInv, TypeOK, ControllerTypeOK, OpenCalculation
  <2>3. started' - recorded' = (started - recorded) - Cardinality(cycles)
            - IF calculation # NoCalculation THEN 1 ELSE 0
    BY <1>0, <2>1, <2>2 DEF OpenCalculation
  <2>4. Cycle!Cardinality(cycles) = Cardinality(cycles)
    BY DEF Cycle!Cardinality, Cardinality
  <2> QED  BY <1>0, <2>1, <2>3, <2>4 DEF cycleNext, Cycle!Next, Cycle!Finish
<1>8. CASE WorkerNext
  <2>1. calculation \in Calculations /\ calculation' \in Calculations
    BY <1>8, ProposeDone, ProposeFailsDone DEF WorkerNext, IInv
  <2>2. UNCHANGED <<commands, sequence, cycles, started, recorded>>
    BY <1>8 DEF WorkerNext, Propose, ProposeFails, topics
  <2> QED
    BY <1>0, <2>1, <2>2, NoCalculationAssumption DEF cycleNext, Cycle!cycleVars
<1> QED  BY <1>1, <1>2, <1>3, <1>4, <1>5, <1>6, <1>7, <1>8
     DEF ControllerStep, ControllerNext

\* A message is lost.
LEMMA NetworkKeepsCycle ==
  ASSUME IInv, NetworkStep
  PROVE  cycleNext
<1>0. UNCHANGED <<sequence, cycles, calculation, started, recorded, active,
                  checking, pending>>
  BY DEF NetworkStep, plantVars, controllerVars
<1>1. ASSUME NEW c \in commands, commands' = commands \ {c}
      PROVE  cycleNext
  <2>1. commands = {c} /\ commands' = {} /\ Outstanding = "sent"
        /\ checking = NoMotion /\ pending = NoMotion
    BY <1>1, OutstandingIsWaitedFor DEF IInv, OneCommand
  <2>2. Outstanding' = "over"
    BY <1>0, <2>1 DEF Outstanding
  <2> QED  BY <1>0, <2>1, <2>2 DEF cycleNext, Cycle!Next, Cycle!Vanish
<1>2. CASE UNCHANGED commands
  BY <1>0, <1>2 DEF cycleNext, Cycle!cycleVars, Outstanding
<1> QED  BY <1>1, <1>2 DEF NetworkStep, Lose

\* Controller and plant keep the control cycle: the start, and every step.
THEOREM LoopKeepsCycle == Spec => ImplementsCycle
<1>1. Init => Cycle!Init
  BY DEF Init, TopicsInit, PlantInit, ControllerInit, Cycle!Init, Outstanding, FirstMotion
<1>2. IInv /\ IInv' /\ [Next]_vars => cycleNext
  <2>1. CASE UNCHANGED vars
    BY <2>1 DEF vars, topics, plantVars, controllerVars, cycleNext,
       Cycle!cycleVars, Outstanding
  <2> QED  BY <2>1, PlantKeepsCycle, ControllerKeepsCycle, NetworkKeepsCycle DEF Next
<1> QED  BY <1>1, <1>2, LoopInvariant, PTL DEF Spec, ImplementsCycle, Cycle!Spec, cycleNext

=============================================================================
