------------------------- MODULE StaticBudgetProofs -------------------------
(***************************************************************************)
(* Proofs about what the calculations of module StaticLoop cost: each is   *)
(* recorded once, and as many are made as storage was reserved for.        *)
(***************************************************************************)
EXTENDS StaticLoopProofs

(***************************************************************************)
(* Every calculation is recorded once                                      *)
(***************************************************************************)

\* The open cycles have been numbered, so the next number is a new one.
CyclesInv ==
  /\ cycles \subseteq 1 .. sequence
  /\ EveryCycleIsRecorded

\* Nothing has been started, recorded or opened at the beginning.
LEMMA CyclesInit == Init => CyclesInv
BY FS_EmptySet DEF Init, ControllerInit, CyclesInv, EveryCycleIsRecorded

\* An answer closes a cycle, a command opens one, and the end of the process
\* closes them all.
LEMMA CyclesStep == TypeOK /\ CyclesInv /\ [Next]_vars => CyclesInv'
<1> SUFFICES ASSUME TypeOK, CyclesInv, [Next]_vars PROVE CyclesInv'
  OBVIOUS
<1> USE NoCalculationAssumption
<1>0. /\ sequence \in Nat /\ started \in Nat /\ recorded \in Nat
      /\ IsFiniteSet(cycles) /\ Cardinality(cycles) \in Nat
  BY FS_CardinalityType DEF TypeOK, ControllerTypeOK
<1>1. CASE UNCHANGED <<started, recorded, cycles, sequence, calculation>>
  BY <1>1 DEF CyclesInv, EveryCycleIsRecorded
<1>2. ASSUME NEW a \in admissions, OnAdmission(a)  PROVE CyclesInv'
  <2>1. /\ a.id \in cycles /\ cycles' = cycles \ {a.id}
        /\ recorded' = recorded + 1
        /\ UNCHANGED <<started, sequence, calculation>>
    BY <1>2 DEF OnAdmission, Remaining
  <2>2. Cardinality(cycles') = Cardinality(cycles) - 1
    <3>1. Cardinality(cycles \ {a.id}) =
            IF a.id \in cycles THEN Cardinality(cycles) - 1 ELSE Cardinality(cycles)
      BY <1>0, FS_RemoveElement
    <3> QED  BY <2>1, <3>1
  <2>3. cycles' \subseteq 1 .. sequence'
    BY <2>1 DEF CyclesInv
  <2>4. EveryCycleIsRecorded'
    BY <1>0, <2>1, <2>2 DEF CyclesInv, EveryCycleIsRecorded
  <2> QED  BY <2>3, <2>4 DEF CyclesInv
<1>3. CASE Consider
  <2>1. UNCHANGED <<cycles, sequence, recorded>>
    BY <1>3 DEF Consider
  <2>2. /\ calculation = NoCalculation
        /\ \/ UNCHANGED <<calculation, started>>
           \/ calculation' \in Calculations /\ started' = started + 1
    BY <1>3, ConsiderBegins
  <2> QED  BY <1>0, <2>1, <2>2 DEF CyclesInv, EveryCycleIsRecorded
<1>4. ASSUME calculation \in Calculations, calculation' \in Calculations,
             UNCHANGED <<started, recorded, cycles, sequence>>
      PROVE  CyclesInv'
  BY <1>4 DEF CyclesInv, EveryCycleIsRecorded
<1>5. CASE FinishError \/ FinishFault \/ FinishNone
  <2>1. /\ calculation # NoCalculation /\ calculation' = NoCalculation
        /\ recorded' = recorded + 1
        /\ UNCHANGED <<started, cycles, sequence>>
    BY <1>5 DEF FinishError, FinishFault, FinishNone, Finishes
  <2> QED  BY <1>0, <2>1 DEF CyclesInv, EveryCycleIsRecorded
<1>6. ASSUME NEW inside \in BOOLEAN, FinishMotion(inside)  PROVE CyclesInv'
  <2>1. /\ calculation # NoCalculation /\ calculation' = NoCalculation
        /\ sequence' = sequence + 1
        /\ cycles' = cycles \cup {sequence + 1}
        /\ UNCHANGED <<started, recorded>>
    BY <1>6 DEF FinishMotion, Finishes
  <2>2. sequence + 1 \notin cycles
    BY <1>0 DEF CyclesInv
  <2>3. Cardinality(cycles') = Cardinality(cycles) + 1
    BY <1>0, <2>1, <2>2, FS_AddElement
  <2> QED  BY <1>0, <2>1, <2>3 DEF CyclesInv, EveryCycleIsRecorded
<1>7. CASE FinishRecording
  <2>1. /\ cycles' = {} /\ calculation' = NoCalculation
        /\ recorded' = recorded + OpenCalculation + Cardinality(cycles)
        /\ UNCHANGED <<started, sequence>>
    BY <1>7 DEF FinishRecording
  <2>2. Cardinality(cycles') = 0
    BY <2>1, FS_EmptySet
  <2> QED
    BY <1>0, <2>1, <2>2 DEF CyclesInv, EveryCycleIsRecorded, OpenCalculation
<1>8. CASE PlantStep \/ NetworkStep \/ UNCHANGED vars
  BY <1>1, <1>8 DEF PlantStep, NetworkStep, vars, controllerVars
<1>9. CASE ControllerStep
  <2>1. CASE OnState \/ \E end \in {"failing", "leaving"} : StopSpinning(end)
    BY <1>1, <2>1 DEF OnState, StopSpinning
  <2>2. ASSUME NEW finding \in Findings, NEW feed \in 0 .. MaxFeed,
               NEW zero \in {"certified", "refused", "fails"},
               Propose(finding, feed, zero)
        PROVE  CyclesInv'
    BY <1>4, <2>2, ProposeDone DEF Propose
  <2>3. CASE ProposeFails
    BY <1>4, <2>3, ProposeFailsDone DEF ProposeFails
  <2> QED
    BY <1>2, <1>3, <1>5, <1>6, <1>7, <1>9, <2>1, <2>2, <2>3
    DEF ControllerStep, ControllerNext, WorkerNext
<1> QED  BY <1>8, <1>9 DEF Next

\* No calculation is lost and none is recorded twice, whatever answers are
\* lost and wherever the process ends.
THEOREM CyclesAreRecorded == Spec => []EveryCycleIsRecorded
<1>1. Init => CyclesInv
  BY CyclesInit
<1>2. TypeOK /\ CyclesInv /\ [Next]_vars => CyclesInv'
  BY CyclesStep
<1>3. CyclesInv => EveryCycleIsRecorded
  BY DEF CyclesInv
<1> QED  BY <1>1, <1>2, <1>3, LoopTypes, PTL DEF Spec

(***************************************************************************)
(* As many calculations as storage was reserved for                        *)
(***************************************************************************)

\* A control period begins at each multiple of Ticks; Periods(s) of them have
\* begun before step s.
OnBoundary(n) == \E k \in Nat : n = k * Ticks
Periods(s) == (s + Ticks - 1) \div Ticks

\* Every motion and calculation starts at a boundary, and no later motion than
\* the one the snapshot shows has been started.
StartsInv ==
  /\ OnBoundary(active.start) /\ active.start <= step
  /\ \A m \in commands : OnBoundary(m.start)
  /\ checking # NoMotion => OnBoundary(checking.start)
  /\ pending # NoMotion => OnBoundary(pending.start)
  /\ calculation # NoCalculation => OnBoundary(calculation.start)
  /\ \A s \in {sample, latest} \ {NoSample} :
       OnBoundary(s.active.start) /\ s.active.start <= s.step

\* The calculations started so far each took a boundary of their own, the last
\* of them not further ahead than the period after the next.
PaidInv ==
  \E k \in Nat :
    lastStart = k * Ticks /\ started <= k /\ k <= Periods(step) + 1

BudgetInv == StartsInv /\ PaidInv

\* Multiples are ordered as their factors are.
LEMMA FactorOrder ==
  ASSUME NEW j \in Nat, NEW k \in Nat, j * Ticks < k * Ticks
  PROVE  j < k
<1> USE TopicsAssumption
<1>1. ASSUME k <= j PROVE FALSE
  <2>1. Ticks * k <= Ticks * j
    BY <1>1, ProductOrder
  <2>2. /\ Ticks * k = k * Ticks /\ Ticks * j = j * Ticks
        /\ k * Ticks \in Nat /\ j * Ticks \in Nat
    OBVIOUS
  <2> QED  BY <2>1, <2>2
<1> QED  BY <1>1

\* Periods(s) is the number of control periods begun by step s.
LEMMA PeriodsType ==
  ASSUME NEW s \in Nat
  PROVE  /\ Periods(s) \in Nat
         /\ s <= Periods(s) * Ticks
         /\ Periods(s) * Ticks < s + Ticks
<1> USE TopicsAssumption
<1>1. s + Ticks - 1 \in Nat
  OBVIOUS
<1>2. ASSUME NEW a \in Nat
      PROVE  /\ a \div Ticks \in Nat
             /\ (a \div Ticks) * Ticks <= a
             /\ a < (a \div Ticks) * Ticks + Ticks
  BY SMT
<1>3. /\ Periods(s) \in Nat
      /\ Periods(s) * Ticks <= s + Ticks - 1
      /\ s + Ticks - 1 < Periods(s) * Ticks + Ticks
  BY <1>1, <1>2 DEF Periods
<1>4. Periods(s) * Ticks \in Nat
  BY <1>3
<1> QED  BY <1>3, <1>4

\* k boundaries fit before a step that k * Ticks does not exceed.
LEMMA PeriodsCount ==
  ASSUME NEW k \in Nat, NEW s \in Nat, k * Ticks <= s
  PROVE  k <= Periods(s)
<1> USE TopicsAssumption
<1>1. Periods(s) \in Nat /\ s <= Periods(s) * Ticks
  BY PeriodsType
<1>2. (Periods(s) + 1) * Ticks = Periods(s) * Ticks + Ticks
  BY <1>1
<1>3. k * Ticks \in Nat /\ Periods(s) * Ticks \in Nat /\ Periods(s) + 1 \in Nat
  BY <1>1
<1>4. k * Ticks < (Periods(s) + 1) * Ticks
  BY <1>1, <1>2, <1>3
<1>5. k < Periods(s) + 1
  BY <1>3, <1>4, FactorOrder
<1> QED  BY <1>1, <1>5

\* More steps have begun no fewer periods.
LEMMA PeriodsOrder ==
  ASSUME NEW s \in Nat, NEW t \in Nat, s <= t
  PROVE  Periods(s) <= Periods(t)
<1> USE TopicsAssumption
<1>1. /\ Periods(s) \in Nat /\ Periods(s) * Ticks < s + Ticks
      /\ Periods(t) \in Nat /\ t <= Periods(t) * Ticks
  BY PeriodsType
<1>2. (Periods(t) + 1) * Ticks = Periods(t) * Ticks + Ticks
  BY <1>1
<1>3. /\ Periods(s) * Ticks \in Nat /\ Periods(t) * Ticks \in Nat
      /\ Periods(t) + 1 \in Nat
  BY <1>1
<1>4. Periods(s) * Ticks < (Periods(t) + 1) * Ticks
  BY <1>1, <1>2, <1>3
<1>5. Periods(s) < Periods(t) + 1
  BY <1>1, <1>3, <1>4, FactorOrder
<1> QED  BY <1>1, <1>5

\* The next start is a boundary, and not further ahead than that.
LEMMA NextStartBoundary ==
  ASSUME NEW m \in Motions, NEW s \in Nat, OnBoundary(m.start), m.start <= s
  PROVE  \E k \in Nat : NextStart(m, s) = k * Ticks /\ k <= Periods(s) + 1
<1> USE TopicsAssumption
<1>1. PICK j \in Nat : m.start = j * Ticks
  BY DEF OnBoundary
<1>2. Periods(s) \in Nat
  BY PeriodsType
<1>3. CASE s <= m.start + Early
  <2>1. NextStart(m, s) = j * Ticks + Ticks
    BY <1>1, <1>3 DEF NextStart
  <2>2. j * Ticks + Ticks = (j + 1) * Ticks
    OBVIOUS
  <2>3. j <= Periods(s)
    BY <1>1, PeriodsCount
  <2> QED  BY <1>2, <2>1, <2>2, <2>3
<1>4. CASE ~(s <= m.start + Early)
  <2>1. NextStart(m, s) = (Periods(s) + 1) * Ticks
    BY <1>4 DEF NextStart, Periods
  <2> QED  BY <1>2, <2>1
<1> QED  BY <1>3, <1>4

\* The first motion starts at step 0 and no calculation has been paid for.
LEMMA BudgetInit == Init => BudgetInv
<1> SUFFICES ASSUME Init PROVE BudgetInv
  OBVIOUS
<1> USE TopicsAssumption DEF Init, TopicsInit, PlantInit, ControllerInit
<1>1. OnBoundary(0) /\ 0 = 0 * Ticks
  BY DEF OnBoundary
<1>2. StartsInv
  BY <1>1 DEF StartsInv, FirstMotion
<1>3. PaidInv
  <2>1. Periods(step) \in Nat
    BY PeriodsType
  <2> QED  BY <1>1, <2>1 DEF PaidInv
<1> QED  BY <1>2, <1>3 DEF BudgetInv

\* The schedule takes up a motion at its start step.
LEMMA AdvanceStarts ==
  ASSUME TypeOK, StartsInv, NEW p \in Motions \cup {NoMotion},
         p # NoMotion => OnBoundary(p.start), Advance(p)
  PROVE  /\ OnBoundary(active.start)' /\ active'.start <= step'
         /\ pending' # NoMotion => OnBoundary(pending.start)'
         /\ sample' # NoSample =>
              OnBoundary(sample.active.start)' /\ sample'.active.start <= sample'.step
<1> USE TopicsAssumption
<1>1. /\ step \in Nat /\ step' = step + 1
      /\ active.start \in Nat /\ active.start <= step
  BY DEF Advance, TypeOK, PlantTypeOK, StartsInv, Motions
<1>2. OnBoundary(active.start)' /\ active'.start <= step'
  <2>1. CASE Starts(p)
    <3>1. active' = p /\ p.start = step'
      BY <1>1, <2>1 DEF Advance, Starts
    <3> QED  BY <1>1, <2>1, <3>1 DEF Starts, OnBoundary
  <2>2. CASE ~Starts(p)
    <3>1. active' = active
      BY <2>2 DEF Advance
    <3> QED  BY <1>1, <3>1 DEF StartsInv, OnBoundary
  <2> QED  BY <2>1, <2>2
<1>3. pending' # NoMotion => OnBoundary(pending.start)'
  BY DEF Advance, OnBoundary
<1>4. ASSUME sample' # NoSample
      PROVE  OnBoundary(sample.active.start)' /\ sample'.active.start <= sample'.step
  <2>1. CASE sample' = sample
    BY <1>4, <2>1 DEF StartsInv, OnBoundary
  <2>2. CASE sample' = [step |-> step', active |-> active',
                        pending |-> IF pending' = NoMotion THEN 0 ELSE pending'.id]
    <3>1. sample'.step = step' /\ sample'.active = active'
      BY <2>2
    <3> QED  BY <1>2, <3>1 DEF OnBoundary
  <2> QED  BY <2>1, <2>2 DEF Advance
<1> QED  BY <1>2, <1>3, <1>4

\* The plant only passes on the motions it was sent.
LEMMA PlantStarts ==
  ASSUME TypeOK, StartsInv, PlantStep
  PROVE  StartsInv'
<1> USE DEF PlantStep, controllerVars
<1>1. checking \in Motions \cup {NoMotion} /\ pending \in Motions \cup {NoMotion}
  BY DEF TypeOK, PlantTypeOK
<1>2. ASSUME NEW m \in commands, OnCommand(m)  PROVE StartsInv'
  BY <1>2 DEF OnCommand, StartsInv, OnBoundary
<1>3. CASE PlantTick
  <2>1. pending # NoMotion => OnBoundary(pending.start)
    BY DEF StartsInv
  <2>2. Advance(pending) /\ UNCHANGED <<commands, checking, latest, calculation>>
    BY <1>3 DEF PlantTick
  <2>3. /\ OnBoundary(active.start)' /\ active'.start <= step'
        /\ pending' # NoMotion => OnBoundary(pending.start)'
        /\ sample' # NoSample =>
             OnBoundary(sample.active.start)' /\ sample'.active.start <= sample'.step
    BY <1>1, <2>1, <2>2, AdvanceStarts
  <2> QED  BY <2>2, <2>3 DEF StartsInv, OnBoundary
<1>4. ASSUME NEW certified \in BOOLEAN, Admit(certified)  PROVE StartsInv'
  <2> DEFINE p == IF Verdict(checking, certified) = "accepted"
                  THEN checking ELSE pending
  <2>1. /\ p \in Motions \cup {NoMotion}
        /\ p # NoMotion => OnBoundary(p.start)
    BY <1>1 DEF StartsInv
  <2>2. /\ Advance(p) /\ checking' = NoMotion
        /\ UNCHANGED <<commands, latest, calculation>>
    BY <1>4 DEF Admit
  <2> HIDE DEF p
  <2>3. /\ OnBoundary(active.start)' /\ active'.start <= step'
        /\ pending' # NoMotion => OnBoundary(pending.start)'
        /\ sample' # NoSample =>
             OnBoundary(sample.active.start)' /\ sample'.active.start <= sample'.step
    BY <2>1, <2>2, AdvanceStarts
  <2> QED  BY <2>2, <2>3 DEF StartsInv, OnBoundary
<1> QED  BY <1>2, <1>3, <1>4 DEF PlantNext

\* What a calculation of the timer starts with is a boundary.
LEMMA ConsiderBudget ==
  ASSUME IInv, BudgetInv, Consider, UNCHANGED plantVars
  PROVE  BudgetInv'
<1> USE TopicsAssumption DEF plantVars
<1> DEFINE start == NextStart(latest.active, latest.step)
<1>1. /\ latest \in Snapshots /\ latest # NoSample
      /\ UNCHANGED <<topics, latest>>
      /\ calculation = NoCalculation
      /\ \/ UNCHANGED <<calculation, lastStart, started>>
         \/ /\ calculation'.start = start
            /\ lastStart' = start /\ start \in Nat /\ start > lastStart
            /\ started' = started + 1
  BY ConsiderBegins DEF IInv, Consider
<1>2. PICK k \in Nat : start = k * Ticks /\ k <= Periods(latest.step) + 1
  <2>1. /\ latest.active \in Motions /\ latest.step \in Nat
        /\ OnBoundary(latest.active.start) /\ latest.active.start <= latest.step
    BY <1>1 DEF BudgetInv, StartsInv, Snapshots
  <2> QED  BY <2>1, NextStartBoundary
<1> HIDE DEF start
<1>3. StartsInv'
  BY <1>1, <1>2 DEF topics, BudgetInv, StartsInv, OnBoundary
<1>4. PaidInv'
  <2>1. CASE UNCHANGED <<lastStart, started>>
    BY <2>1 DEF BudgetInv, PaidInv, Periods
  <2>2. CASE lastStart' = start /\ start > lastStart /\ started' = started + 1
    <3>1. PICK j \in Nat : lastStart = j * Ticks /\ started <= j
      BY DEF BudgetInv, PaidInv
    <3>2. j * Ticks < k * Ticks
      <4>1. j * Ticks \in Nat /\ k * Ticks \in Nat
        OBVIOUS
      <4> QED  BY <1>2, <2>2, <3>1, <4>1
    <3>3. j < k
      BY <3>2, FactorOrder
    <3>4. started \in Nat /\ step \in Nat /\ latest.step \in Nat
      BY <1>1 DEF IInv, TypeOK, PlantTypeOK, ControllerTypeOK, Snapshots
    <3>5. latest.step <= step
      BY <1>1 DEF IInv, Seen, Shows
    <3>6. /\ Periods(latest.step) <= Periods(step)
          /\ Periods(latest.step) \in Nat /\ Periods(step) \in Nat
      BY <3>4, <3>5, PeriodsType, PeriodsOrder
    <3>7. started' <= k /\ k <= Periods(step) + 1
      BY <1>2, <2>2, <3>1, <3>3, <3>4, <3>6
    <3> QED  BY <1>2, <2>2, <3>7 DEF PaidInv, Periods
  <2> QED  BY <1>1, <2>1, <2>2
<1> QED  BY <1>3, <1>4 DEF BudgetInv

\* A calculation begins with a start step of its own (_tick compares it with the
\* last one tried), and every other step copies start steps from where they were.
LEMMA BudgetStep == IInv /\ BudgetInv /\ [Next]_vars => BudgetInv'
<1> SUFFICES ASSUME IInv, BudgetInv, [Next]_vars PROVE BudgetInv'
  OBVIOUS
<1>0. TypeOK /\ StartsInv /\ PaidInv
  BY DEF IInv, BudgetInv
<1>1. ASSUME UNCHANGED <<lastStart, started, step>>  PROVE PaidInv'
  BY <1>0, <1>1 DEF PaidInv, Periods
<1>2. CASE PlantStep
  <2>1. StartsInv'
    BY <1>0, <1>2, PlantStarts
  <2>2. UNCHANGED <<lastStart, started>> /\ step \in Nat
        /\ (step' = step \/ step' = step + 1)
    BY <1>0, <1>2, TopicsAssumption
    DEF PlantStep, PlantNext, OnCommand, PlantTick, Admit, Advance,
        controllerVars, TypeOK, PlantTypeOK
  <2>3. /\ Periods(step) <= Periods(step')
        /\ Periods(step) \in Nat /\ Periods(step') \in Nat
    BY <2>2, PeriodsType, PeriodsOrder
  <2>4. Periods(step)' = Periods(step')
    BY DEF Periods
  <2>5. PaidInv'
    <3>1. PICK k \in Nat :
            lastStart = k * Ticks /\ started <= k /\ k <= Periods(step) + 1
      BY <1>0 DEF PaidInv
    <3>2. lastStart' = k * Ticks /\ started' <= k /\ k <= Periods(step') + 1
      BY <2>2, <2>3, <3>1
    <3> QED  BY <2>4, <3>2 DEF PaidInv
  <2> QED  BY <2>1, <2>5 DEF BudgetInv
<1>3. CASE ControllerStep
  <2> USE <1>0 DEF StartsInv, OnBoundary
  <2>1. UNCHANGED plantVars
    BY <1>3 DEF ControllerStep
  <2>2. CASE Consider
    BY <2>1, <2>2, ConsiderBudget
  <2>3. CASE OnState
    BY <1>1, <2>1, <2>3 DEF plantVars, OnState, BudgetInv
  <2>4. ASSUME NEW a \in admissions, OnAdmission(a)  PROVE BudgetInv'
    BY <1>1, <2>1, <2>4 DEF plantVars, OnAdmission, BudgetInv
  <2>5. ASSUME NEW finding \in Findings, NEW feed \in 0 .. MaxFeed,
               NEW zero \in {"certified", "refused", "fails"},
               Propose(finding, feed, zero)
        PROVE  BudgetInv'
    <3>1. calculation # NoCalculation /\ calculation'.start = calculation.start
      BY <2>5, ProposeDone DEF Propose
    <3> QED  BY <1>1, <2>1, <2>5, <3>1 DEF plantVars, topics, Propose, BudgetInv
  <2>6. CASE ProposeFails
    <3>1. calculation # NoCalculation /\ calculation'.start = calculation.start
      BY <2>6, ProposeFailsDone DEF ProposeFails
    <3> QED
      BY <1>1, <2>1, <2>6, <3>1 DEF plantVars, topics, ProposeFails, BudgetInv
  <2>7. CASE FinishError \/ FinishFault \/ FinishNone
    BY <1>1, <2>1, <2>7
    DEF plantVars, topics, FinishError, FinishFault, FinishNone, Finishes, BudgetInv
  <2>8. ASSUME NEW inside \in BOOLEAN, FinishMotion(inside)  PROVE BudgetInv'
    <3>1. /\ calculation # NoCalculation /\ calculation' = NoCalculation
          /\ \A m \in commands' : m \in commands \/ m.start = calculation.start
          /\ UNCHANGED <<sample, latest, lastStart, started>>
      BY <2>8 DEF FinishMotion, Finishes
    <3> QED  BY <1>1, <2>1, <3>1 DEF plantVars, BudgetInv
  <2>9. CASE FinishRecording \/ \E end \in {"failing", "leaving"} : StopSpinning(end)
    BY <1>1, <2>1, <2>9
    DEF plantVars, topics, FinishRecording, StopSpinning, BudgetInv
  <2> QED
    BY <1>3, <2>2, <2>3, <2>4, <2>5, <2>6, <2>7, <2>8, <2>9
    DEF ControllerStep, ControllerNext, WorkerNext
<1>4. CASE NetworkStep
  BY <1>0, <1>1, <1>4
  DEF NetworkStep, Lose, plantVars, controllerVars, BudgetInv, StartsInv, OnBoundary
<1>5. CASE UNCHANGED vars
  BY <1>0, <1>1, <1>5
  DEF vars, topics, plantVars, controllerVars, BudgetInv, StartsInv, OnBoundary
<1> QED  BY <1>2, <1>3, <1>4, <1>5 DEF Next

\* However the path, the rules and the network are, a run of n steps starts at
\* most ceil(n / Ticks) + 1 calculations: RecordingLimits keeps one to spare.
THEOREM OneToSpare == Spec => [](started <= Periods(step) + 1)
<1>1. Init => BudgetInv
  BY BudgetInit
<1>2. IInv /\ BudgetInv /\ [Next]_vars => BudgetInv'
  BY BudgetStep
<1>3. IInv /\ BudgetInv => started <= Periods(step) + 1
  <2> SUFFICES ASSUME IInv, BudgetInv PROVE started <= Periods(step) + 1
    OBVIOUS
  <2>1. started \in Nat /\ Periods(step) \in Nat
    BY TopicsAssumption, PeriodsType
    DEF IInv, TypeOK, PlantTypeOK, ControllerTypeOK
  <2> QED  BY <2>1 DEF BudgetInv, PaidInv
<1> QED  BY <1>1, <1>2, <1>3, LoopInvariant, PTL DEF Spec

\* The storage that was reserved is enough.
THEOREM BudgetSuffices == Spec => []CalculationsFitTheBudget
<1>1. IInv /\ started <= Periods(step) + 1 => CalculationsFitTheBudget
  <2>1. IInv => started \in Nat /\ Periods(step) \in Nat
    BY TopicsAssumption, PeriodsType
    DEF IInv, TypeOK, PlantTypeOK, ControllerTypeOK
  <2> QED  BY <2>1 DEF CalculationsFitTheBudget, Periods
<1> QED  BY <1>1, OneToSpare, LoopInvariant, PTL

=============================================================================
