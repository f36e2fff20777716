------------------------ MODULE StaticRefusalProofs ------------------------
(***************************************************************************)
(* Proof that a refusal pauses the reference in module StaticLoop.  The    *)
(* argument spans the three actors: the plant refuses a motion, the        *)
(* controller waits until it hears of that, its callback restarts the      *)
(* rules, and the worker, which only calculates after that, applies them   *)
(* to later boundaries only.                                               *)
(***************************************************************************)
EXTENDS StaticBudgetProofs

\* The reference may move again from here on, after motion m was refused.
Resume(m) == m.start + Ticks + (IF Improved THEN Confirmation ELSE 0)

\* A reference that runs has been confirmed.
RunsConfirmed(r) ==
  r.phase = "RUNNING" /\ Improved =>
    r.valid # None /\ r.time # None /\ r.time >= r.valid + Confirmation

\* The rules hold no confirmation that began before time b.
ConfirmsFrom(r, b) ==
  r.phase \in {"FAULT", "ENDPOINT_HOLD"} \/ (r.valid # None => r.valid >= b)

\* What has not been decided yet is the last that was tried.
LastTried ==
  /\ \A m \in commands : m.start <= lastStart
  /\ checking # NoMotion => checking.start <= lastStart
  /\ calculation # NoCalculation => calculation.start = lastStart

\* A refusal on its way is the last one that was given.
RefusalIsLast ==
  \A a \in admissions :
    a.reason # "accepted" => refused # NoMotion /\ refused.id = a.id

\* While the controller waits for the answer, nothing newer exists.
Unheard ==
  refused # NoMotion =>
    /\ refused.id \in 1 .. sequence
    /\ refused.start <= lastStart
    /\ waiting = refused.id =>
         /\ sequence = refused.id /\ active.id < refused.id
         /\ commands = {} /\ checking = NoMotion /\ pending = NoMotion

\* Once it has heard of it, whatever is calculated starts later, and moves the
\* reference only after a new confirmation.
Heard ==
  refused # NoMotion /\ waiting # refused.id =>
    /\ ConfirmsFrom(recovery, refused.start + Ticks)
    /\ calculation # NoCalculation =>
         /\ calculation.start > refused.start
         /\ calculation.feed > 0 => calculation.start >= Resume(refused)

RefusedBoundary == refused # NoMotion => OnBoundary(refused.start)

RefusalInv ==
  /\ LastTried
  /\ RefusedBoundary
  /\ RefusalIsLast
  /\ Unheard
  /\ Heard
  /\ RunsConfirmed(recovery)
  /\ RefusalPausesReference

-----------------------------------------------------------------------------
(* The rules *)

\* What update does: it gives up, pauses, begins or continues a confirmation,
\* ends one, or leaves a running reference alone.
LEMMA UpdatedCases ==
  ASSUME NEW r \in Recoveries, NEW t \in Nat, NEW f \in Findings,
         NEW atEnd \in BOOLEAN
  PROVE  LET u == Updated(r, t, f, atEnd)
         IN /\ u.time = t
            /\ \/ u.phase \in {"FAULT", "ENDPOINT_HOLD"}
               \/ u.phase = "REFERENCE_PAUSED" /\ u.valid = None
               \/ /\ r.phase \in {"REFERENCE_PAUSED", "RECOVERING"}
                  /\ u.phase = "RECOVERING" /\ u.valid = Since(r.valid, t)
               \/ /\ r.phase \in {"REFERENCE_PAUSED", "RECOVERING"}
                  /\ u.phase = "RUNNING" /\ u.valid = Since(r.valid, t)
                  /\ Improved => t - u.valid >= Confirmation
               \/ u.phase = "RUNNING" /\ r.phase = "RUNNING" /\ u.valid = r.valid
<1> DEFINE w == [r EXCEPT !.time = t]
           v == Interrupted(w, t, f)
           u == Updated(r, t, f, atEnd)
<1>0. /\ w \in Recoveries /\ w.phase = r.phase /\ w.valid = r.valid /\ w.time = t
      /\ r.phase \in Phases
  BY DEF Recoveries, Times
<1> HIDE DEF w
<1>1. CASE r.phase = "FAULT"
  <2>1. u = w
    BY <1>1 DEF Updated, w
  <2> QED  BY <1>0, <1>1, <2>1
<1>2. CASE r.phase # "FAULT" /\ atEnd
  <2>1. u = [w EXCEPT !.phase = "ENDPOINT_HOLD"]
    BY <1>2 DEF Updated, w, Transition
  <2>2. u.phase = "ENDPOINT_HOLD" /\ u.time = t
    BY <1>0, <2>1 DEF Recoveries
  <2> QED  BY <2>2
<1>3. CASE r.phase # "FAULT" /\ ~atEnd
  <2>1. u = IF v.phase \in {"REFERENCE_PAUSED", "RECOVERING"}
            THEN Waited(v, t, f) ELSE v
    BY <1>3 DEF Updated, w
  <2>2. /\ v.time = t /\ v \in Recoveries
        /\ \/ v.phase = r.phase /\ v.valid = r.valid
           \/ v.phase = "REFERENCE_PAUSED" /\ v.valid = None /\ ~Ready(f)
    BY <1>0 DEF Interrupted, Transition, Recoveries, Times, Phases, Ready
  <2> HIDE DEF v, u
  <2>3. CASE v.phase \in {"REFERENCE_PAUSED", "RECOVERING"}
    <3> DEFINE p == [v EXCEPT !.paused = Since(@, t)]
    <3>1. /\ p \in Recoveries /\ p.valid = v.valid /\ p.time = t
          /\ u = IF t - p.paused > PauseLimit THEN Fault(p)
                 ELSE IF ~Ready(f)
                 THEN Transition([p EXCEPT !.valid = None], "REFERENCE_PAUSED")
                 ELSE IF Confirmed(v, t)
                 THEN Transition([p EXCEPT !.paused = None,
                                           !.valid = Since(@, t)], "RUNNING")
                 ELSE Transition([p EXCEPT !.valid = Since(@, t)], "RECOVERING")
      BY <2>1, <2>2, <2>3 DEF Waited, Recoveries, Times, Since
    <3> HIDE DEF p
    <3>2. CASE t - p.paused > PauseLimit
      <4>0. u = [p EXCEPT !.phase = "FAULT"]
        BY <3>1, <3>2 DEF Fault, Transition
      <4>1. u.phase = "FAULT" /\ u.time = t
        BY <3>1, <4>0 DEF Recoveries
      <4> QED  BY <4>1 DEF u
    <3>3. CASE ~(t - p.paused > PauseLimit) /\ ~Ready(f)
      <4>0. u = [[p EXCEPT !.valid = None] EXCEPT !.phase = "REFERENCE_PAUSED"]
        BY <3>1, <3>3 DEF Transition
      <4>1. u.phase = "REFERENCE_PAUSED" /\ u.valid = None /\ u.time = t
        BY <3>1, <4>0 DEF Recoveries
      <4> QED  BY <4>1 DEF u
    <3>4. CASE ~(t - p.paused > PauseLimit) /\ Ready(f) /\ Confirmed(v, t)
      <4>0. u = [[p EXCEPT !.paused = None, !.valid = Since(@, t)]
                   EXCEPT !.phase = "RUNNING"]
        BY <3>1, <3>4 DEF Transition
      <4>1. u.phase = "RUNNING" /\ u.valid = Since(v.valid, t) /\ u.time = t
        BY <3>1, <4>0 DEF Recoveries
      <4> QED  BY <1>0, <2>2, <2>3, <3>4, <4>1 DEF Confirmed, u
    <3>5. CASE ~(t - p.paused > PauseLimit) /\ Ready(f) /\ ~Confirmed(v, t)
      <4>0. u = [[p EXCEPT !.valid = Since(@, t)] EXCEPT !.phase = "RECOVERING"]
        BY <3>1, <3>5 DEF Transition
      <4>1. u.phase = "RECOVERING" /\ u.valid = Since(v.valid, t) /\ u.time = t
        BY <3>1, <4>0 DEF Recoveries
      <4> QED  BY <1>0, <2>2, <2>3, <3>5, <4>1 DEF u
    <3> QED  BY <3>2, <3>3, <3>4, <3>5
  <2>4. CASE v.phase \notin {"REFERENCE_PAUSED", "RECOVERING"}
    <3>1. u = v
      BY <2>1, <2>4
    <3> QED  BY <1>0, <2>2, <2>4, <3>1 DEF Phases, u
  <2> QED  BY <2>3, <2>4 DEF u
<1> QED  BY <1>1, <1>2, <1>3

\* A reference that runs after update has been confirmed.
LEMMA UpdatedConfirms ==
  ASSUME NEW r \in Recoveries, NEW t \in Nat, NEW f \in Findings,
         NEW atEnd \in BOOLEAN, t >= r.time, RunsConfirmed(r)
  PROVE  RunsConfirmed(Updated(r, t, f, atEnd))
<1> DEFINE u == Updated(r, t, f, atEnd)
<1>1. r.valid \in Nat \cup {-1} /\ r.time \in Nat \cup {-1} /\ Confirmation \in Nat
  BY RecoveryAssumption DEF Recoveries, Times, None
<1>2. /\ u.time = t
      /\ \/ u.phase # "RUNNING"
         \/ u.valid = Since(r.valid, t) /\ (Improved => t - u.valid >= Confirmation)
         \/ r.phase = "RUNNING" /\ u.valid = r.valid
  BY UpdatedCases
<1> HIDE DEF u
<1>3. Since(r.valid, t) \in Nat
  BY <1>1 DEF Since, None
<1>4. RunsConfirmed(u)
  BY <1>1, <1>2, <1>3 DEF RunsConfirmed, None
<1> QED  BY <1>4 DEF u

\* If no confirmation began before time b, none does after update, and the
\* reference runs only when one that began at b or later is over.
LEMMA UpdatedResumes ==
  ASSUME NEW r \in Recoveries, NEW t \in Nat, NEW f \in Findings,
         NEW atEnd \in BOOLEAN, t >= r.time, RunsConfirmed(r),
         NEW b \in Nat, b <= t, ConfirmsFrom(r, b)
  PROVE  LET u == Updated(r, t, f, atEnd)
         IN /\ ConfirmsFrom(u, b)
            /\ u.phase = "RUNNING" =>
                 t >= b + (IF Improved THEN Confirmation ELSE 0)
<1> DEFINE u == Updated(r, t, f, atEnd)
<1>1. r.valid \in Nat \cup {-1} /\ r.time \in Nat \cup {-1} /\ Confirmation \in Nat
  BY RecoveryAssumption DEF Recoveries, Times, None
<1>2. /\ u.time = t
      /\ \/ u.phase \in {"FAULT", "ENDPOINT_HOLD"}
         \/ u.phase = "REFERENCE_PAUSED" /\ u.valid = None
         \/ /\ r.phase \in {"REFERENCE_PAUSED", "RECOVERING"}
            /\ u.phase = "RECOVERING" /\ u.valid = Since(r.valid, t)
         \/ /\ r.phase \in {"REFERENCE_PAUSED", "RECOVERING"}
            /\ u.phase = "RUNNING" /\ u.valid = Since(r.valid, t)
            /\ Improved => t - u.valid >= Confirmation
         \/ u.phase = "RUNNING" /\ r.phase = "RUNNING" /\ u.valid = r.valid
  BY UpdatedCases
<1> HIDE DEF u
<1>3. r.phase \notin {"FAULT", "ENDPOINT_HOLD"} =>
        Since(r.valid, t) \in Nat /\ Since(r.valid, t) >= b
  BY <1>1 DEF Since, None, ConfirmsFrom
<1>4. ConfirmsFrom(u, b)
  BY <1>1, <1>2, <1>3 DEF ConfirmsFrom, None
<1>5. ASSUME u.phase = "RUNNING"
      PROVE  t >= b + (IF Improved THEN Confirmation ELSE 0)
  <2>1. CASE ~Improved
    BY <2>1
  <2>2. CASE Improved /\ u.valid = Since(r.valid, t) /\ t - u.valid >= Confirmation
             /\ r.phase \in {"REFERENCE_PAUSED", "RECOVERING"}
    BY <1>1, <1>3, <2>2
  <2>3. CASE Improved /\ r.phase = "RUNNING"
    BY <1>1, <2>3 DEF RunsConfirmed, ConfirmsFrom, None
  <2> QED  BY <1>2, <1>5, <2>1, <2>2, <2>3
<1> QED  BY <1>4, <1>5 DEF u

-----------------------------------------------------------------------------
(* The invariant holds initially and is kept by every step *)

\* Nothing has been tried or refused at the beginning.
LEMMA RefusalInit == Init => RefusalInv
<1> SUFFICES ASSUME Init PROVE RefusalInv
  OBVIOUS
<1> USE DEF Init, TopicsInit, PlantInit, ControllerInit
<1>1. LastTried /\ RefusalIsLast /\ RefusedBoundary
  BY DEF LastTried, RefusalIsLast, RefusedBoundary
<1>2. Unheard /\ Heard /\ RefusalPausesReference
  BY DEF Unheard, Heard, RefusalPausesReference
<1>3. RunsConfirmed(recovery)
  BY DEF RunsConfirmed, FirstRecovery
<1> QED  BY <1>1, <1>2, <1>3 DEF RefusalInv

\* Types of what the steps compare.
LEMMA RefusalTypes ==
  ASSUME TypeOK
  PROVE  /\ refused # NoMotion =>
              refused \in Motions /\ refused.id \in Nat /\ refused.start \in Nat
         /\ calculation # NoCalculation =>
              calculation \in Calculations /\ calculation.start \in Nat
         /\ sequence \in Nat /\ waiting \in Nat /\ lastStart \in Nat
         /\ active.id \in Nat /\ step \in Nat
         /\ recovery \in Recoveries /\ recovery.time \in Nat \cup {-1}
BY TopicsAssumption
DEF TypeOK, PlantTypeOK, ControllerTypeOK, Motions, Calculations, Recoveries,
    Times, None

\* Steps that only lose, pass on or drop motions and answers, and do not
\* touch the rules.
LEMMA RefusalPassed ==
  ASSUME RefusalInv,
         commands' \subseteq commands,
         checking' \in commands \cup {checking, NoMotion},
         pending' \in {pending, checking, NoMotion},
         active' = active \/ active' \in {pending, checking} \ {NoMotion},
         \A a \in admissions' : a \in admissions \/ a.reason = "accepted",
         calculation' \in {calculation, NoCalculation},
         UNCHANGED <<refused, lastStart, sequence, waiting, recovery>>
  PROVE  RefusalInv'
<1>1. LastTried'
  BY DEF RefusalInv, LastTried
<1>2. RefusalIsLast' /\ RefusedBoundary'
  BY DEF RefusalInv, RefusalIsLast, RefusedBoundary, OnBoundary
<1>3. Unheard'
  BY DEF RefusalInv, Unheard
<1>4. Heard' /\ RunsConfirmed(recovery)'
  BY DEF RefusalInv, Heard, ConfirmsFrom, Resume, RunsConfirmed
<1>5. RefusalPausesReference'
  <2>1. LiveMotions' \subseteq LiveMotions \cup {active'}
    BY DEF LiveMotions
  <2>2. active' \in LiveMotions \/ active' = active
    BY DEF LiveMotions
  <2> QED
    BY <2>1, <2>2 DEF RefusalInv, RefusalPausesReference, LiveMotions
<1> QED  BY <1>1, <1>2, <1>3, <1>4, <1>5 DEF RefusalInv

\* The plant refuses the one motion there is.
LEMMA RefusalGiven ==
  ASSUME IInv, BudgetInv, RefusalInv, checking # NoMotion,
         UNCHANGED <<commands, active, lastStart, sequence, waiting, recovery,
                     calculation>>,
         refused' = checking, checking' = NoMotion, pending' = NoMotion,
         \A a \in admissions' : a \in admissions \/ a.id = checking.id
  PROVE  RefusalInv'
<1>1. /\ checking.id = waiting /\ checking.id > lastRequest /\ commands = {}
      /\ active.id <= lastRequest
      /\ waiting # 0 => waiting = sequence
      /\ \A a \in admissions : a.reason = "accepted"
  BY DEF IInv, OneCommand, OneAnswer
<1>2. /\ checking.id \in Nat /\ active.id \in Nat /\ lastRequest \in Nat
      /\ sequence \in Nat
  BY DEF IInv, TypeOK, PlantTypeOK, ControllerTypeOK, Motions
<1>3. LastTried'
  BY <1>1 DEF RefusalInv, LastTried
<1>4. RefusalIsLast'
  BY <1>1 DEF RefusalIsLast
<1>5. RefusedBoundary'
  BY DEF RefusedBoundary, BudgetInv, StartsInv, OnBoundary
<1>6. Unheard' /\ Heard'
  <2>1. waiting # 0 /\ sequence = checking.id /\ active.id < checking.id
    BY <1>1, <1>2
  <2>2. checking.id \in 1 .. sequence
    BY <1>2, <2>1, <1>1
  <2>3. checking.start <= lastStart
    BY DEF RefusalInv, LastTried
  <2> QED  BY <1>1, <2>1, <2>2, <2>3 DEF Unheard, Heard
<1>7. RunsConfirmed(recovery)'
  BY DEF RefusalInv, RunsConfirmed
<1>8. RefusalPausesReference'
  <2>1. \A m \in LiveMotions' : m = active
    BY <1>1 DEF LiveMotions
  <2>2. ~(active.id > checking.id)
    BY <1>1, <1>2
  <2> QED  BY <2>1, <2>2 DEF RefusalPausesReference
<1> QED  BY <1>3, <1>4, <1>5, <1>6, <1>7, <1>8 DEF RefusalInv

\* The plant refuses the command that is waited for, and starts nothing older.
LEMMA PlantRefusal ==
  ASSUME IInv, BudgetInv, RefusalInv, PlantStep
  PROVE  RefusalInv'
<1> USE DEF PlantStep, controllerVars
<1>1. checking \in Motions \cup {NoMotion} /\ pending \in Motions \cup {NoMotion}
  BY DEF IInv, TypeOK, PlantTypeOK
<1>2. ASSUME NEW m \in commands, OnCommand(m)  PROVE RefusalInv'
  <2>1. checking = NoMotion /\ pending = NoMotion /\ ~LeavesPath(m)
    <3>1. m \in Motions /\ Fits(m)
      BY DEF IInv, MotionsFit, TypeOK, TopicsTypeOK
    <3> QED
      BY <3>1, TopicsAssumption DEF IInv, OneCommand, Fits, LeavesPath, Motions
  <2>2. /\ commands' \subseteq commands /\ checking' = m
        /\ UNCHANGED <<admissions, refused, pending, active>>
    BY <1>2, <2>1 DEF OnCommand, Busy
  <2> QED  BY <2>2, RefusalPassed
<1>3. CASE PlantTick
  <2>1. UNCHANGED <<commands, admissions, checking, refused>>
    BY <1>3 DEF PlantTick
  <2>2. pending' \in {pending, NoMotion} /\ active' \in {active, pending}
    BY <1>3 DEF PlantTick, Advance
  <2>3. active' = active \/ (active' = pending /\ pending # NoMotion)
    BY <1>3 DEF PlantTick, Advance, Starts
  <2> QED  BY <2>1, <2>2, <2>3, RefusalPassed
<1>4. ASSUME NEW certified \in BOOLEAN, Admit(certified)  PROVE RefusalInv'
  <2> DEFINE verdict == Verdict(checking, certified)
             p == IF verdict = "accepted" THEN checking ELSE pending
  <2>1. /\ checking # NoMotion /\ checking' = NoMotion /\ UNCHANGED commands
        /\ admissions' = admissions \cup {Answer(checking, verdict)}
        /\ refused' = IF verdict = "accepted" THEN refused ELSE checking
        /\ Advance(p)
    BY <1>4 DEF Admit, Refused
  <2>2. Answer(checking, verdict).id = checking.id
        /\ Answer(checking, verdict).reason = verdict
    BY DEF Answer
  <2>3. /\ pending' \in {p, NoMotion}
        /\ active' = active \/ (active' = p /\ p # NoMotion)
    BY <2>1 DEF Advance, Starts
  <2>4. pending = NoMotion
    BY <2>1 DEF IInv, OneCommand
  <2> HIDE DEF verdict
  <2>5. CASE verdict = "accepted"
    BY <2>1, <2>2, <2>3, <2>5, RefusalPassed
  <2>6. CASE verdict # "accepted"
    BY <2>1, <2>2, <2>3, <2>4, <2>6, RefusalGiven
  <2> QED  BY <2>5, <2>6
<1> QED  BY <1>2, <1>3, <1>4 DEF PlantNext

\* The controller hears of the refusal it waits for: the rules start again.
LEMMA RefusalHeard ==
  ASSUME IInv, RefusalInv, NEW a \in admissions, OnAdmission(a),
         a.reason # "accepted", UNCHANGED plantVars
  PROVE  RefusalInv'
<1>1. /\ refused # NoMotion /\ refused.id = a.id /\ a.id = waiting
      /\ waiting' = 0 /\ recovery' = Rejected(recovery, a.step)
      /\ admissions' \subseteq admissions
      /\ UNCHANGED <<commands, calculation, lastStart, sequence, checking,
                     pending, active, refused>>
  BY DEF OnAdmission, plantVars, RefusalInv, RefusalIsLast, IInv, OneAnswer
<1>2. /\ refused.id \in 1 .. sequence /\ sequence \in Nat
      /\ recovery \in Recoveries
  BY <1>1 DEF RefusalInv, Unheard, IInv, TypeOK, ControllerTypeOK
<1>3. calculation = NoCalculation
  BY <1>1, <1>2 DEF IInv, CalculationFits
<1>4. \/ recovery' = recovery /\ recovery.phase \in {"FAULT", "ENDPOINT_HOLD"}
      \/ recovery'.phase = "REFERENCE_PAUSED" /\ recovery'.valid = None
  BY <1>1, <1>2 DEF Rejected, Transition, Recoveries
<1>5. LastTried' /\ RefusalIsLast' /\ RefusedBoundary'
  BY <1>1, <1>3 DEF RefusalInv, LastTried, RefusalIsLast, RefusedBoundary, OnBoundary
<1>6. Unheard'
  BY <1>1, <1>2 DEF RefusalInv, Unheard
<1>7. Heard'
  BY <1>1, <1>3, <1>4 DEF Heard, ConfirmsFrom
<1>8. RunsConfirmed(recovery)'
  BY <1>4 DEF RunsConfirmed
<1>9. RefusalPausesReference'
  BY <1>1 DEF RefusalInv, RefusalPausesReference, LiveMotions
<1> QED  BY <1>5, <1>6, <1>7, <1>8, <1>9 DEF RefusalInv

\* A calculation begins only when the refusal has been heard of.
LEMMA ConsiderRefusal ==
  ASSUME IInv, RefusalInv, Consider, UNCHANGED plantVars
  PROVE  RefusalInv'
<1>1. /\ latest # NoSample /\ calculation = NoCalculation
      /\ waiting # 0 => latest.active.id = waiting
      /\ waiting' = 0
      /\ UNCHANGED <<commands, admissions, checking, pending, active, refused,
                     sequence, recovery>>
  BY DEF Consider, WaitIsOver, plantVars, topics
<1>2. \/ UNCHANGED <<calculation, lastStart>>
      \/ /\ calculation'.start = lastStart' /\ calculation'.feed = 0
         /\ lastStart' \in Nat /\ lastStart' > lastStart
  BY ConsiderBegins DEF IInv
<1>3. /\ sequence \in Nat /\ waiting \in Nat /\ lastStart \in Nat
      /\ refused # NoMotion => refused.id \in Nat /\ refused.start \in Nat
      /\ active.id \in Nat
      /\ commands \subseteq Motions /\ checking \in Motions \cup {NoMotion}
  BY RefusalTypes DEF IInv, TypeOK, TopicsTypeOK, PlantTypeOK
<1>4. refused # NoMotion => waiting # refused.id
  <2> SUFFICES ASSUME refused # NoMotion, waiting = refused.id PROVE FALSE
    OBVIOUS
  <2>1. active.id < waiting /\ waiting # 0
    BY <1>3 DEF RefusalInv, Unheard
  <2>2. latest.active.id <= active.id
    BY <1>1 DEF IInv, Seen, Shows
  <2> QED  BY <1>1, <1>3, <2>1, <2>2
<1>5. lastStart <= lastStart' /\ lastStart' \in Nat
  BY <1>2, <1>3
<1>6. LastTried'
  <2>1. \A m \in commands : m.start \in Nat /\ m.start <= lastStart
    BY <1>3 DEF RefusalInv, LastTried, Motions
  <2>2. checking # NoMotion => checking.start \in Nat /\ checking.start <= lastStart
    BY <1>3 DEF RefusalInv, LastTried, Motions
  <2>3. calculation' # NoCalculation => calculation'.start = lastStart'
    BY <1>1, <1>2
  <2> QED  BY <1>1, <1>3, <1>5, <2>1, <2>2, <2>3 DEF LastTried
<1>7. RefusalIsLast' /\ RefusedBoundary'
  BY <1>1 DEF RefusalInv, RefusalIsLast, RefusedBoundary, OnBoundary
<1>8. Unheard'
  BY <1>1, <1>3, <1>5 DEF RefusalInv, Unheard
<1>9. Heard'
  <2> SUFFICES ASSUME refused # NoMotion  PROVE Heard'
    BY <1>1 DEF Heard
  <2>1. ConfirmsFrom(recovery, refused.start + Ticks)
    BY <1>4 DEF RefusalInv, Heard
  <2>2. refused.start <= lastStart
    BY DEF RefusalInv, Unheard
  <2>3. calculation' # NoCalculation =>
          calculation'.start > refused.start /\ calculation'.feed = 0
    BY <1>1, <1>2, <1>3, <2>2
  <2> QED  BY <1>1, <2>1, <2>3 DEF Heard, ConfirmsFrom
<1>10. RunsConfirmed(recovery)'
  BY <1>1 DEF RefusalInv, RunsConfirmed
<1>11. RefusalPausesReference'
  BY <1>1 DEF RefusalInv, RefusalPausesReference, LiveMotions
<1> QED  BY <1>6, <1>7, <1>8, <1>9, <1>10, <1>11 DEF RefusalInv

\* The worker applies the rules to a later boundary than that of the refused
\* motion.
LEMMA ProposeRefusal ==
  ASSUME IInv, BudgetInv, RefusalInv,
         NEW finding \in Findings, NEW feed \in 0 .. MaxFeed,
         NEW zero \in {"certified", "refused", "fails"},
         Propose(finding, feed, zero), UNCHANGED plantVars
  PROVE  RefusalInv'
<1> DEFINE t == calculation.start
<1>1. /\ calculation \in Calculations /\ calculation' \in Calculations
      /\ calculation'.start = t
      /\ calculation'.feed > 0 => recovery'.phase = "RUNNING"
  BY ProposeDone DEF IInv
<1>2. /\ calculation # NoCalculation /\ t >= recovery.time
      /\ recovery' = Updated(recovery, t, finding, AtEndpoint(calculation))
      /\ AtEndpoint(calculation) \in BOOLEAN
      /\ UNCHANGED <<commands, admissions, checking, pending, active, refused,
                     lastStart, sequence, waiting>>
  BY DEF Propose, AtEndpoint, plantVars, topics
<1>3. t \in Nat /\ recovery \in Recoveries
  BY <1>2, RefusalTypes DEF IInv
<1> HIDE DEF t
<1>4. RunsConfirmed(recovery) /\ RunsConfirmed(recovery)'
  <2>1. RunsConfirmed(recovery)
    BY DEF RefusalInv
  <2>2. RunsConfirmed(Updated(recovery, t, finding, AtEndpoint(calculation)))
    BY <1>2, <1>3, <2>1, UpdatedConfirms
  <2> QED  BY <1>2, <2>1, <2>2 DEF RunsConfirmed
<1>5. LastTried' /\ RefusalIsLast' /\ RefusedBoundary' /\ Unheard'
  BY <1>1, <1>2
  DEF RefusalInv, LastTried, RefusalIsLast, RefusedBoundary, Unheard, OnBoundary, t
<1>6. Heard'
  <2> SUFFICES ASSUME refused # NoMotion, waiting # refused.id  PROVE Heard'
    BY <1>2 DEF Heard
  <2> DEFINE b == refused.start + Ticks
  <2>1. ConfirmsFrom(recovery, b) /\ t > refused.start
    BY <1>2 DEF RefusalInv, Heard, t
  <2>2. refused.start \in Nat /\ b \in Nat
    BY RefusalTypes, TopicsAssumption DEF IInv
  <2>3. b <= t
    <3>1. PICK j \in Nat : refused.start = j * Ticks
      BY DEF RefusalInv, RefusedBoundary, OnBoundary
    <3>2. PICK k \in Nat : t = k * Ticks
      BY <1>2 DEF BudgetInv, StartsInv, OnBoundary, t
    <3>3. j < k
      BY <2>1, <3>1, <3>2, FactorOrder
    <3>4. Ticks * (j + 1) <= Ticks * k
      BY <3>3, ProductOrder, TopicsAssumption
    <3>5. Ticks * (j + 1) = j * Ticks + Ticks /\ Ticks * k = k * Ticks
      BY TopicsAssumption
    <3> QED  BY <3>1, <3>2, <3>4, <3>5
  <2> HIDE DEF b
  <2>4. /\ ConfirmsFrom(recovery', b)
        /\ recovery'.phase = "RUNNING" =>
             t >= b + (IF Improved THEN Confirmation ELSE 0)
    BY <1>2, <1>3, <1>4, <2>1, <2>2, <2>3, UpdatedResumes
  <2> QED  BY <1>1, <1>2, <2>1, <2>4 DEF Heard, ConfirmsFrom, Resume, b
<1>7. RefusalPausesReference'
  BY <1>2 DEF RefusalInv, RefusalPausesReference, LiveMotions
<1> QED  BY <1>4, <1>5, <1>6, <1>7 DEF RefusalInv

\* A motion that moves the reference is sent only if its calculation may.
LEMMA FinishRefusal ==
  ASSUME IInv, RefusalInv, NEW inside \in BOOLEAN, FinishMotion(inside),
         UNCHANGED plantVars
  PROVE  RefusalInv'
<1> DEFINE m == [id |-> sequence + 1, start |-> calculation.start,
                 initial |-> calculation.initial, from |-> calculation.from,
                 feed |-> calculation.feed]
<1>1. /\ calculation # NoCalculation /\ calculation' = NoCalculation
      /\ commands' = commands \cup {m}
      /\ sequence' = sequence + 1 /\ waiting' = sequence + 1
      /\ UNCHANGED <<admissions, checking, pending, active, refused, lastStart,
                     recovery>>
  BY DEF FinishMotion, Finishes, plantVars
<1>2. m.id = sequence + 1 /\ m.start = calculation.start /\ m.feed = calculation.feed
  OBVIOUS
<1> HIDE DEF m
<1>3. /\ sequence \in Nat /\ lastStart \in Nat
      /\ refused # NoMotion => refused.id \in 1 .. sequence
      /\ waiting = 0
  BY <1>1, RefusalTypes DEF IInv, CalculationFits, RefusalInv, Unheard
<1>4. calculation.start = lastStart
  BY <1>1 DEF RefusalInv, LastTried
<1>5. LastTried' /\ RefusalIsLast' /\ RefusedBoundary'
  BY <1>1, <1>2, <1>3, <1>4
  DEF RefusalInv, LastTried, RefusalIsLast, RefusedBoundary, OnBoundary
<1>6. Unheard'
  BY <1>1, <1>3 DEF RefusalInv, Unheard
<1>7. Heard'
  BY <1>1, <1>3 DEF RefusalInv, Heard, ConfirmsFrom
<1>8. RunsConfirmed(recovery)'
  BY <1>1 DEF RefusalInv, RunsConfirmed
<1>9. RefusalPausesReference'
  <2> SUFFICES ASSUME refused # NoMotion, NEW n \in LiveMotions',
                      n.id > refused.id, n.feed > 0
               PROVE  n.start >= Resume(refused)
    BY <1>1 DEF RefusalPausesReference, Resume
  <2>1. CASE n = m
    BY <1>1, <1>2, <1>3, <2>1 DEF RefusalInv, Heard
  <2>2. CASE n # m
    <3>1. n \in LiveMotions
      BY <1>1, <2>2 DEF LiveMotions
    <3> QED  BY <3>1 DEF RefusalInv, RefusalPausesReference, Resume
  <2> QED  BY <2>1, <2>2
<1> QED  BY <1>5, <1>6, <1>7, <1>8, <1>9 DEF RefusalInv

\* The conjunction of the steps above: with the invariants of the loop and of the
\* budget, RefusalInv is inductive.
LEMMA RefusalStep == IInv /\ BudgetInv /\ RefusalInv /\ [Next]_vars => RefusalInv'
<1> SUFFICES ASSUME IInv, BudgetInv, RefusalInv, [Next]_vars PROVE RefusalInv'
  OBVIOUS
<1>1. CASE PlantStep
  BY <1>1, PlantRefusal
<1>2. CASE ControllerStep
  <2>1. UNCHANGED plantVars
    BY <1>2 DEF ControllerStep
  <2>2. CASE Consider
    BY <2>1, <2>2, ConsiderRefusal
  <2>3. CASE OnState \/ \E end \in {"failing", "leaving"} : StopSpinning(end)
    BY <2>1, <2>3, RefusalPassed DEF plantVars, topics, OnState, StopSpinning
  <2>4. ASSUME NEW a \in admissions, OnAdmission(a)  PROVE RefusalInv'
    <3>1. CASE a.reason = "accepted"
      BY <2>1, <2>4, <3>1, RefusalPassed DEF plantVars, OnAdmission
    <3> QED  BY <2>1, <2>4, <3>1, RefusalHeard
  <2>5. ASSUME NEW finding \in Findings, NEW feed \in 0 .. MaxFeed,
               NEW zero \in {"certified", "refused", "fails"},
               Propose(finding, feed, zero)
        PROVE  RefusalInv'
    BY <2>1, <2>5, ProposeRefusal
  <2>6. CASE ProposeFails
    <3>1. /\ calculation \in Calculations /\ calculation' \in Calculations
          /\ calculation'.start = calculation.start
          /\ calculation'.feed = calculation.feed
      BY <2>6, ProposeFailsDone DEF IInv
    <3>2. UNCHANGED <<commands, admissions, checking, pending, active, refused,
                      lastStart, sequence, waiting, recovery>>
      BY <2>1, <2>6 DEF ProposeFails, plantVars, topics
    <3>3. calculation # NoCalculation
      BY <2>6 DEF ProposeFails
    <3>4. LastTried' /\ RefusalIsLast' /\ RefusedBoundary' /\ Unheard'
      BY <3>1, <3>2, <3>3
      DEF RefusalInv, LastTried, RefusalIsLast, RefusedBoundary, Unheard, OnBoundary
    <3>5. Heard' /\ RunsConfirmed(recovery)' /\ RefusalPausesReference'
      BY <3>1, <3>2, <3>3
      DEF RefusalInv, Heard, ConfirmsFrom, Resume, RunsConfirmed,
          RefusalPausesReference, LiveMotions
    <3> QED  BY <3>4, <3>5 DEF RefusalInv
  <2>7. CASE FinishError \/ FinishFault \/ FinishNone
    BY <2>1, <2>7, RefusalPassed
    DEF plantVars, topics, FinishError, FinishFault, FinishNone, Finishes
  <2>8. ASSUME NEW inside \in BOOLEAN, FinishMotion(inside)  PROVE RefusalInv'
    BY <2>1, <2>8, FinishRefusal
  <2>9. CASE FinishRecording
    <3>1. /\ calculation' = NoCalculation
          /\ UNCHANGED <<commands, admissions, checking, pending, active, refused,
                         lastStart, sequence, waiting>>
          /\ recovery' = recovery \/ recovery' = Fault(recovery)
      BY <2>1, <2>9 DEF FinishRecording, plantVars, topics
    <3>2. recovery' = recovery \/ recovery'.phase = "FAULT"
      BY <3>1, RefusalTypes DEF IInv, Fault, Transition, Recoveries
    <3>3. LastTried' /\ RefusalIsLast' /\ RefusedBoundary' /\ Unheard'
      BY <3>1
      DEF RefusalInv, LastTried, RefusalIsLast, RefusedBoundary, Unheard, OnBoundary
    <3>4. Heard' /\ RunsConfirmed(recovery)'
      BY <3>1, <3>2 DEF RefusalInv, Heard, ConfirmsFrom, RunsConfirmed
    <3>5. RefusalPausesReference'
      BY <3>1 DEF RefusalInv, RefusalPausesReference, LiveMotions
    <3> QED  BY <3>3, <3>4, <3>5 DEF RefusalInv
  <2> QED
    BY <1>2, <2>2, <2>3, <2>4, <2>5, <2>6, <2>7, <2>8, <2>9
    DEF ControllerStep, ControllerNext, WorkerNext
<1>3. CASE NetworkStep
  BY <1>3, RefusalPassed DEF NetworkStep, Lose, plantVars, controllerVars
<1>4. CASE UNCHANGED vars
  BY <1>4, RefusalPassed DEF vars, topics, plantVars, controllerVars
<1> QED  BY <1>1, <1>2, <1>3, <1>4 DEF Next

\* After a refusal the reference pauses until a new confirmation is over,
\* whatever the plant certifies and the network loses.
THEOREM RefusalPauses == Spec => []RefusalPausesReference
<1>1. Init => BudgetInv /\ RefusalInv
  BY BudgetInit, RefusalInit
<1>2. IInv /\ BudgetInv /\ RefusalInv /\ [Next]_vars => BudgetInv' /\ RefusalInv'
  BY BudgetStep, RefusalStep
<1>3. RefusalInv => RefusalPausesReference
  BY DEF RefusalInv
<1> QED  BY <1>1, <1>2, <1>3, LoopInvariant, PTL DEF Spec

=============================================================================
