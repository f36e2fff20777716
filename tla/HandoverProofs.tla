---------------------------- MODULE HandoverProofs ----------------------------
(***************************************************************************)
(* Proofs about module Handover, for any number of threads, plans, attempts  *)
(* and starts of the controller.                                            *)
(***************************************************************************)
EXTENDS Handover, TLAPS

USE PlansAssumption, RunsAssumption, LoopAssumption

(***************************************************************************)
(* The controller and its report                                           *)
(***************************************************************************)

\* A run that may still take a step has no end yet, one that is closed has.
Ended ==
  /\ state \in {"waiting", "tracking"} => termination = "none"
  /\ state \in {"closed", "down"} /\ begun => termination # "none"
  /\ termination = "none" => report = "idle"
  /\ termination # "none" /\ begun => report # "idle"
  /\ state = "down" => report # "writing"

\* The files of the run are replaced in their order, and nobody else writes.
Replaced ==
  /\ \A f \in Files : disk[f] <= run
  /\ report = "idle" => writing = {} /\ \A f \in Files : disk[f] = 0 \/ disk[f] < run
  /\ report # "idle" => \A f \in Files : f \in writing <=> disk[f] # run
  /\ report = "writing" => writing # {}
  /\ report = "saved" => writing = {}
  /\ report # "idle" => \A f \in Files : Before(f) \cap writing # {} => f \in writing

\* What is on disk of earlier runs is whole.
ReportInv ==
  /\ TrackingTypeOK /\ Ended /\ Replaced
  /\ state # "down" => run > 0
  /\ disk["summary"] = disk["samples"] => disk["report"] = disk["summary"]


LEMMA ReportInit == Init => ReportInv
<1> SUFFICES ASSUME Init PROVE ReportInv
  OBVIOUS
<1>1. TrackingTypeOK
  <2>1. 0 \in 0 .. MaxRuns
    OBVIOUS
  <2>2. disk \in [Files -> 0 .. MaxRuns]
    BY <2>1, Zenon DEF Init, TrackingInit
  <2> QED  BY <2>1, <2>2 DEF Init, TrackingInit, TrackingTypeOK
<1>2. Ended
  BY DEF Init, TrackingInit, Ended
<1>3. Replaced
  BY DEF Init, TrackingInit, Replaced, Files
<1> QED  BY <1>1, <1>2, <1>3 DEF Init, TrackingInit, ReportInv, Files

\* Which file waits for which.
LEMMA Orders ==
  /\ Before("samples") = {}
  /\ Before("report") = {"samples"}
  /\ Before("summary") = {"samples", "report"}
BY DEF Before

LEMMA FinishReports ==
  ASSUME ReportInv, NEW reason \in {"held", "completed", "interrupted"},
         Up, Finish(reason), UNCHANGED <<run, begun, disk>>,
         state' \in {"holding", "closed"}
  PROVE  ReportInv'
<1>1. CASE termination # "none"
  <2>1. UNCHANGED <<termination, report, writing>>
    BY <1>1 DEF Finish
  <2>2. TrackingTypeOK'
    BY <2>1 DEF ReportInv, TrackingTypeOK
  <2>3. Ended'
    BY <1>1, <2>1 DEF ReportInv, Ended
  <2>4. Replaced'
    BY <2>1 DEF ReportInv, Replaced
  <2> QED  BY <2>1, <2>2, <2>3, <2>4 DEF ReportInv, Up
<1>2. CASE termination = "none" /\ begun
  <2>1. termination' = reason /\ report' = "writing" /\ writing' = Files
    BY <1>2 DEF Finish
  <2>2. TrackingTypeOK'
    BY <2>1 DEF ReportInv, TrackingTypeOK
  <2>3. Ended'
    BY <2>1 DEF ReportInv, Ended
  <2>4. report = "idle" /\ run > 0 /\ run \in Nat
    BY <1>2 DEF ReportInv, Ended, Up, TrackingTypeOK
  <2>5. \A f \in Files : disk[f] < run
    BY <2>4 DEF ReportInv, Replaced, TrackingTypeOK
  <2>6. Replaced'
    BY <2>1, <2>4, <2>5 DEF ReportInv, Replaced, Files, TrackingTypeOK
  <2> QED  BY <2>1, <2>2, <2>3, <2>6 DEF ReportInv, Up
<1>3. CASE termination = "none" /\ ~begun
  <2>1. termination' = reason /\ UNCHANGED <<report, writing>>
    BY <1>3 DEF Finish
  <2>2. TrackingTypeOK'
    BY <2>1 DEF ReportInv, TrackingTypeOK
  <2>3. Ended'
    BY <1>3, <2>1 DEF ReportInv, Ended
  <2>4. Replaced'
    BY <2>1 DEF ReportInv, Replaced
  <2> QED  BY <2>1, <2>2, <2>3, <2>4 DEF ReportInv, Up
<1>4. begun \in BOOLEAN
  BY DEF ReportInv, TrackingTypeOK
<1> QED  BY <1>1, <1>2, <1>3, <1>4

LEMMA FileReports ==
  ASSUME ReportInv, NEW f \in Files, ReplaceFile(f)
  PROVE  ReportInv'
<1> USE DEF ReplaceFile
<1>1. TrackingTypeOK'
  BY DEF ReportInv, TrackingTypeOK
<1>2. Ended'
  BY DEF ReportInv, Ended, Up
<1>3. disk' \in [Files -> 0 .. MaxRuns] /\ disk'[f] = run
      /\ \A g \in Files \ {f} : disk'[g] = disk[g]
  BY DEF ReportInv, TrackingTypeOK
<1>4. report' # "idle" /\ (report' = "writing" => writing' # {})
      /\ (report' = "saved" => writing' = {})
  OBVIOUS
<1>5. \A g \in Files : disk'[g] <= run'
  BY <1>3 DEF ReportInv, Replaced, TrackingTypeOK
<1>6. \A g \in Files : g \in writing' <=> disk'[g] # run'
  BY <1>3 DEF ReportInv, Replaced
<1>7. \A g \in Files : Before(g) \cap writing' # {} => g \in writing'
  <2> SUFFICES ASSUME NEW g \in Files, Before(g) \cap writing' # {}
               PROVE  g \in writing'
    OBVIOUS
  <2>1. g \in writing
    BY DEF ReportInv, Replaced
  <2>2. g # f
    OBVIOUS
  <2> QED  BY <2>1, <2>2
<1>8. Replaced'
  BY <1>4, <1>5, <1>6, <1>7 DEF Replaced
<1>9. disk'["summary"] = disk'["samples"] => disk'["report"] = disk'["summary"]
  <2>1. \A g \in Files : g \in writing <=> disk[g] # run
    BY DEF ReportInv, Replaced
  <2>2. \A g \in Files : Before(g) \cap writing # {} => g \in writing
    BY DEF ReportInv, Replaced
  <2>3. CASE f = "samples"
    <3>1. "summary" \in writing
      BY <2>2, <2>3, Orders DEF Files
    <3> QED  BY <1>3, <2>1, <2>3, <3>1 DEF Files
  <2>4. CASE f = "report"
    <3>1. "summary" \in writing /\ "samples" \notin writing
      BY <2>2, <2>4, Orders DEF Files
    <3> QED  BY <1>3, <2>1, <2>4, <3>1 DEF Files
  <2>5. CASE f = "summary"
    <3>1. "report" \notin writing /\ "samples" \notin writing
      BY <2>5, Orders
    <3> QED  BY <1>3, <2>1, <2>5, <3>1 DEF Files
  <2> QED  BY <2>3, <2>4, <2>5 DEF Files
<1> QED  BY <1>1, <1>2, <1>8, <1>9 DEF ReportInv

LEMMA ReportStep == ReportInv /\ [Next]_vars => ReportInv'
<1> SUFFICES ASSUME ReportInv, [Next]_vars PROVE ReportInv'
  OBVIOUS
<1>1. CASE UNCHANGED tracking
  <2>1. TrackingTypeOK'
    BY <1>1 DEF tracking, reporting, ReportInv, TrackingTypeOK
  <2>2. Ended'
    BY <1>1 DEF tracking, reporting, ReportInv, Ended
  <2>3. Replaced'
    BY <1>1 DEF tracking, reporting, ReportInv, Replaced
  <2> QED  BY <1>1, <2>1, <2>2, <2>3 DEF tracking, reporting, ReportInv
<1>2. CASE Step \/ Start \/ Exit \/ Crash
  <2>1. UNCHANGED <<run, termination, report, writing, disk>>
    BY <1>2 DEF Step, Start, Exit, Crash, reporting
  <2>2. TrackingTypeOK'
    <3>1. state' \in {"crashed", "down", "waiting", "tracking", "holding", "closed"}
      BY <1>2 DEF Step, Start, Exit, Crash, Up, ReportInv, TrackingTypeOK
    <3>2. begun' \in BOOLEAN
      BY <1>2, Zenon DEF Step, Start, Exit, Crash, ReportInv, TrackingTypeOK
    <3> QED  BY <2>1, <3>1, <3>2 DEF ReportInv, TrackingTypeOK
  <2>3. Ended'
    <3>1. CASE Step
      BY <2>1, <3>1 DEF Step, ReportInv, Ended
    <3>2. CASE Start \/ Exit \/ Crash
      <4>1. begun' = begun
        BY <3>2, Zenon DEF Start, Exit, Crash
      <4> QED  BY <2>1, <3>2, <4>1 DEF Start, Exit, Crash, Up, ReportInv, Ended
    <3> QED  BY <1>2, <3>1, <3>2
  <2>4. Replaced'
    BY <2>1 DEF ReportInv, Replaced
  <2>5. state' # "down" => run' > 0
    BY <1>2, <2>1 DEF Step, Start, Exit, Crash, Up, ReportInv
  <2> QED  BY <2>1, <2>2, <2>3, <2>4, <2>5 DEF ReportInv
<1>3. CASE Launch
  <2>1. run' = run + 1 /\ run \in Nat /\ disk' = disk /\ disk \in [Files -> Nat]
    BY <1>3 DEF Launch, ReportInv, TrackingTypeOK
  <2>2. TrackingTypeOK'
    <3>1. begun' \in BOOLEAN
      BY <1>3, Zenon DEF Launch
    <3>2. run' \in 0 .. MaxRuns
      BY <1>3, <2>1 DEF Launch
    <3> QED  BY <1>3, <3>1, <3>2 DEF Launch, ReportInv, TrackingTypeOK
  <2>3. Ended'
    BY <1>3, Zenon DEF Launch, Ended
  <2>4. \A f \in Files : disk'[f] < run'
    BY <2>1 DEF ReportInv, Replaced
  <2>5. Replaced'
    BY <1>3, <2>1, <2>4 DEF Launch, Replaced
  <2> QED  BY <2>1, <2>2, <2>3, <2>5 DEF ReportInv
<1>4. CASE Hold("held") \/ Hold("completed")
  BY <1>4, FinishReports DEF Hold, Up
<1>5. CASE Close
  BY <1>5, FinishReports DEF Close
<1>6. ASSUME NEW f \in Files, ReplaceFile(f) PROVE ReportInv'
  BY <1>6, FileReports
<1>7. CASE WriteFails
  <2>1. TrackingTypeOK'
    BY <1>7 DEF WriteFails, ReportInv, TrackingTypeOK
  <2>2. Ended'
    BY <1>7 DEF WriteFails, ReportInv, Ended, Up
  <2>3. Replaced'
    BY <1>7 DEF WriteFails, ReportInv, Replaced
  <2> QED  BY <1>7, <2>1, <2>2, <2>3 DEF WriteFails, ReportInv
<1>8. UNCHANGED vars => UNCHANGED tracking
  BY DEF vars
<1>9. CASE Controls /\ UNCHANGED server
  BY <1>1, <1>2, <1>4, <1>9 DEF Controls, HoldAgain
<1>10. CASE ControllerNext /\ UNCHANGED <<plant, server>>
  BY <1>3, <1>5, <1>6, <1>7, <1>10 DEF ControllerNext
<1>11. ASSUME NEW p \in 1 .. MaxPlans, ServeStart(p) PROVE ReportInv'
  BY <1>2, <1>11 DEF ServeStart
<1>12. CASE ServeRandomize
  BY <1>1, <1>12 DEF ServeRandomize
<1>13. CASE ControllerEnds
  BY <1>2, <1>13 DEF ControllerEnds
<1> QED  BY <1>1, <1>8, <1>9, <1>10, <1>11, <1>12, <1>13 DEF Next

\* Wherever a controller dies, what its files say of each other is true, and one
\* that ends by itself has reported its run or failed to: write_tracking_bundle,
\* TrackingRun.close.
THEOREM WholeReports == Spec => []ReportsAreWhole
<1>1. ReportInv => ReportsAreWhole
  BY DEF ReportInv, ReportsAreWhole, Ended, Replaced, TrackingTypeOK
<1> QED  BY <1>1, ReportInit, ReportStep, PTL DEF Spec

(***************************************************************************)
(* Who is where                                                            *)
(***************************************************************************)

Handing == {"replay", "settle", "notify", "waits"}

\* One tick at a time, one execution at a time, and a plan where one is needed.
Placed ==
  /\ \A t \in Calls : at[t] \in Executing \cup {"idle", "asks"}
  /\ \A t, u \in Ticks : at[t] # "idle" /\ at[u] # "idle" => t = u
  /\ \A t, u \in Threads : at[t] \in Executing /\ at[u] \in Executing => t = u
  /\ \A t \in Threads : at[t] \in Handing => planned > 0

LEMMA MovePlaced ==
  ASSUME ServerTypeOK, Placed, NEW t \in Threads, NEW to \in Places,
         at' = [at EXCEPT ![t] = to],
         t \in Calls => to \in Executing \cup {"idle", "asks"},
         at[t] # "idle" \/ to = "idle" \/ NoTick \/ t \in Calls,
         at[t] \in Executing \/ to \notin Executing \/ Free,
         planned' \in Nat, planned' >= planned,
         to \in Handing => planned' > 0
  PROVE  Placed'
<1>1. at \in [Threads -> Places] /\ planned \in Nat
  BY DEF ServerTypeOK
<1>2. at'[t] = to /\ \A u \in Threads \ {t} : at'[u] = at[u]
  BY <1>1
<1>3. \A u \in Calls : at'[u] \in Executing \cup {"idle", "asks"}
  BY <1>2 DEF Placed, Threads
<1>4. \A u, v \in Ticks : at'[u] # "idle" /\ at'[v] # "idle" => u = v
  <2>1. CASE t \in Calls
    BY <1>2, <2>1 DEF Placed, Threads
  <2>2. CASE at[t] # "idle" \/ to = "idle" \/ NoTick
    BY <1>2, <2>2 DEF Placed, Threads, NoTick
  <2> QED  BY <2>1, <2>2
<1>5. \A u, v \in Threads : at'[u] \in Executing /\ at'[v] \in Executing => u = v
  BY <1>2 DEF Placed, Free
<1>6. \A u \in Threads : at'[u] \in Handing => planned' > 0
  BY <1>1, <1>2 DEF Placed
<1> QED  BY <1>3, <1>4, <1>5, <1>6 DEF Placed

(***************************************************************************)
(* What the loop counts                                                    *)
(***************************************************************************)

Tried == Executing \cup {"asks"}

\* The same as AttemptsAreItsOwn, by thread; and a call to randomize is for a
\* failure of its own.
Counting ==
  /\ \A t \in Ticks : at[t] \in Tried => attempts = failed + 1 /\ ~done
  /\ (\A t \in Ticks : at[t] \notin Tried) =>
       attempts = failed + IF succeeded THEN 1 ELSE 0
  /\ \A t \in Ticks : at[t] = "resample" => randoms < failed
  /\ randoms <= failed
  /\ succeeded => done
  /\ done => NoTick /\ (succeeded \/ failed = MaxAttempts)
  /\ ~done => failed < MaxAttempts

\* It, while a tick is at work.
CountingOf(place) ==
  /\ place \in Tried => attempts = failed + 1 /\ ~done
  /\ place \notin Tried => attempts = failed + IF succeeded THEN 1 ELSE 0
  /\ place = "resample" => randoms < failed
  /\ randoms <= failed
  /\ succeeded => done
  /\ done => place = "idle" /\ (succeeded \/ failed = MaxAttempts)
  /\ ~done => failed < MaxAttempts

\* The other ticks are idle while one is at work.
LEMMA Alone ==
  ASSUME Placed, Counting, NEW t \in Ticks, at[t] # "idle" \/ NoTick
  PROVE  CountingOf(at[t]) /\ \A u \in Ticks \ {t} : at[u] = "idle"
<1>1. \A u \in Ticks \ {t} : at[u] = "idle"
  BY DEF Placed, NoTick
<1>2. at[t] \notin Tried => \A u \in Ticks : at[u] \notin Tried
  BY <1>1 DEF Tried, Executing
<1> QED  BY <1>1, <1>2 DEF Counting, CountingOf, NoTick

\* So it is enough to look at that one.
LEMMA Together ==
  ASSUME NEW t \in Ticks, NEW to, CountingOf(to)', at \in [Threads -> Places],
         \A u \in Ticks \ {t} : at[u] = "idle", at' = [at EXCEPT ![t] = to]
  PROVE  Counting'
<1>1. at'[t] = to /\ \A u \in Ticks \ {t} : at'[u] = "idle"
  BY DEF Threads
<1>2. to = "idle" => NoTick'
  BY <1>1 DEF NoTick
<1>3. \A u \in Ticks \ {t} : at'[u] \notin Tried /\ at'[u] # "resample"
  BY <1>1 DEF Tried, Executing
<1> QED  BY <1>1, <1>2, <1>3 DEF Counting, CountingOf

\* A call of the service does not touch the loop.
LEMMA CallsDoNotCount ==
  ASSUME ServerTypeOK, Counting, NEW t \in Calls, NEW to,
         at' = [at EXCEPT ![t] = to], UNCHANGED <<loop, randoms>>
  PROVE  Counting'
<1>1. \A u \in Ticks : at'[u] = at[u]
  BY DEF ServerTypeOK, Threads
<1>2. NoTick' <=> NoTick
  BY <1>1 DEF NoTick
<1> QED  BY <1>1, <1>2 DEF Counting, loop

\* Each failure is an attempt's own, and so is the success.
LEMMA CountingSuffices == Counting => AttemptsAreItsOwn
<1> SUFFICES ASSUME Counting PROVE AttemptsAreItsOwn
  OBVIOUS
<1>1. CASE UnderWay
  BY <1>1 DEF Counting, AttemptsAreItsOwn, UnderWay, Tried
<1>2. CASE ~UnderWay
  BY <1>2 DEF Counting, AttemptsAreItsOwn, UnderWay, Tried
<1> QED  BY <1>1, <1>2
(***************************************************************************)
(* What a settled plant is                                                 *)
(***************************************************************************)

\* A plant at the goal of a plan stays there until another command comes; what
\* the replay has left behind is too little for half a second; and while a plan
\* is handed over nobody but the controller commands the plant.
Settling ==
  /\ stands # 0 => stands = heads
  /\ tail > 0 => good + tail <= Leftover
  /\ \A t \in Threads : at[t] = "settle" => good < Needed
  /\ \A t \in Threads : at[t] \in {"settle", "notify", "waits"} =>
       inbox \subseteq {planned, 0}
  /\ \A t \in Threads : at[t] \in {"notify", "waits"} /\ ~moved => stands = planned

HandoverInv ==
  PlantTypeOK /\ ServerTypeOK /\ Placed /\ Counting /\ Settling

LEMMA HandoverInit == Init => HandoverInv
<1> SUFFICES ASSUME Init PROVE HandoverInv
  OBVIOUS
<1> USE DEF Init, PlantInit, ServerInit
<1>1. at \in [Threads -> Places] /\ \A t \in Threads : at[t] = "idle"
  BY DEF Places
<1>2. PlantTypeOK
  <2>1. moved \in BOOLEAN
    BY Zenon
  <2> QED  BY <2>1 DEF PlantTypeOK, Poses
<1>3. ServerTypeOK
  <2>1. done \in BOOLEAN /\ succeeded \in BOOLEAN
    BY Zenon
  <2> QED  BY <1>1, <2>1 DEF ServerTypeOK
<1>4. Placed
  BY <1>1 DEF Placed, Threads, Executing, Handing
<1>5. Counting
  BY <1>1 DEF Counting, Threads, Executing, Tried, NoTick
<1>6. Settling
  BY <1>1 DEF Settling
<1> QED  BY <1>2, <1>3, <1>4, <1>5, <1>6 DEF HandoverInv

\* A step that leaves the server alone.
LEMMA PlantMoves ==
  ASSUME HandoverInv, UNCHANGED server,
         \/ OnCommand \/ LoseCommand \/ Arrive \/ UNCHANGED plant
         \/ Publish(0) /\ UNCHANGED <<stands, heads, moved>>
  PROVE  HandoverInv'
<1> USE DEF HandoverInv
<1>1. ServerTypeOK' /\ Placed' /\ Counting'
  BY DEF server, ServerTypeOK, Placed, Counting, Threads, NoTick
<1>2. PlantTypeOK'
  <2>1. CASE OnCommand
    <3>1. moved' \in BOOLEAN
      BY <2>1, Zenon DEF OnCommand, PlantTypeOK
    <3> QED  BY <2>1, <3>1 DEF OnCommand, PlantTypeOK, Poses
  <2>2. CASE ~OnCommand
    BY <2>2 DEF LoseCommand, Arrive, Publish, plant, PlantTypeOK, Poses
  <2> QED  BY <2>1, <2>2
<1>3. UNCHANGED <<at, planned, tail, good>>
  BY DEF server
<1>4. stands' # 0 => stands' = heads'
  BY DEF OnCommand, LoseCommand, Arrive, Publish, plant, Settling
<1>5. \A t \in Threads : at[t] \in {"settle", "notify", "waits"} =>
        inbox' \subseteq {planned, 0}
  BY DEF OnCommand, LoseCommand, Arrive, Publish, plant, Settling
<1>6. ASSUME NEW t \in Threads, at[t] \in {"notify", "waits"}, ~moved'
      PROVE  stands' = planned
  <2>1. planned > 0
    BY <1>6 DEF Placed, Handing
  <2>2. CASE OnCommand
    <3>1. ~moved /\ inbox # {0}
      BY <1>6, <2>2, Zenon DEF OnCommand
    <3>2. stands = planned /\ stands # 0
      BY <1>6, <2>1, <3>1 DEF Settling
    <3>3. \A p \in inbox : p = planned
      BY <1>6, <3>1 DEF Settling, PlantTypeOK
    <3> QED  BY <2>2, <3>2, <3>3 DEF OnCommand
  <2>3. CASE ~OnCommand
    <3>1. ~moved /\ stands = planned /\ stands = heads
      BY <1>6, <2>1, <2>3 DEF LoseCommand, Arrive, Publish, plant, Settling
    <3> QED  BY <2>3, <3>1 DEF LoseCommand, Arrive, Publish, plant
  <2> QED  BY <2>2, <2>3
<1>7. Settling'
  BY <1>3, <1>4, <1>5, <1>6 DEF Settling
<1> QED  BY <1>1, <1>2, <1>7

LEMMA Served ==
  ASSUME HandoverInv, ServeRandomize \/ (starts' \subseteq starts
           /\ UNCHANGED <<plant, at, loop, planned, tail, good, randoms>>)
  PROVE  HandoverInv'
<1> USE DEF HandoverInv
<1>1. UNCHANGED <<at, attempts, done, failed, succeeded, planned, tail, good, inbox>>
      /\ starts' \subseteq starts
  BY DEF ServeRandomize, Randomize, loop, plant
<1>2. randoms' \in 0 .. MaxAttempts /\ randoms' <= randoms
  BY DEF ServeRandomize, ServerTypeOK
<1>3. ServerTypeOK' /\ Placed'
  BY <1>1, <1>2 DEF ServerTypeOK, Placed
<1>4. Counting'
  BY <1>1, <1>2 DEF Counting, NoTick, ServerTypeOK
<1>5. PlantTypeOK'
  <2>1. moved' \in BOOLEAN
    BY Zenon DEF ServeRandomize, Randomize, plant, PlantTypeOK
  <2> QED  BY <1>1, <2>1 DEF ServeRandomize, Randomize, plant, PlantTypeOK, Poses
<1>6. Settling'
  BY <1>1 DEF ServeRandomize, Randomize, plant, Settling
<1> QED  BY <1>3, <1>4, <1>5, <1>6
\* A callback that moves on, with the plan and the plant as they are.
LEMMA MovesOn ==
  ASSUME HandoverInv, NEW t \in Threads, NEW to \in Places,
         at' = [at EXCEPT ![t] = to],
         t \in Calls => to \in Executing \cup {"idle", "asks"},
         at[t] # "idle" \/ to = "idle" \/ NoTick \/ t \in Calls,
         at[t] \in Executing \/ to \notin Executing \/ Free,
         to \in Handing => at[t] \in Handing,
         to \notin {"settle", "notify"},
         to = "waits" => at[t] = "notify",
         UNCHANGED <<plant, planned, tail, good>>
  PROVE  PlantTypeOK' /\ Placed' /\ Settling' /\ at' \in [Threads -> Places]
<1>1. at \in [Threads -> Places] /\ planned \in Nat
  BY DEF HandoverInv, ServerTypeOK
<1>2. PlantTypeOK'
  BY DEF HandoverInv, PlantTypeOK, plant
<1>3. to \in Handing => planned' > 0
  BY DEF HandoverInv, Placed
<1>4. planned' \in Nat /\ planned' >= planned
  BY <1>1
<1>5. Placed'
  BY <1>3, <1>4, MovePlaced DEF HandoverInv
<1>6. at'[t] = to /\ \A u \in Threads \ {t} : at'[u] = at[u]
  BY <1>1
<1>7. \A u \in Threads :
        /\ at'[u] = "settle" => at[u] = "settle"
        /\ at'[u] \in {"settle", "notify", "waits"} =>
             at[u] \in {"settle", "notify", "waits"}
        /\ at'[u] \in {"notify", "waits"} => at[u] \in {"notify", "waits"}
  BY <1>6
<1>8. Settling'
  BY <1>7 DEF HandoverInv, Settling, plant
<1> QED  BY <1>1, <1>2, <1>5, <1>8

\* The end of an execution.
LEMMA EndsInv ==
  ASSUME HandoverInv, NEW t \in Threads, NEW success \in BOOLEAN,
         at[t] \in Executing, Ends(t, success), UNCHANGED <<plant, starts>>
  PROVE  HandoverInv'
<1> DEFINE to == IF t \in Calls \/ success \/ Exhausted THEN "idle" ELSE "resample"
<1>1. at' = [at EXCEPT ![t] = to] /\ UNCHANGED <<planned, tail, good, randoms>>
  BY DEF Ends
<1>2. to \in {"idle", "resample"} /\ (t \in Calls => to = "idle")
  OBVIOUS
<1>3. PlantTypeOK' /\ Placed' /\ Settling' /\ at' \in [Threads -> Places]
  <2> HIDE DEF to
  <2>1. to \in Places /\ to \notin Executing /\ to \notin Handing
    BY <1>2 DEF Places, Executing, Handing
  <2>2. at[t] # "idle"
    BY DEF Executing
  <2> QED  BY <1>1, <1>2, <2>1, <2>2, MovesOn
<1>4. CASE t \in Calls
  <2>1. UNCHANGED loop
    BY <1>4 DEF Ends
  <2>2. Counting'
    <3> HIDE DEF to
    <3> QED  BY <1>1, <1>4, <2>1, CallsDoNotCount DEF HandoverInv
  <2>3. ServerTypeOK'
    BY <1>1, <1>3, <2>1 DEF HandoverInv, ServerTypeOK, loop
  <2> QED  BY <1>3, <2>2, <2>3 DEF HandoverInv
<1>5. CASE t \notin Calls
  <2>1. t \in Ticks /\ at[t] \in Tried /\ at[t] # "idle"
    BY <1>5 DEF Threads, Tried, Executing
  <2>2. /\ attempts = failed + 1 /\ ~done /\ randoms <= failed
        /\ failed < MaxAttempts
        /\ \A u \in Ticks \ {t} : at[u] = "idle"
    BY <2>1, Alone DEF HandoverInv, CountingOf
  <2>3. /\ attempts' = attempts /\ randoms' = randoms
        /\ (done' <=> success \/ Exhausted)
        /\ failed' = (IF success THEN failed ELSE failed + 1)
        /\ succeeded' = success
    BY <1>1, <1>5 DEF Ends
  <2>4. /\ attempts \in 0 .. MaxAttempts /\ failed \in 0 .. MaxAttempts
        /\ randoms \in 0 .. MaxAttempts
    BY DEF HandoverInv, ServerTypeOK
  <2>5. Counting'
    <3>1. CASE success
      <4>1. to = "idle" /\ done' /\ succeeded' /\ failed' = failed
        BY <2>3, <3>1
      <4>2. CountingOf("idle")'
        BY <2>2, <2>3, <2>4, <4>1 DEF CountingOf, Tried, Executing
      <4> QED  BY <1>1, <2>1, <2>2, <4>1, <4>2, Together DEF HandoverInv, ServerTypeOK
    <3>2. CASE ~success /\ Exhausted
      <4>1. to = "idle" /\ done' /\ ~succeeded' /\ failed' = MaxAttempts
        BY <2>2, <2>3, <2>4, <3>2 DEF Exhausted
      <4>2. CountingOf("idle")'
        BY <2>2, <2>3, <2>4, <3>2, <4>1 DEF CountingOf, Tried, Executing
      <4> QED  BY <1>1, <2>1, <2>2, <4>1, <4>2, Together DEF HandoverInv, ServerTypeOK
    <3>3. CASE ~success /\ ~Exhausted
      <4>1. /\ to = "resample" /\ ~done' /\ ~succeeded' /\ failed' = failed + 1
            /\ failed' < MaxAttempts
        BY <1>5, <2>2, <2>3, <2>4, <3>3 DEF Exhausted
      <4>2. CountingOf("resample")'
        BY <2>2, <2>3, <2>4, <3>3, <4>1 DEF CountingOf, Tried, Executing
      <4> QED  BY <1>1, <2>1, <2>2, <4>1, <4>2, Together DEF HandoverInv, ServerTypeOK
    <3> QED  BY <3>1, <3>2, <3>3
  <2>6. done' \in BOOLEAN /\ succeeded' \in BOOLEAN
    BY <1>5, Zenon DEF Ends, Exhausted
  <2>7. failed' \in 0 .. MaxAttempts
    BY <2>2, <2>3, <2>4
  <2>8. ServerTypeOK'
    BY <1>1, <1>3, <2>3, <2>6, <2>7 DEF HandoverInv, ServerTypeOK
  <2> QED  BY <1>3, <2>5, <2>8 DEF HandoverInv
<1> QED  BY <1>4, <1>5

\* Steps that the loop does not count.
LEMMA ServerMoves ==
  ASSUME HandoverInv, NEW t \in Threads, UNCHANGED plant,
         \/ BeginTick(t) \/ NotReady(t) \/ Call(t) \/ Enter(t) \/ SendStart(t)
         \/ RandomizeEnds(t)
  PROVE  HandoverInv'
<1> USE DEF Moves
<1>1. PICK to \in {"ready", "idle", "asks", "plan", "waits"} :
        at' = [at EXCEPT ![t] = to]
  BY DEF BeginTick, NotReady, Call, Enter, SendStart, RandomizeEnds
<1>2. UNCHANGED <<attempts, done, failed, succeeded, planned, tail, good, randoms>>
  BY DEF BeginTick, NotReady, Call, Enter, SendStart, RandomizeEnds, loop
<1>3. to \in Places
  BY DEF Places, Executing
<1>4. /\ at \in [Threads -> Places]
      /\ t \in Calls => at[t] \in Executing \cup {"idle", "asks"}
      /\ at'[t] = to
  BY <1>1 DEF HandoverInv, ServerTypeOK, Placed
<1>5. PlantTypeOK' /\ Placed' /\ Settling' /\ at' \in [Threads -> Places]
  <2>1. /\ t \in Calls => to \in Executing \cup {"idle", "asks"}
        /\ at[t] # "idle" \/ to = "idle" \/ NoTick \/ t \in Calls
        /\ at[t] \in Executing \/ to \notin Executing \/ Free
        /\ to \in Handing => at[t] \in Handing
        /\ to \notin {"settle", "notify"}
        /\ to = "waits" => at[t] = "notify"
    BY <1>1, <1>4 DEF BeginTick, NotReady, Call, Enter, SendStart, RandomizeEnds,
       Executing, Handing
  <2> QED  BY <1>1, <1>2, <1>3, <2>1, MovesOn
<1>6. Counting'
  <2>1. CASE t \in Calls
    BY <1>1, <1>2, <2>1, CallsDoNotCount DEF HandoverInv, loop
  <2>2. CASE t \in Ticks
    <3>1. at[t] # "idle" \/ NoTick
      BY <2>2 DEF BeginTick, NotReady, Call, Enter, SendStart, RandomizeEnds
    <3>2. CountingOf(at[t]) /\ \A u \in Ticks \ {t} : at[u] = "idle"
      BY <2>2, <3>1, Alone DEF HandoverInv
    <3>3. CountingOf(to)'
      BY <1>2, <1>4, <2>2, <3>2 DEF BeginTick, NotReady, Call, Enter, SendStart,
         RandomizeEnds, CountingOf, Tried, Executing
    <3> QED  BY <1>1, <1>4, <2>2, <3>2, <3>3, Together
  <2> QED  BY <2>1, <2>2 DEF Threads
<1>7. starts' \in SUBSET (1 .. MaxPlans)
  <2>1. CASE SendStart(t)
    <3>1. planned \in 1 .. MaxPlans
      BY <2>1 DEF SendStart, HandoverInv, Placed, Handing, ServerTypeOK
    <3> QED  BY <2>1, <3>1 DEF SendStart, HandoverInv, ServerTypeOK
  <2>2. CASE ~SendStart(t)
    BY <2>2 DEF BeginTick, NotReady, Call, Enter, RandomizeEnds, HandoverInv,
       ServerTypeOK
  <2> QED  BY <2>1, <2>2
<1>8. ServerTypeOK'
  BY <1>2, <1>5, <1>7 DEF HandoverInv, ServerTypeOK
<1> QED  BY <1>5, <1>6, <1>8 DEF HandoverInv

\* An attempt is counted, or given back.
LEMMA AttemptCounted ==
  ASSUME HandoverInv, NEW t \in Threads, UNCHANGED plant,
         CountAttempt(t) \/ AlreadyRunning(t)
  PROVE  HandoverInv'
<1> USE DEF Moves
<1>1. PICK to \in {"idle", "asks"} : at' = [at EXCEPT ![t] = to]
  BY DEF CountAttempt, AlreadyRunning
<1>2. UNCHANGED <<done, failed, succeeded, planned, tail, good, starts, randoms>>
  BY DEF CountAttempt, AlreadyRunning
<1>3. /\ at \in [Threads -> Places] /\ at'[t] = to /\ to \in Places
      /\ at[t] # "idle"
  BY <1>1 DEF HandoverInv, ServerTypeOK, Places, CountAttempt, AlreadyRunning
<1>4. PlantTypeOK' /\ Placed' /\ Settling' /\ at' \in [Threads -> Places]
  <2>1. to \notin Executing /\ to \notin Handing
    BY DEF Executing, Handing
  <2> QED  BY <1>1, <1>2, <1>3, <2>1, MovesOn
<1>5. attempts' \in 0 .. MaxAttempts /\ Counting'
  <2>1. CASE t \in Calls
    <3>1. ~CountAttempt(t)
      BY <2>1 DEF CountAttempt, HandoverInv, Placed, Executing
    <3>2. attempts' = attempts
      BY <2>1, <3>1 DEF AlreadyRunning
    <3> QED  BY <1>1, <1>2, <2>1, <3>2, CallsDoNotCount
             DEF HandoverInv, ServerTypeOK, loop
  <2>2. CASE t \in Ticks
    <3>1. CountingOf(at[t]) /\ \A u \in Ticks \ {t} : at[u] = "idle"
      BY <1>3, <2>2, Alone DEF HandoverInv
    <3>2. attempts \in Nat /\ failed \in Nat
      BY DEF HandoverInv, ServerTypeOK
    <3>3. CASE CountAttempt(t)
      <4>1. at[t] = "ready" /\ to = "asks" /\ attempts' = attempts + 1
        BY <1>3, <3>3 DEF CountAttempt
      <4>2. ~done /\ ~succeeded /\ attempts = failed /\ failed < MaxAttempts
        BY <3>1, <3>2, <4>1 DEF CountingOf, Tried, Executing
      <4>3. CountingOf("asks")'
        BY <1>2, <3>1, <3>2, <4>1, <4>2 DEF CountingOf, Tried
      <4>4. Counting'
        BY <1>1, <1>3, <2>2, <3>1, <4>1, <4>3, Together
      <4> QED  BY <3>2, <4>1, <4>2, <4>4
    <3>4. CASE AlreadyRunning(t)
      <4>1. at[t] = "asks" /\ to = "idle" /\ attempts' = attempts - 1
        BY <1>3, <2>2, <3>4 DEF AlreadyRunning, Uncounted
      <4>2. ~done /\ ~succeeded /\ attempts = failed + 1 /\ failed < MaxAttempts
        BY <3>1, <4>1 DEF CountingOf, Tried
      <4>3. CountingOf("idle")'
        BY <1>2, <3>1, <3>2, <4>1, <4>2 DEF CountingOf, Tried, Executing
      <4>4. Counting'
        BY <1>1, <1>3, <2>2, <3>1, <4>1, <4>3, Together
      <4> QED  BY <3>2, <4>1, <4>2, <4>4
    <3> QED  BY <3>3, <3>4
  <2> QED  BY <2>1, <2>2 DEF Threads
<1>6. ServerTypeOK'
  BY <1>2, <1>4, <1>5 DEF HandoverInv, ServerTypeOK
<1> QED  BY <1>4, <1>5, <1>6 DEF HandoverInv

\* A request to randomize is for the failure the tick has just counted.
LEMMA RandomizeSent ==
  ASSUME HandoverInv, NEW t \in Threads, UNCHANGED plant, SendRandomize(t)
  PROVE  HandoverInv'
<1>1. /\ at[t] = "resample" /\ at' = [at EXCEPT ![t] = "randomizing"]
      /\ randoms' = randoms + 1
      /\ UNCHANGED <<attempts, done, failed, succeeded, planned, tail, good, starts>>
  BY DEF SendRandomize, Moves, loop
<1>2. t \in Ticks /\ at \in [Threads -> Places]
  BY <1>1 DEF HandoverInv, ServerTypeOK, Placed, Executing, Threads
<1>3. PlantTypeOK' /\ Placed' /\ Settling' /\ at' \in [Threads -> Places]
  <2>1. /\ "randomizing" \in Places /\ "randomizing" \notin Executing
        /\ "randomizing" \notin Handing
    BY DEF Places, Executing, Handing
  <2> QED  BY <1>1, <1>2, <2>1, MovesOn
<1>4. CountingOf("resample") /\ \A u \in Ticks \ {t} : at[u] = "idle"
  BY <1>1, <1>2, Alone DEF HandoverInv
<1>5. failed \in 0 .. MaxAttempts /\ randoms \in 0 .. MaxAttempts
  BY DEF HandoverInv, ServerTypeOK
<1>6. Counting'
  <2>1. CountingOf("randomizing")'
    BY <1>1, <1>4, <1>5 DEF CountingOf, Tried, Executing
  <2> QED  BY <1>1, <1>2, <1>4, <2>1, Together
<1>7. randoms' \in 0 .. MaxAttempts
  BY <1>1, <1>4, <1>5 DEF CountingOf
<1>8. ServerTypeOK'
  BY <1>1, <1>3, <1>7 DEF HandoverInv, ServerTypeOK
<1> QED  BY <1>3, <1>6, <1>8 DEF HandoverInv

\* A plan is made, or its replay is over: nobody else hands a plan over.
LEMMA PlanMade ==
  ASSUME HandoverInv, NEW t \in Threads,
         \/ Plan(t) /\ UNCHANGED plant
         \/ ReplayEnds(t)
  PROVE  HandoverInv'
<1>1. PICK to \in {"replay", "settle"} :
        /\ at' = [at EXCEPT ![t] = to]
        /\ to = "replay" <=> at[t] = "plan"
  BY DEF Plan, ReplayEnds, Moves
<1>2. UNCHANGED <<attempts, done, failed, succeeded, starts, randoms, stands, heads,
                  moved>>
  BY DEF Plan, ReplayEnds, loop, plant
<1>3. at \in [Threads -> Places] /\ at[t] \in Executing /\ to \in Executing
  BY <1>1 DEF HandoverInv, ServerTypeOK, Plan, ReplayEnds, Moves, Executing
<1>4. to \in Places /\ at'[t] = to /\ \A u \in Threads \ {t} : at'[u] = at[u]
  BY <1>1, <1>3 DEF Places
<1>5. /\ planned \in Nat /\ planned' \in 0 .. MaxPlans /\ planned' >= planned
      /\ planned' > 0
  BY DEF HandoverInv, ServerTypeOK, Placed, Handing, Plan, ReplayEnds, Moves
<1>6. Placed'
  <2>1. at[t] # "idle"
    BY <1>3 DEF Executing
  <2>2. planned' \in Nat
    BY <1>5
  <2>3. ServerTypeOK /\ Placed
    BY DEF HandoverInv
  <2> QED  BY <1>1, <1>3, <1>4, <1>5, <2>1, <2>2, <2>3, MovePlaced
<1>7. \A u \in Threads \ {t} : at'[u] \notin Executing
  BY <1>3, <1>4 DEF HandoverInv, Placed
<1>8. PlantTypeOK'
  BY <1>2, <1>5 DEF HandoverInv, PlantTypeOK, Plan, ReplayEnds, Publish, plant, Poses
<1>9. tail' \in 0 .. Leftover /\ good' \in 0 .. Needed
      /\ (tail' > 0 => good' + tail' <= Leftover)
  BY DEF HandoverInv, ServerTypeOK, Settling, Plan, ReplayEnds
<1>10. Settling'
  <2>1. \A u \in Threads : at'[u] \notin {"notify", "waits"}
    BY <1>4, <1>7 DEF Executing
  <2>2. \A u \in Threads : at'[u] = "settle" => ReplayEnds(t)
    BY <1>1, <1>4, <1>7 DEF Executing, Plan, ReplayEnds, Moves
  <2>3. ReplayEnds(t) => good' < Needed /\ inbox' = {planned'}
    BY DEF ReplayEnds, Publish
  <2>4. stands' # 0 => stands' = heads'
    BY <1>2 DEF HandoverInv, Settling
  <2> QED  BY <1>9, <2>1, <2>2, <2>3, <2>4 DEF Settling
<1>11. Counting'
  <2>1. CASE t \in Calls
    BY <1>1, <1>2, <2>1, CallsDoNotCount DEF HandoverInv, loop
  <2>2. CASE t \in Ticks
    <3>1. at[t] # "idle"
      BY <1>3 DEF Executing
    <3>2. CountingOf(at[t]) /\ \A u \in Ticks \ {t} : at[u] = "idle"
      BY <2>2, <3>1, Alone DEF HandoverInv
    <3>3. CountingOf(to)'
      BY <1>1, <1>2, <1>3, <3>2 DEF CountingOf, Tried, Executing
    <3> QED  BY <1>1, <1>3, <2>2, <3>2, <3>3, Together
  <2> QED  BY <2>1, <2>2 DEF Threads
<1>12. ServerTypeOK'
  BY <1>1, <1>2, <1>3, <1>4, <1>5, <1>9 DEF HandoverInv, ServerTypeOK
<1> QED  BY <1>6, <1>8, <1>10, <1>11, <1>12 DEF HandoverInv

\* A reading that is one of many, and one that settles the matter: it comes from
\* the plant, since the replay has not left enough for that.
LEMMA ReadingInv ==
  ASSUME HandoverInv, NEW t \in Threads, ReadPlant(t) \/ ReadLeftover(t)
  PROVE  HandoverInv'
<1>1. /\ at[t] = "settle"
      /\ UNCHANGED <<attempts, done, failed, succeeded, planned, starts, randoms,
                     stands, heads, inbox>>
  BY DEF ReadPlant, ReadLeftover, Reading, Moves, loop
<1>2. /\ at \in [Threads -> Places] /\ planned \in 1 .. MaxPlans
      /\ good \in 0 .. Needed /\ good < Needed /\ tail \in 0 .. Leftover
      /\ inbox \subseteq {planned, 0} /\ planned' = planned
  BY <1>1 DEF HandoverInv, ServerTypeOK, Placed, Handing, Settling
<1>3. /\ tail' \in 0 .. Leftover /\ good' \in 0 .. Needed
      /\ (tail' > 0 => good' + tail' <= Leftover)
  BY <1>2 DEF ReadPlant, ReadLeftover, Reading, Stable, HandoverInv, Settling
<1>4. CASE /\ UNCHANGED <<at, moved>>
           /\ good' < Needed
  <2>1. PlantTypeOK' /\ ServerTypeOK' /\ Placed' /\ Counting'
    BY <1>1, <1>3, <1>4 DEF HandoverInv, PlantTypeOK, ServerTypeOK, Placed, Counting,
       NoTick
  <2>2. Settling'
    BY <1>1, <1>3, <1>4 DEF HandoverInv, Settling
  <2> QED  BY <2>1, <2>2 DEF HandoverInv
<1>5. CASE /\ at' = [at EXCEPT ![t] = "notify"] /\ moved' = FALSE
           /\ stands = planned
  <2>1. at'[t] = "notify" /\ \A u \in Threads \ {t} : at'[u] = at[u]
    BY <1>2, <1>5
  <2>2. PlantTypeOK'
    <3>1. moved' \in BOOLEAN
      BY <1>5, Zenon
    <3> QED  BY <1>1, <3>1 DEF HandoverInv, PlantTypeOK
  <2>3. "notify" \in Places /\ "notify" \in Executing /\ at[t] \in Executing
        /\ "notify" # "idle" /\ at[t] # "idle"
    BY <1>1 DEF Places, Executing
  <2>4. Placed'
    <3>1. ServerTypeOK /\ Placed
      BY DEF HandoverInv
    <3>2. planned' \in Nat /\ planned' >= planned /\ planned' > 0
      BY <1>2
    <3> QED  BY <1>5, <2>3, <3>1, <3>2, MovePlaced
  <2>5. at' \in [Threads -> Places]
    BY <1>2, <1>5, <2>3
  <2>6. ServerTypeOK'
    BY <1>1, <1>3, <2>5 DEF HandoverInv, ServerTypeOK
  <2>7. Counting'
    <3>1. CASE t \in Calls
      BY <1>1, <1>5, <3>1, CallsDoNotCount DEF HandoverInv, loop
    <3>2. CASE t \in Ticks
      <4>1. CountingOf(at[t]) /\ \A u \in Ticks \ {t} : at[u] = "idle"
        BY <2>3, <3>2, Alone DEF HandoverInv
      <4>2. CountingOf("notify")'
        BY <1>1, <4>1 DEF CountingOf, Tried, Executing
      <4> QED  BY <1>2, <1>5, <3>2, <4>1, <4>2, Together
    <3> QED  BY <3>1, <3>2 DEF Threads
  <2>8. Settling'
    <3>1. \A u \in Threads \ {t} : at'[u] \notin Executing
      BY <2>1, <2>3 DEF HandoverInv, Placed
    <3>2. \A u \in Threads : at'[u] # "settle"
      BY <2>1, <3>1 DEF Executing
    <3>3. stands' # 0 => stands' = heads'
      BY <1>1 DEF HandoverInv, Settling
    <3> QED  BY <1>1, <1>2, <1>3, <1>5, <3>2, <3>3 DEF Settling
  <2> QED  BY <2>2, <2>4, <2>6, <2>7, <2>8 DEF HandoverInv
<1>6. ASSUME NEW reached \in BOOLEAN, Reading(t, reached),
             reached /\ Stable(good + 1) => stands = planned
      PROVE  HandoverInv'
  <2>1. CASE reached /\ Stable(good + 1)
    BY <1>5, <1>6, <2>1 DEF Reading, Moves
  <2>2. CASE ~(reached /\ Stable(good + 1))
    <3>1. good' < Needed
      BY <1>2, <1>6, <2>2 DEF Reading, Stable
    <3> QED  BY <1>4, <1>6, <2>2, <3>1 DEF Reading
  <2> QED  BY <2>1, <2>2
<1>7. CASE ReadPlant(t)
  <2>1. (stands = planned) \in BOOLEAN
    OBVIOUS
  <2> QED  BY <1>6, <1>7, <2>1 DEF ReadPlant
<1>8. CASE ReadLeftover(t)
  <2>1. ~Stable(good + 1)
    BY <1>2, <1>8 DEF ReadLeftover, Stable, HandoverInv, Settling
  <2> QED  BY <1>6, <1>8, <2>1 DEF ReadLeftover
<1> QED  BY <1>7, <1>8

\* Every step of a callback.
LEMMA ThreadSteps ==
  ASSUME HandoverInv, NEW t \in Threads,
         (ServerStep(t) /\ UNCHANGED <<plant, tracking>>) \/ Replays(t)
  PROVE  HandoverInv'
<1>1. CASE UNCHANGED plant /\ \/ BeginTick(t) \/ NotReady(t) \/ Call(t) \/ Enter(t)
                              \/ SendStart(t) \/ RandomizeEnds(t)
  BY <1>1, ServerMoves
<1>2. CASE UNCHANGED plant /\ (CountAttempt(t) \/ AlreadyRunning(t))
  BY <1>2, AttemptCounted
<1>3. CASE UNCHANGED plant /\ SendRandomize(t)
  BY <1>3, RandomizeSent
<1>4. CASE UNCHANGED plant /\ (Fail(t) \/ Unavailable(t) \/ NotifyEnds(t))
  <2>1. at[t] \in Executing /\ UNCHANGED <<plant, starts>>
    BY <1>4 DEF Fail, Unavailable, NotifyEnds, Executing
  <2>2. Ends(t, FALSE) \/ Ends(t, TRUE)
    BY <1>4, Zenon DEF Fail, Unavailable, NotifyEnds
  <2>3. TRUE \in BOOLEAN /\ FALSE \in BOOLEAN
    BY Zenon
  <2>4. CASE Ends(t, FALSE)
    BY <2>1, <2>3, <2>4, EndsInv
  <2>5. CASE Ends(t, TRUE)
    BY <2>1, <2>3, <2>5, EndsInv
  <2> QED  BY <2>2, <2>4, <2>5
<1>5. CASE UNCHANGED plant /\ Gap(t)
  <2>1. /\ good' = 0
        /\ UNCHANGED <<at, attempts, done, failed, succeeded, planned, tail, starts,
                       randoms, stands, heads, inbox, moved>>
    BY <1>5 DEF Gap, loop, plant
  <2>2. PlantTypeOK' /\ ServerTypeOK' /\ Placed' /\ Counting'
    BY <2>1 DEF HandoverInv, PlantTypeOK, ServerTypeOK, Placed, Counting, NoTick
  <2>3. Settling'
    BY <2>1 DEF HandoverInv, Settling, ServerTypeOK
  <2> QED  BY <2>2, <2>3 DEF HandoverInv
<1>6. CASE Plan(t) /\ UNCHANGED plant
  BY <1>6, PlanMade
<1>7. CASE ReplayEnds(t)
  BY <1>7, PlanMade
<1>8. CASE Replay(t)
  BY <1>8, PlantMoves DEF Replay
<1>9. CASE ReadPlant(t) \/ ReadLeftover(t)
  BY <1>9, ReadingInv
<1>10. CASE ServerStep(t) /\ UNCHANGED <<plant, tracking>>
  <2>1. UNCHANGED plant
    BY <1>10
  <2> QED  BY <1>1, <1>2, <1>3, <1>4, <1>5, <1>6, <1>10, <2>1, Zenon DEF ServerStep
<1>11. CASE Replays(t)
  BY <1>7, <1>8, <1>9, <1>11 DEF Replays
<1> QED  BY <1>10, <1>11

LEMMA HandoverStep == HandoverInv /\ [Next]_vars => HandoverInv'
<1> SUFFICES ASSUME HandoverInv, [Next]_vars PROVE HandoverInv'
  OBVIOUS
<1>1. CASE UNCHANGED vars
  BY <1>1, PlantMoves DEF vars
<1>2. CASE PlantNext /\ UNCHANGED <<tracking, server>>
  BY <1>2, PlantMoves DEF PlantNext
<1>3. CASE Controls /\ UNCHANGED server
  <2>1. /\ Publish(0) \/ UNCHANGED inbox
        /\ UNCHANGED <<stands, heads, moved>>
    BY <1>3 DEF Controls, Step, Hold, HoldAgain
  <2> QED  BY <1>3, <2>1, PlantMoves DEF plant
<1>4. CASE ControllerNext /\ UNCHANGED <<plant, server>>
  BY <1>4, PlantMoves
<1>5. ASSUME NEW p \in 1 .. MaxPlans, ServeStart(p) PROVE HandoverInv'
  BY <1>5, Served DEF ServeStart
<1>6. CASE ServeRandomize
  BY <1>6, Served
<1>7. CASE ControllerEnds
  BY <1>7, Served DEF ControllerEnds
<1>8. ASSUME NEW t \in Threads,
             \/ ServerStep(t) /\ UNCHANGED <<plant, tracking>>
             \/ Replays(t) /\ UNCHANGED tracking
      PROVE  HandoverInv'
  BY <1>8, ThreadSteps
<1> QED  BY <1>1, <1>2, <1>3, <1>4, <1>5, <1>6, <1>7, <1>8 DEF Next

(***************************************************************************)
(* The theorems                                                            *)
(***************************************************************************)

\* Both invariants hold, whatever the bounds.
THEOREM HandoverInvHolds == Spec => [](HandoverInv /\ ReportInv)
BY HandoverInit, HandoverStep, ReportInit, ReportStep, PTL DEF Spec

\* Counters stay in range: no attempt beyond those allowed, no request to
\* randomize without a failure (AutoPlanLoop, TrackingRun, OscbfPlant).
THEOREM HandoverTypeCorrect == Spec => []HandoverTypeOK
<1>1. HandoverInv /\ ReportInv => HandoverTypeOK
  BY DEF HandoverInv, ReportInv, HandoverTypeOK
<1> QED  BY <1>1, HandoverInvHolds, PTL

\* The loop counts its own attempts, and those only: AutoPlanLoop._tick.
THEOREM OwnAttempts == Spec => []AttemptsAreItsOwn
<1>1. HandoverInv => AttemptsAreItsOwn
  BY CountingSuffices DEF HandoverInv
<1> QED  BY <1>1, HandoverInvHolds, PTL

\* Who begins to track for a server that waits for it begins at its goal:
\* _wait_for_plant_settle, notify_oscbf_start.
THEOREM TrackingFromTheGoal == Spec => TracksFromTheGoal
<1>1. ASSUME HandoverInv, NEW p \in starts \ starts',
             \E t \in Threads : at[t] = "waits" /\ p = planned, ~moved
      PROVE  stands = p
  BY <1>1 DEF HandoverInv, Settling
<1>2. HandoverInv => [\A p \in starts \ starts' :
                        /\ state = "waiting" /\ state' = "tracking"
                        /\ \E t \in Threads : at[t] = "waits" /\ p = planned
                        /\ ~moved
                        => stands = p]_vars
  BY <1>1
<1> QED  BY <1>2, HandoverInvHolds, PTL DEF TracksFromTheGoal
=============================================================================
