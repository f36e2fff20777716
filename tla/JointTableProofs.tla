--------------------------- MODULE JointTableProofs ---------------------------
(***************************************************************************)
(* Proofs about the programs that move the joints, for any number of them,  *)
(* of joints, of rows and of lines: who has the port open works alone, what  *)
(* it knows of the drives is so, and the stops it leaves are its own.        *)
(***************************************************************************)
EXTENDS JointTable, FiniteSetTheorems, WellFoundedInduction, TLAPS

(***************************************************************************)
(* The group, and the next of its joints                                   *)
(***************************************************************************)

\* Joints are numbers, so there is a first one in every part of them.
LEMMA First ==
  ASSUME NEW T \in SUBSET Joints, T # {}
  PROVE  Min(T) \in T
<1>1. T \subseteq Nat
  BY LinkAssumption
<1>2. \E x \in T : \A y \in T : <<y, x>> \notin OpToRel(<, Nat)
  BY <1>1, NatLessThanWellFounded, WFMin, Zenon
<1>3. PICK x \in T : \A y \in T : <<y, x>> \notin OpToRel(<, Nat)
  BY <1>2
<1>4. ASSUME NEW y \in T  PROVE x <= y
  <2>1. x \in Nat /\ y \in Nat /\ <<y, x>> \in Nat \X Nat
    BY <1>1
  <2>2. ~(y < x)
    <3>1. y < x => <<y, x>> \in {pair \in Nat \X Nat : pair[1] < pair[2]}
      BY <2>1
    <3> QED  BY <3>1, <1>3 DEF OpToRel
  <2> QED  BY <2>1, <2>2
<1> QED
  BY <1>3, <1>4 DEF Min

LEMMA Groups ==
  ASSUME NEW s \in Sessions
  PROVE  Group(s) \subseteq Joints /\ Group(s) # {}
BY First, LinkAssumption DEF Group

\* The last joint of a loop is the one it is at.
LEMMA Last ==
  ASSUME NEW T \in SUBSET Joints, T # {}
  PROVE  IF Cardinality(T) = 1 THEN T = {Min(T)} ELSE T \ {Min(T)} # {}
<1>1. IsFiniteSet(T) /\ Min(T) \in T
  BY First, LinkAssumption, FS_Subset
<1>2. CASE Cardinality(T) = 1
  BY <1>1, <1>2, FS_Singleton
<1>3. CASE Cardinality(T) # 1
  <2>1. T # {Min(T)}
    BY <1>3, FS_Singleton
  <2> QED  BY <1>1, <1>3, <2>1
<1> QED  BY <1>2, <1>3

(***************************************************************************)
(* Types                                                                   *)
(***************************************************************************)

\* The parts of an action that leave everything else alone.
LEMMA StopTypes ==
  ASSUME StopsTypeOK, NEW s \in Sessions, NEW stop \in Stops,
         NEW request \in Requests,
         \/ UNCHANGED stops
         \/ TripStop(s)
         \/ TripAttended(s)
         \/ Consume(request)
         \/ AcknowledgeStop(stop)
  PROVE  StopsTypeOK'
<1>1. s \in Stops
  BY DEF Stops
<1> QED
  BY <1>1 DEF StopsTypeOK, stops, TripStop, TripAttended, Consume,
     AcknowledgeStop, Tripped

\* What a drive may be told.
LEMMA GoalTypes ==
  /\ Rest \in Goals /\ Held \in Goals
  /\ ExecutorTypeOK => Target \in Goals \ {Rest, Held}
<1>1. Rest \in Goals /\ Held \in Goals
  BY DEF Goals
<1>2. Zero \in Goals \ {Rest, Held}
  BY DEF Goals, Zero, Rest, Held
<1>3. \A i \in 1 .. Rows : Row(i) \in Goals \ {Rest, Held}
  BY DEF Goals, Row, Rest, Held
<1>4. ExecutorTypeOK => Target \in Goals \ {Rest, Held}
  BY <1>2, <1>3 DEF ExecutorTypeOK, Target
<1> QED  BY <1>1, <1>4

\* One more reading in a row, two at most.
LEMMA OneMore ==
  ASSUME NEW n \in 0 .. 2
  PROVE  Min({2, n + 1}) = IF n = 0 THEN 1 ELSE 2
<1>1. \E x \in {2, n + 1} : \A y \in {2, n + 1} : x <= y
  BY SMT
<1>2. /\ Min({2, n + 1}) \in {2, n + 1}
      /\ \A y \in {2, n + 1} : Min({2, n + 1}) <= y
  BY <1>1 DEF Min
<1> QED  BY <1>2

LEMMA PartTypes ==
  ASSUME LinkTypeOK, NEW group \in SUBSET Joints
  PROVE  NextOf(group) \in SUBSET Joints
BY DEF LinkTypeOK, NextOf

LEMMA ReadTypes ==
  ASSUME LinkTypeOK, NEW group \in SUBSET Joints, ReadNext(group)
  PROVE  LinkTypeOK'
<1>1. seen' \in [Joints -> 0 .. 2]
  <2>1. \A j \in Joints : seen[j] \in 0 .. 2
    BY DEF LinkTypeOK
  <2>2. \A j \in Joints : Min({2, seen[j] + 1}) \in 0 .. 2
    BY <2>1, OneMore
  <2>3. seen' = [seen EXCEPT ![Min(todo)] =
                   IF Min(todo) \notin still THEN 0
                   ELSE Min({2, seen[Min(todo)] + 1})]
    BY DEF ReadNext
  <2> DEFINE m == Min(todo)
             v == IF m \notin still THEN 0 ELSE Min({2, seen[m] + 1})
  <2>4. m \in Joints => v \in 0 .. 2
    BY <2>2
  <2>5. seen' = [seen EXCEPT ![m] = v]
    BY <2>3
  <2> HIDE DEF m, v
  <2> QED  BY <2>4, <2>5 DEF LinkTypeOK
<1>2. todo' \in SUBSET Joints
  BY PartTypes DEF ReadNext
<1> QED
  BY <1>1, <1>2 DEF LinkTypeOK, ReadNext, drives

LEMMA ToldTypes ==
  ASSUME LinkTypeOK, NEW j, NEW what \in Goals, Told(j, what)
  PROVE  /\ goal' \in [Joints -> Goals]
         /\ still' \in SUBSET Joints
         /\ seen' \in [Joints -> 0 .. 2]
<1>1. goal' \in [Joints -> Goals]
  BY DEF LinkTypeOK, Told
<1>2. still' \in SUBSET Joints
  <2>1. still' = still \/ still' = still \ {j}
    BY DEF Told
  <2> QED  BY <2>1 DEF LinkTypeOK
<1>3. seen' \in [Joints -> 0 .. 2]
  <2>1. seen' = [seen EXCEPT ![j] = 0]
    BY DEF Told
  <2>2. seen \in [Joints -> 0 .. 2] /\ 0 \in 0 .. 2
    BY DEF LinkTypeOK
  <2> QED  BY <2>1, <2>2
<1> QED  BY <1>1, <1>2, <1>3

LEMMA CommandTypes ==
  ASSUME LinkTypeOK, NEW group \in SUBSET Joints, NEW what \in Goals,
         Command(what, group) \/ CommandRaises(what)
  PROVE  LinkTypeOK'
<1>1. todo' \in SUBSET Joints
  BY PartTypes DEF Command, CommandRaises, LinkTypeOK
<1>2. /\ goal' \in [Joints -> Goals]
      /\ still' \in SUBSET Joints
      /\ seen' \in [Joints -> 0 .. 2]
  BY ToldTypes DEF Command, CommandRaises, LinkTypeOK, drives
<1>3. broken' \in BOOLEAN /\ attempted' \in BOOLEAN
  BY Zenon DEF Command, CommandRaises, LinkTypeOK, Counts
<1>4. owner' \in Sessions \cup {"nobody"}
  BY DEF Command, CommandRaises, LinkTypeOK
<1> QED  BY <1>1, <1>2, <1>3, <1>4 DEF LinkTypeOK

LEMMA ForgetTypes ==
  ASSUME LinkTypeOK, ForgetLink
  PROVE  LinkTypeOK'
<1>1. Untold \in [Joints -> Goals] /\ Unread \in [Joints -> 0 .. 2]
  BY GoalTypes DEF Untold, Unread
<1>2. broken' \in BOOLEAN /\ attempted' \in BOOLEAN
  BY Zenon DEF ForgetLink
<1> QED  BY <1>1, <1>2 DEF LinkTypeOK, ForgetLink

\* The executor and the terminal, apart.
PositionTypeOK ==
  /\ phase \in Phases
  /\ index \in 1 .. Rows
  /\ settled \in BOOLEAN
  /\ returning \in BOOLEAN

TerminalTypeOK ==
  /\ typed \in SUBSET (Keys \X Prompts)
  /\ prompted \in Prompts
  /\ started \in BOOLEAN
  /\ immediate \in BOOLEAN

LEMMA ExecutorParts ==
  /\ ExecutorTypeOK <=> PositionTypeOK /\ report \in Reports /\ TerminalTypeOK
  /\ ExecutorTypeOK' <=>
       PositionTypeOK' /\ report' \in Reports /\ TerminalTypeOK'
BY Zenon DEF ExecutorTypeOK, PositionTypeOK, TerminalTypeOK

LEMMA LeaveTypes ==
  ASSUME NEW as \in Phases, Leave(as)
  PROVE  PositionTypeOK' /\ TerminalTypeOK'
<1>1. settled' \in BOOLEAN /\ returning' \in BOOLEAN /\ started' \in BOOLEAN
      /\ immediate' \in BOOLEAN
  BY Zenon DEF Leave
<1>2. index' \in 1 .. Rows
  BY LinkAssumption DEF Leave
<1>3. typed' \in SUBSET (Keys \X Prompts) /\ prompted' \in Prompts
  BY DEF Leave, Prompts
<1>4. phase' \in Phases
  BY DEF Leave
<1> QED  BY <1>1, <1>2, <1>3, <1>4 DEF PositionTypeOK, TerminalTypeOK

LEMMA PhaseTypes ==
  /\ Stopped \subseteq Phases
  /\ {"initializing", "moving", "awaiting_measurement", "completed",
      "positioning_completed", "aborted"} \subseteq Phases
BY DEF Phases, Stopped

LEMMA ArrivedTypes ==
  ASSUME PositionTypeOK, NEW m, Arrived(m)
  PROVE  phase' \in Phases
BY PhaseTypes DEF Arrived, PositionTypeOK, Stopped

LEMMA ObserveTypes ==
  ASSUME PositionTypeOK, NEW group, NEW m, Observe(group, m)
  PROVE  PositionTypeOK'
<1>1. settled' \in BOOLEAN /\ returning' \in BOOLEAN
  BY Zenon DEF Observe, PositionTypeOK
<1>2. phase' \in Phases
  BY ArrivedTypes DEF Observe, PositionTypeOK
<1>3. index' \in 1 .. Rows
  BY DEF Observe, PositionTypeOK
<1> QED  BY <1>1, <1>2, <1>3 DEF PositionTypeOK

LEMMA BeginTypes ==
  ASSUME NEW row \in 1 .. Rows, NEW zero \in BOOLEAN, BeginMotion(row, zero)
  PROVE  PositionTypeOK'
<1>1. settled' \in BOOLEAN /\ returning' \in BOOLEAN
  BY Zenon DEF BeginMotion, StartsOver
<1>2. phase' \in Phases /\ index' \in 1 .. Rows
  BY PhaseTypes DEF BeginMotion
<1> QED  BY <1>1, <1>2 DEF PositionTypeOK

LEMMA ReadsTypes ==
  ASSUME PositionTypeOK, TerminalTypeOK, Reads, started' \in BOOLEAN
  PROVE  TerminalTypeOK'
<1>1. typed' \in SUBSET (Keys \X Prompts)
  BY DEF Reads
<1>2. Prompting => Asked \in Prompts
  BY DEF Prompting, Asked, Prompts, PositionTypeOK
<1>3. prompted' \in Prompts
  BY <1>2 DEF Reads, TerminalTypeOK
<1>4. immediate' \in BOOLEAN
  BY Zenon DEF Reads, TerminalTypeOK
<1> QED  BY <1>1, <1>3, <1>4, Zenon DEF TerminalTypeOK

LEMMA OperatorTypes ==
  ASSUME ExecutorTypeOK,
         \/ FinishPositioning \/ StayPut
         \/ StartItself \/ ReturnToZero \/ StartGroup
  PROVE  ExecutorTypeOK'
<1>0. PositionTypeOK /\ TerminalTypeOK /\ report \in Reports
  BY ExecutorParts
<1>1. CASE FinishPositioning
  <2>1. phase' \in Phases /\ index' \in 1 .. Rows
    BY <1>0, <1>1, PhaseTypes DEF FinishPositioning, PositionTypeOK
  <2>2. settled' \in BOOLEAN /\ returning' \in BOOLEAN /\ started' \in BOOLEAN
    BY <1>0, <1>1, Zenon DEF FinishPositioning, PositionTypeOK, TerminalTypeOK
  <2>3. TerminalTypeOK'
    BY <1>0, <1>1, <2>2, ReadsTypes DEF FinishPositioning
  <2>4. report' \in Reports
    BY <1>1 DEF FinishPositioning, Reports
  <2>5. PositionTypeOK'
    BY <2>1, <2>2 DEF PositionTypeOK
  <2> QED  BY <2>3, <2>4, <2>5, ExecutorParts
<1>2. CASE StayPut
  <2>1. UNCHANGED <<phase, index, settled, returning, report, started>>
    BY <1>2 DEF StayPut, executor, position
  <2>2. PositionTypeOK' /\ report' \in Reports
    BY <1>0, <2>1, Zenon DEF PositionTypeOK
  <2>3. started' \in BOOLEAN
    BY <1>0, <2>1, Zenon DEF TerminalTypeOK
  <2>4. TerminalTypeOK'
    BY <1>0, <1>2, <2>3, ReadsTypes DEF StayPut, Obeys
  <2> QED  BY <2>2, <2>4, ExecutorParts
<1>3. CASE StartItself \/ ReturnToZero \/ StartGroup
  <2>1. Reads
    BY <1>3 DEF StartItself, ReturnToZero, StartGroup, Obeys
  <2>2. started' \in BOOLEAN
    BY <1>0, <1>3, Zenon DEF StartItself, ReturnToZero, StartGroup,
       TerminalTypeOK
  <2>3. TerminalTypeOK'
    BY <1>0, <2>1, <2>2, ReadsTypes
  <2>4. PICK row \in 1 .. Rows, zero \in BOOLEAN : BeginMotion(row, zero)
    <3>1. index \in 1 .. Rows /\ (index < Rows => index + 1 \in 1 .. Rows)
      BY <1>0, LinkAssumption DEF PositionTypeOK
    <3> QED  BY <1>3, <3>1 DEF StartItself, ReturnToZero, StartGroup
  <2>5. PositionTypeOK'
    BY <2>4, BeginTypes
  <2>6. report' \in Reports
    BY <1>0, <2>4 DEF BeginMotion
  <2> QED  BY <2>3, <2>5, <2>6, ExecutorParts
<1> QED  BY <1>1, <1>2, <1>3

LEMMA TypeTypes ==
  ASSUME TerminalTypeOK, NEW key \in Keys, Type(key)
  PROVE  TerminalTypeOK'
<1>1. typed' \in SUBSET (Keys \X Prompts) /\ prompted' \in Prompts
  BY DEF Type, TerminalTypeOK
<1>2. started' \in BOOLEAN /\ immediate' \in BOOLEAN
  BY Zenon DEF Type, TerminalTypeOK
<1> QED  BY <1>1, <1>2 DEF TerminalTypeOK

ProgramTypeOK ==
  /\ at \in [Sessions -> Places]
  /\ mode \in [Sessions -> Modes]
  /\ reviewed \in [Sessions -> Stops]
  /\ number \in [Sessions -> 1 .. MaxRequests]
  /\ cleared \in SUBSET Sessions
  /\ cut \in SUBSET Sessions

LEMMA Parts ==
  /\ JointTypeOK <=>
       StopsTypeOK /\ LinkTypeOK /\ ExecutorTypeOK /\ ProgramTypeOK
  /\ JointTypeOK' <=>
       StopsTypeOK' /\ LinkTypeOK' /\ ExecutorTypeOK' /\ ProgramTypeOK'
BY DEF JointTypeOK, ProgramTypeOK

\* A program steps.
Works(s) == Enters(s) \/ Tries(s) \/ Handles(s) \/ Ends(s)

LEMMA Framed ==
  /\ StopsTypeOK /\ UNCHANGED stops => StopsTypeOK'
  /\ LinkTypeOK /\ UNCHANGED link => LinkTypeOK'
  /\ ExecutorTypeOK /\ UNCHANGED <<executor, terminal>> => ExecutorTypeOK'
  /\ ProgramTypeOK /\ UNCHANGED programs => ProgramTypeOK'
<1>1. StopsTypeOK /\ UNCHANGED stops => StopsTypeOK'
  BY DEF StopsTypeOK, stops
<1>2. LinkTypeOK /\ UNCHANGED link => LinkTypeOK'
  BY Zenon DEF LinkTypeOK, link, drives, knowledge
<1>3. ExecutorTypeOK /\ UNCHANGED <<executor, terminal>> => ExecutorTypeOK'
  BY Zenon DEF ExecutorTypeOK, executor, position, terminal
<1>4. ProgramTypeOK /\ UNCHANGED programs => ProgramTypeOK'
  BY DEF ProgramTypeOK, programs
<1> QED  BY <1>1, <1>2, <1>3, <1>4

LEMMA StopsSteps ==
  ASSUME JointTypeOK, NEW s \in Sessions, Works(s)
  PROVE  /\ StopsTypeOK'
         /\ \/ UNCHANGED stops
            \/ TripStop(s) /\ at[s] \in {"relatch", "trip", "late_trip"}
            \/ TripAttended(s) /\ at[s] = "trip"
            \/ UseRequest(s)
            \/ Recover(s)
<1>1. \/ UNCHANGED stops
      \/ TripStop(s) /\ at[s] \in {"relatch", "trip", "late_trip"}
      \/ TripAttended(s) /\ at[s] = "trip"
      \/ UseRequest(s)
      \/ Recover(s)
  <2>1. CASE Enters(s)
    BY <2>1 DEF Enters, Start, CheckScope, TurnedAway, Open, CannotOpen, stops
  <2>2. CASE Tries(s)
    BY <2>2 DEF Tries, Prepare, Loop, ReadCycle, ObserveCycle, OperatorStep,
       CheckAgain, Begin, PoseReached, Relatch, Wait, SendNext, SendRaises,
       LoopEnds, Raises, OperatorStops, Moves, stops
  <2>3. CASE Handles(s)
    BY <2>3 DEF Handles, NothingSent, Untrusted, Hold, HoldRead, HoldSend,
       HoldWatch, HoldObserved, HoldFails, HoldRaises, Trip, HandlerCut,
       Reported, Moves, stops
  <2>4. CASE Ends(s)
    BY <2>4 DEF Ends, Close, LateTrip, Killed, stops
  <2> QED  BY <2>1, <2>2, <2>3, <2>4 DEF Works
<1>2. reviewed[s] \in Stops /\ Request(s) \in Requests
  BY DEF JointTypeOK, Request, Requests
<1>3. \/ UNCHANGED stops \/ TripStop(s) \/ TripAttended(s)
      \/ Consume(Request(s)) \/ AcknowledgeStop(reviewed[s])
  BY <1>1 DEF UseRequest, Recover
<1> QED  BY <1>1, <1>2, <1>3, StopTypes DEF JointTypeOK

\* Nothing else of the link changes.
LEMMA BrokenTypes ==
  ASSUME LinkTypeOK, broken' \in BOOLEAN, UNCHANGED <<owner, drives>>,
         todo' \in SUBSET Joints, seen' \in [Joints -> 0 .. 2],
         UNCHANGED attempted
  PROVE  LinkTypeOK'
BY Zenon DEF LinkTypeOK, drives

LEMMA LinkSteps ==
  ASSUME JointTypeOK, NEW s \in Sessions, Works(s)
  PROVE  LinkTypeOK'
<1>0. /\ LinkTypeOK /\ ExecutorTypeOK
      /\ Group(s) \in SUBSET Joints
      /\ Unread \in [Joints -> 0 .. 2]
      /\ seen \in [Joints -> 0 .. 2] /\ todo \in SUBSET Joints
      /\ Target \in Goals /\ Held \in Goals
  BY Groups, GoalTypes DEF JointTypeOK, Unread, LinkTypeOK
<1>1. CASE UNCHANGED link
  BY <1>0, <1>1, Framed
<1>2. CASE Open(s)
  <2>1. broken' \in BOOLEAN /\ attempted' \in BOOLEAN
    BY <1>0, <1>2, Zenon DEF Open, LinkTypeOK
  <2> QED  BY <1>0, <1>2, <2>1 DEF Open, LinkTypeOK, drives
<1>3. CASE ReadCycle(s) \/ HoldRead(s)
  <2>1. ReadNext(Group(s))
    BY <1>3 DEF ReadCycle, HoldRead
  <2> QED  BY <1>0, <2>1, ReadTypes
<1>4. CASE SendNext(s) \/ SendRaises(s)
  <2>1. Command(Target, Group(s)) \/ CommandRaises(Target)
    BY <1>4 DEF SendNext, SendRaises
  <2> QED  BY <1>0, <2>1, CommandTypes
<1>5. CASE HoldSend(s) \/ HoldRaises(s)
  <2>1. Command(Held, Group(s)) \/ CommandRaises(Held)
    BY <1>5 DEF HoldSend, HoldRaises
  <2> QED  BY <1>0, <2>1, CommandTypes
<1>6. CASE Raises(s) \/ HoldFails(s)
  <2>1. broken' \in BOOLEAN
    <3>1. Raises(s) => broken' \in BOOLEAN
      BY Zenon DEF Raises
    <3>2. HoldFails(s) => broken' \in BOOLEAN
      BY Zenon DEF HoldFails
    <3> QED  BY <1>6, <3>1, <3>2, Zenon
  <2>2. UNCHANGED <<owner, drives, knowledge>>
    BY <1>6 DEF Raises, HoldFails, Reported
  <2>3. UNCHANGED <<owner, drives>> /\ UNCHANGED attempted
        /\ todo' = todo /\ seen' = seen
    BY <2>2 DEF knowledge
  <2> QED  BY <1>0, <2>1, <2>3, BrokenTypes
<1>7. CASE Hold(s)
  <2>1. broken' \in BOOLEAN
    BY <1>0, <1>7, Zenon DEF Hold, LinkTypeOK
  <2>2. UNCHANGED <<owner, drives>> /\ UNCHANGED attempted
        /\ todo' = Group(s) /\ seen' = Unread
    BY <1>7 DEF Hold
  <2> QED  BY <1>0, <2>1, <2>2, BrokenTypes
<1>8. CASE ForgetLink
  BY <1>0, <1>8, ForgetTypes
<1>9. CASE Enters(s)
  BY <1>1, <1>2, <1>9 DEF Enters, Start, CheckScope, UseRequest, TurnedAway,
     CannotOpen
<1>10. CASE Tries(s)
  BY <1>1, <1>3, <1>4, <1>6, <1>10 DEF Tries, Prepare, Loop, ObserveCycle,
     OperatorStep, CheckAgain, Recover, Begin, PoseReached, Relatch, Wait,
     LoopEnds, OperatorStops
<1>11. CASE Handles(s)
  <2>1. NothingSent(s) \/ Untrusted(s) \/ HoldObserved(s) => UNCHANGED link
    BY DEF NothingSent, Untrusted, HoldObserved, Reported, link
  <2> QED
    BY <1>1, <1>3, <1>5, <1>6, <1>7, <1>11, <2>1 DEF Handles, HoldWatch, Trip,
       HandlerCut
<1>12. CASE Ends(s)
  BY <1>1, <1>8, <1>12 DEF Ends, Close, LateTrip, Killed, Forgotten
<1> QED  BY <1>9, <1>10, <1>11, <1>12 DEF Works

LEMMA ExecutorSteps ==
  ASSUME JointTypeOK, NEW s \in Sessions, Works(s)
  PROVE  ExecutorTypeOK'
<1>0. /\ ExecutorTypeOK /\ PositionTypeOK /\ TerminalTypeOK /\ report \in Reports
  BY ExecutorParts DEF JointTypeOK
<1>1. CASE UNCHANGED <<executor, terminal>>
  BY <1>0, <1>1, Framed
<1>2. ASSUME NEW as \in Phases, Leave(as), report' \in Reports
      PROVE  ExecutorTypeOK'
  BY <1>2, LeaveTypes, ExecutorParts
<1>3. ASSUME PositionTypeOK', report' \in Reports, UNCHANGED terminal
      PROVE  ExecutorTypeOK'
  <2>1. TerminalTypeOK'
    BY <1>0, <1>3, Zenon DEF TerminalTypeOK, terminal
  <2> QED  BY <1>3, <2>1, ExecutorParts
<1>4. CASE Open(s)
  <2>1. immediate' \in BOOLEAN
    BY <1>4, Zenon DEF Open
  <2>2. TerminalTypeOK'
    BY <1>0, <1>4, <2>1, Zenon DEF Open, TerminalTypeOK
  <2>3. PositionTypeOK' /\ report' \in Reports
    BY <1>0, <1>4, Zenon DEF Open, PositionTypeOK, executor, position
  <2> QED  BY <2>2, <2>3, ExecutorParts
<1>5. CASE ObserveCycle(s)
  <2>1. Observe(Group(s), mode[s]) /\ UNCHANGED terminal
    BY <1>5 DEF ObserveCycle
  <2>2. report' \in Reports
    BY <1>0, <2>1 DEF Observe
  <2>3. PositionTypeOK'
    BY <1>0, <2>1, ObserveTypes
  <2> QED  BY <1>3, <2>1, <2>2, <2>3
<1>6. CASE OperatorStep(s)
  BY <1>0, <1>6, OperatorTypes DEF OperatorStep
<1>7. CASE Begin(s)
  <2>1. BeginMotion(index, FALSE) /\ UNCHANGED terminal
    BY <1>7 DEF Begin
  <2>2. PositionTypeOK'
    <3>1. index \in 1 .. Rows
      BY <1>0 DEF PositionTypeOK
    <3> QED  BY <2>1, <3>1, BeginTypes
  <2>3. report' \in Reports
    BY <1>0, <2>1 DEF BeginMotion
  <2> QED  BY <1>3, <2>1, <2>2, <2>3
<1>8. CASE PoseReached(s)
  <2>1. report' \in Reports /\ phase' \in Phases
    BY <1>0, <1>8, PhaseTypes DEF PoseReached
  <2>2. index' \in 1 .. Rows /\ settled' \in BOOLEAN /\ returning' \in BOOLEAN
    BY <1>0, <1>8, Zenon DEF PoseReached, PositionTypeOK
  <2>3. PositionTypeOK' /\ UNCHANGED terminal
    BY <1>8, <2>1, <2>2 DEF PositionTypeOK, PoseReached
  <2> QED  BY <1>3, <2>1, <2>3
<1>9. CASE SendRaises(s) \/ Raises(s) \/ OperatorStops(s)
  <2>1. Leave("aborted") /\ report' \in Reports /\ "aborted" \in Phases
    BY <1>0, <1>9, PhaseTypes DEF SendRaises, Raises, OperatorStops
  <2> QED  BY <1>2, <2>1
<1>10. CASE HoldWatch(s)
  <2>1. settled' \in BOOLEAN
    BY <1>10, Zenon DEF HoldWatch, Stationary
  <2>2. PositionTypeOK' /\ report' \in Reports
    BY <1>0, <1>10, <2>1, Zenon DEF HoldWatch, PositionTypeOK
  <2> QED  BY <1>3, <1>10, <2>2 DEF HoldWatch
<1>11. CASE NothingSent(s) \/ Untrusted(s) \/ HoldObserved(s) \/ HoldFails(s)
            \/ HoldRaises(s)
  <2>1. UNCHANGED <<position, terminal>> /\ report' \in Reports
    BY <1>11 DEF NothingSent, Untrusted, HoldObserved, HoldFails, HoldRaises,
       Reported, Reports
  <2>2. PositionTypeOK'
    BY <1>0, <2>1, Zenon DEF PositionTypeOK, position
  <2> QED  BY <1>3, <2>1, <2>2
<1>12. CASE Forgotten
  <2>1. Leave("initializing") /\ report' \in Reports /\ "initializing" \in Phases
    BY <1>12, PhaseTypes DEF Forgotten, Reports
  <2> QED  BY <1>2, <2>1
<1>13. CASE Enters(s)
  BY <1>1, <1>4, <1>13 DEF Enters, Start, CheckScope, UseRequest, TurnedAway,
     CannotOpen
<1>14. CASE Tries(s)
  BY <1>1, <1>5, <1>6, <1>7, <1>8, <1>9, <1>14 DEF Tries, Prepare, Loop,
     ReadCycle, CheckAgain, Recover, Relatch, Wait, SendNext, LoopEnds
<1>15. CASE Handles(s)
  BY <1>1, <1>10, <1>11, <1>15 DEF Handles, Hold, HoldRead, HoldSend, Trip,
     HandlerCut
<1>16. CASE Ends(s)
  BY <1>1, <1>12, <1>16 DEF Ends, Close, LateTrip, Killed
<1> QED  BY <1>13, <1>14, <1>15, <1>16 DEF Works

\* What a step of s may do to the programs: it moves s, and may end it.
Moving(s) ==
  /\ \E to \in Places : at' = [at EXCEPT ![s] = to]
  /\ \/ UNCHANGED <<mode, reviewed, number>>
     \/ at[s] = "idle" /\ at'[s] = "scope"
        /\ \E m \in Modes, stop \in Stops \ {s}, n \in 1 .. MaxRequests :
             /\ mode' = [mode EXCEPT ![s] = m]
             /\ reviewed' = [reviewed EXCEPT ![s] = stop]
             /\ number' = [number EXCEPT ![s] = n]
     \/ at'[s] = "over"
        /\ mode' = [mode EXCEPT ![s] = "single"]
        /\ reviewed' = [reviewed EXCEPT ![s] = "first"]
        /\ number' = [number EXCEPT ![s] = 1]
  /\ cleared' \in {cleared, cleared \cup {s}}
  /\ cut' \in {cut, cut \cup {s}}

LEMMA MovingTypes ==
  ASSUME ProgramTypeOK, NEW s \in Sessions, Moving(s)
  PROVE  ProgramTypeOK'
<1>1. at' \in [Sessions -> Places] /\ cleared' \in SUBSET Sessions
      /\ cut' \in SUBSET Sessions
  BY DEF ProgramTypeOK, Moving
<1>2. "single" \in Modes /\ "first" \in Stops
  BY DEF Modes, Stops
<1>3. mode' \in [Sessions -> Modes]
  BY <1>2 DEF ProgramTypeOK, Moving
<1>4. reviewed' \in [Sessions -> Stops]
  BY <1>2 DEF ProgramTypeOK, Moving
<1>5. number' \in [Sessions -> 1 .. MaxRequests]
  BY MaxRequestsAssumption DEF ProgramTypeOK, Moving
<1> QED  BY <1>1, <1>3, <1>4, <1>5 DEF ProgramTypeOK

LEMMA ProgramSteps ==
  ASSUME ProgramTypeOK, NEW s \in Sessions, Works(s)
  PROVE  Moving(s)
<1>0. at \in [Sessions -> Places]
  BY DEF ProgramTypeOK
<1>1. ASSUME NEW to \in Places, at' = [at EXCEPT ![s] = to], Same
      PROVE  Moving(s)
  BY <1>1 DEF Same, Moving
<1>2. ASSUME Over(s), cut' \in {cut, cut \cup {s}}
      PROVE  Moving(s)
  <2>1. "over" \in Places /\ at'[s] = "over"
    BY <1>0, <1>2 DEF Over, Places
  <2> QED  BY <1>2, <2>1 DEF Over, Moving
<1>p. /\ {"idle", "scope", "consume", "open", "late_trip", "over"} \subseteq Places
      /\ Trying \cup Holding \cup {"abort", "trip", "close"} \subseteq Places
      /\ {"prepare", "loop", "read", "observe", "act", "begin", "check", "send",
          "relatch", "recorded"} \subseteq Trying
      /\ {"hold_read", "hold_send", "hold_watch", "hold_judge"} \subseteq Holding
  BY DEF Places, OnPort, Trying, Holding
<1>a. Afterwards(s) \in {"close", "trip"}
  BY DEF Afterwards
<1>3. CASE Enters(s)
  <2>1. CASE Start(s)
    <3>1. at'[s] = "scope" /\ at[s] = "idle"
      BY <1>0, <2>1 DEF Start, Moves
    <3>2. \E to \in Places : at' = [at EXCEPT ![s] = to]
      BY <1>p, <2>1 DEF Start, Moves
    <3>3. \E m \in Modes, stop \in Stops \ {s}, n \in 1 .. MaxRequests :
             /\ mode' = [mode EXCEPT ![s] = m]
             /\ reviewed' = [reviewed EXCEPT ![s] = stop]
             /\ number' = [number EXCEPT ![s] = n]
      BY <2>1 DEF Start
    <3>4. cleared' = cleared /\ cut' = cut
      BY <2>1 DEF Start
    <3> QED  BY <3>1, <3>2, <3>3, <3>4 DEF Moving
  <2>2. CASE CheckScope(s) \/ UseRequest(s) \/ Open(s)
    BY <1>1, <1>p, <2>2 DEF CheckScope, UseRequest, Open, Moves
  <2>3. CASE TurnedAway(s)
    BY <1>2, <2>3 DEF TurnedAway
  <2>4. CASE CannotOpen(s)
    BY <1>1, <1>2, <1>p, <2>4 DEF CannotOpen
  <2> QED  BY <1>3, <2>1, <2>2, <2>3, <2>4 DEF Enters
<1>4. CASE Tries(s)
  <2>1. CASE Recover(s)
    <3>1. \E to \in Places : at' = [at EXCEPT ![s] = to]
      BY <1>p, <2>1 DEF Recover, Moves
    <3> QED  BY <2>1, <3>1 DEF Recover, Moving
  <2>2. CASE ~Recover(s)
    <3>1. Same
      BY <1>4, <2>2 DEF Tries, Prepare, Loop, ReadCycle, ObserveCycle,
         OperatorStep, CheckAgain, Begin, PoseReached, Relatch, Wait, SendNext,
         SendRaises, LoopEnds, Raises, OperatorStops
    <3>2. \E to \in Places : at' = [at EXCEPT ![s] = to]
      BY <1>4, <1>p, <2>2 DEF Tries, Prepare, Loop, ReadCycle, ObserveCycle,
         OperatorStep, CheckAgain, Begin, PoseReached, Relatch, Wait, SendNext,
         SendRaises, LoopEnds, Raises, OperatorStops, Moves
    <3> QED  BY <1>1, <3>1, <3>2
  <2> QED  BY <2>1, <2>2
<1>5. CASE Handles(s)
  <2>1. CASE HandlerCut(s)
    <3>1. \E to \in Places : at' = [at EXCEPT ![s] = to]
      BY <1>p, <2>1 DEF HandlerCut
    <3> QED  BY <2>1, <3>1 DEF HandlerCut, Moving
  <2>2. CASE ~HandlerCut(s)
    <3>1. Same
      BY <1>5, <2>2 DEF Handles, NothingSent, Untrusted, Hold, HoldRead,
         HoldSend, HoldWatch, HoldObserved, HoldFails, HoldRaises, Trip,
         Reported, Same
    <3>2. \E to \in Places : at' = [at EXCEPT ![s] = to]
      BY <1>5, <1>a, <1>p, <2>2 DEF Handles, NothingSent, Untrusted, Hold,
         HoldRead, HoldSend, HoldWatch, HoldObserved, HoldFails, HoldRaises,
         Trip, Reported, Moves
    <3> QED  BY <1>1, <3>1, <3>2
  <2> QED  BY <2>1, <2>2
<1>6. CASE Ends(s)
  BY <1>1, <1>2, <1>6, <1>p DEF Ends, Close, LateTrip, Killed
<1> QED  BY <1>3, <1>4, <1>5, <1>6 DEF Works

\* What is not a step of a program: a line is typed, a drive moves.
LEMMA Others ==
  ASSUME JointTypeOK,
         \/ TypeLine
         \/ DrivesMove /\ UNCHANGED <<executor, terminal, programs>>
  PROVE  JointTypeOK'
<1>1. CASE TypeLine
  <2>1. TerminalTypeOK'
    BY <1>1, ExecutorParts, TypeTypes DEF TypeLine, JointTypeOK
  <2>2. UNCHANGED <<stops, link, executor, programs>>
    BY <1>1 DEF TypeLine
  <2>3. PositionTypeOK' /\ report' \in Reports
    BY <2>2, ExecutorParts, Zenon DEF JointTypeOK, executor, position,
       PositionTypeOK
  <2> QED  BY <2>1, <2>2, <2>3, Parts, Framed, ExecutorParts
<1>2. CASE DrivesMove /\ UNCHANGED <<executor, terminal, programs>>
  <2>1. LinkTypeOK'
    BY <1>2, Zenon DEF DrivesMove, JointTypeOK, LinkTypeOK, knowledge
  <2> QED  BY <1>2, <2>1, Parts, Framed DEF DrivesMove
<1> QED  BY <1>1, <1>2

LEMMA TypeInit == Init => JointTypeOK
<1> SUFFICES ASSUME Init PROVE JointTypeOK
  OBVIOUS
<1>1. StopsTypeOK
  BY DEF Init, StopsInit, StopsTypeOK, Stops
<1>2. LinkTypeOK
  <2>1. Untold \in [Joints -> Goals] /\ Unread \in [Joints -> 0 .. 2]
    BY GoalTypes DEF Untold, Unread
  <2>2. broken \in BOOLEAN /\ attempted \in BOOLEAN
    BY Zenon DEF Init, LinkInit
  <2> QED  BY <2>1, <2>2 DEF Init, LinkInit, LinkTypeOK
<1>3. ExecutorTypeOK
  <2>1. phase \in Phases /\ index \in 1 .. Rows /\ report \in Reports
        /\ typed \in SUBSET (Keys \X Prompts) /\ prompted \in Prompts
    BY PhaseTypes, LinkAssumption DEF Init, ExecutorInit, Reports, Prompts
  <2>2. settled \in BOOLEAN /\ returning \in BOOLEAN /\ started \in BOOLEAN
        /\ immediate \in BOOLEAN
    BY Zenon DEF Init, ExecutorInit
  <2> QED  BY <2>1, <2>2 DEF ExecutorTypeOK
<1>4. ProgramTypeOK
  BY MaxRequestsAssumption DEF Init, ProgramTypeOK, Places, Modes, Stops
<1> QED  BY <1>1, <1>2, <1>3, <1>4, Parts

LEMMA TypeStep == JointTypeOK /\ [Next]_vars => JointTypeOK'
<1> SUFFICES ASSUME JointTypeOK, [Next]_vars PROVE JointTypeOK'
  OBVIOUS
<1>1. ASSUME NEW s \in Sessions, Works(s) PROVE JointTypeOK'
  <2>1. ProgramTypeOK'
    BY <1>1, Parts, ProgramSteps, MovingTypes
  <2> QED  BY <1>1, <2>1, Parts, StopsSteps, LinkSteps, ExecutorSteps
<1>2. CASE UNCHANGED vars
  BY <1>2, Parts, Framed DEF vars
<1> QED  BY <1>1, <1>2, Others DEF Next, Works

(***************************************************************************)
(* The port                                                                *)
(***************************************************************************)

\* It is open for the program that is in the middle of its work, and while it
\* is open for nobody, nobody knows anything of the arm.
PortInv ==
  /\ \A s \in Sessions : owner = s <=> at[s] \in OnPort
  /\ owner = "nobody" =>
       /\ goal = Untold /\ ~attempted
       /\ phase = "initializing" /\ ~settled
       /\ report = "none"

\* The four kinds of step: away from the port, to it, with it, and from it.
Away(s) ==
  /\ at[s] \notin OnPort /\ at'[s] \notin OnPort
  /\ UNCHANGED <<link, executor, terminal>>
Opens(s) == at[s] \notin OnPort /\ at'[s] \in OnPort /\ Open(s)
OnIt(s) == at[s] \in OnPort /\ at'[s] \in OnPort /\ owner' = owner
Leaves(s) == at[s] \in OnPort /\ at'[s] \notin OnPort /\ Forgotten

LEMMA OnPortPlaces ==
  /\ {"prepare", "loop", "read", "observe", "act", "begin", "check", "send",
      "relatch", "recorded", "hold_read", "hold_send", "hold_watch",
      "hold_judge", "abort", "trip", "close"} = OnPort
  /\ {"idle", "scope", "consume", "open", "late_trip", "over"} \cap OnPort = {}
BY DEF OnPort, Trying, Holding

\* With the port, and no step that leaves it.
Stays(s) == Tries(s) \/ Handles(s)

LEMMA StaysOn ==
  ASSUME JointTypeOK, NEW s \in Sessions, Stays(s)
  PROVE  at[s] \in OnPort /\ at'[s] \in OnPort
<1>0. at \in [Sessions -> Places]
  BY DEF JointTypeOK
<1>a. Afterwards(s) \in {"close", "trip"}
  BY DEF Afterwards
<1>b. Trying \subseteq OnPort /\ Holding \subseteq OnPort
  BY DEF OnPort
<1>1. CASE Tries(s)
  <2>1. CASE ReadCycle(s) \/ SendNext(s) \/ OperatorStep(s) \/ Raises(s)
    BY <1>0, <1>b, <2>1, OnPortPlaces DEF ReadCycle, SendNext, OperatorStep,
       Raises, Moves
  <2>2. CASE \/ Prepare(s) \/ Loop(s) \/ ObserveCycle(s) \/ CheckAgain(s)
             \/ Recover(s) \/ Begin(s) \/ PoseReached(s) \/ Relatch(s)
             \/ Wait(s) \/ SendRaises(s) \/ LoopEnds(s) \/ OperatorStops(s)
    BY <1>0, <2>2, OnPortPlaces DEF Prepare, Loop, ObserveCycle, CheckAgain,
       Recover, Begin, PoseReached, Relatch, Wait, SendRaises, LoopEnds,
       OperatorStops, Moves
  <2> QED  BY <1>1, <2>1, <2>2 DEF Tries
<1>2. CASE Handles(s)
  <2>1. CASE \/ NothingSent(s) \/ Untrusted(s) \/ HoldObserved(s)
             \/ HoldFails(s) \/ HoldRaises(s)
    BY <1>0, <1>a, <1>b, <2>1, OnPortPlaces DEF NothingSent, Untrusted,
       HoldObserved, HoldFails, HoldRaises, Reported
  <2>2. CASE \/ Hold(s) \/ HoldRead(s) \/ HoldSend(s) \/ HoldWatch(s)
             \/ Trip(s) \/ HandlerCut(s)
    BY <1>0, <2>2, OnPortPlaces DEF Hold, HoldRead, HoldSend, HoldWatch, Trip,
       HandlerCut, Moves
  <2> QED  BY <1>2, <2>1, <2>2 DEF Handles
<1> QED  BY <1>1, <1>2 DEF Stays

LEMMA StaysOwner ==
  ASSUME NEW s \in Sessions, Stays(s)
  PROVE  owner' = owner
<1>1. CASE Tries(s)
  BY <1>1 DEF Tries, Prepare, Loop, ReadCycle, ObserveCycle, OperatorStep,
     CheckAgain, Recover, Begin, PoseReached, Relatch, Wait, SendNext,
     SendRaises, LoopEnds, Raises, OperatorStops, link, ReadNext, Command,
     CommandRaises
<1>2. CASE Handles(s)
  BY <1>2 DEF Handles, NothingSent, Untrusted, Hold, HoldRead, HoldSend,
     HoldWatch, HoldObserved, HoldFails, HoldRaises, Trip, HandlerCut,
     Reported, link, ReadNext, Command, CommandRaises
<1> QED  BY <1>1, <1>2 DEF Stays

LEMMA Kinds ==
  ASSUME JointTypeOK, PortInv, NEW s \in Sessions, Works(s)
  PROVE  \/ Away(s) /\ (Enters(s) \/ Ends(s))
         \/ Opens(s)
         \/ OnIt(s) /\ Stays(s)
         \/ Leaves(s) /\ Ends(s)
<1>0. at \in [Sessions -> Places] /\ (owner = s <=> at[s] \in OnPort)
  BY DEF JointTypeOK, PortInv
<1>1. CASE Stays(s)
  BY <1>1, StaysOn, StaysOwner DEF OnIt
<1>2. CASE Enters(s)
  <2>1. CASE Open(s)
    BY <1>0, <2>1, OnPortPlaces DEF Open, Opens, Moves
  <2>2. CASE ~Open(s)
    <3>1. at[s] \notin OnPort /\ at'[s] \notin OnPort
      BY <1>0, <1>2, <2>2, OnPortPlaces DEF Enters, Start, CheckScope,
         UseRequest, TurnedAway, CannotOpen, Moves, Over
    <3>2. UNCHANGED <<link, executor, terminal>>
      BY <1>2, <2>2 DEF Enters, Start, CheckScope, UseRequest, TurnedAway,
         CannotOpen
    <3> QED  BY <1>2, <3>1, <3>2 DEF Away
  <2> QED  BY <2>1, <2>2
<1>3. CASE Ends(s)
  <2>1. CASE Close(s)
    BY <1>0, <1>3, <2>1, OnPortPlaces DEF Close, Leaves, Over
  <2>2. CASE LateTrip(s)
    BY <1>0, <1>3, <2>2, OnPortPlaces DEF LateTrip, Away, Over
  <2>3. CASE Killed(s)
    BY <1>0, <1>3, <2>3, OnPortPlaces DEF Killed, Leaves, Away, Over
  <2> QED  BY <1>3, <2>1, <2>2, <2>3 DEF Ends
<1> QED  BY <1>1, <1>2, <1>3 DEF Works, Stays

\* The places of the other programs.
LEMMA Elsewhere ==
  ASSUME ProgramTypeOK, NEW s \in Sessions, Moving(s), NEW t \in Sessions,
         t # s
  PROVE  /\ at'[t] = at[t] /\ mode'[t] = mode[t] /\ reviewed'[t] = reviewed[t]
         /\ Request(t)' = Request(t)
         /\ t \in cleared' <=> t \in cleared
         /\ t \in cut' <=> t \in cut
BY DEF Moving, ProgramTypeOK, Request

LEMMA Nobody == \A s \in Sessions : s # "nobody" /\ s # "absent" /\ s # "first"
BY NamesAssumption

LEMMA ForgottenPort ==
  ASSUME Forgotten
  PROVE  /\ owner' = "nobody" /\ goal' = Untold /\ ~attempted'
         /\ phase' = "initializing" /\ ~settled' /\ report' = "none"
BY DEF Forgotten, ForgetLink, Leave

LEMMA PortStep ==
  ASSUME JointTypeOK, PortInv, NEW s \in Sessions, Works(s)
  PROVE  PortInv'
<1>0. Moving(s) /\ ProgramTypeOK
  BY Parts, ProgramSteps
<1>1. \A t \in Sessions \ {s} : at'[t] = at[t]
  BY <1>0, Elsewhere
<1>2. CASE Away(s)
  BY <1>1, <1>2 DEF Away, PortInv, link, drives, knowledge, executor, position
<1>3. CASE Opens(s)
  <2>1. owner = "nobody" /\ owner' = s
    BY <1>3 DEF Opens, Open
  <2> QED  BY <1>1, <1>3, <2>1, Nobody DEF Opens, PortInv
<1>4. CASE OnIt(s)
  BY <1>1, <1>4, Nobody DEF OnIt, PortInv
<1>5. CASE Leaves(s)
  BY <1>1, <1>5, Nobody, ForgottenPort DEF Leaves, PortInv
<1> QED  BY <1>2, <1>3, <1>4, <1>5, Kinds

(***************************************************************************)
(* Which program gets to which place                                       *)
(***************************************************************************)

Normal == "all_joint_feedback_stationary"

PlaceInv(s) ==
  /\ at[s] \in {"begin", "relatch", "recorded"} => mode[s] = "commissioning"
  /\ at[s] = "trip" => mode[s] # "single"
  /\ at[s] = "late_trip" => mode[s] = "single"
  /\ owner = s /\ phase = "completed" => mode[s] # "commissioning"
  /\ at[s] \in Trying =>
       report = "none" \/ (report = Normal /\ at[s] = "loop" /\ phase = "completed")

LEMMA TryingPlaces ==
  /\ Trying \cap {"close", "abort", "trip"} = {}
  /\ Trying \cap Holding = {}
  /\ Holding \cap {"close", "abort", "trip"} = {}
BY DEF Trying, Holding

\* What each action does to the place of its program.
LEMMA TriesPlaces ==
  ASSUME ProgramTypeOK, NEW s \in Sessions, Tries(s)
  PROVE  /\ at[s] \in Trying /\ mode' = mode
         /\ at'[s] \in Trying \cup {"abort", "close"}
         /\ at'[s] \in {"begin", "relatch"} => mode[s] = "commissioning"
         /\ at'[s] = "recorded" => at[s] = "relatch" /\ Relatch(s)
         /\ at[s] = "loop" => at'[s] \in {"read", "abort", "close"}
<1>0. at \in [Sessions -> Places]
  BY DEF ProgramTypeOK
<1>1. {"prepare", "loop", "read", "observe", "act", "begin", "check", "send",
       "relatch", "recorded"} = Trying
  BY DEF Trying
<1>2. CASE Prepare(s) \/ Loop(s) \/ ReadCycle(s) \/ ObserveCycle(s)
           \/ OperatorStep(s) \/ CheckAgain(s)
  BY <1>0, <1>1, <1>2 DEF Prepare, Loop, ReadCycle, ObserveCycle, OperatorStep,
     CheckAgain, Moves, Same
<1>3. CASE Recover(s) \/ Begin(s) \/ PoseReached(s) \/ Relatch(s) \/ Wait(s)
           \/ SendNext(s)
  BY <1>0, <1>1, <1>3 DEF Recover, Begin, PoseReached, Relatch, Wait, SendNext,
     Moves, Same
<1>4. CASE SendRaises(s) \/ LoopEnds(s) \/ Raises(s) \/ OperatorStops(s)
  BY <1>0, <1>1, <1>4 DEF SendRaises, LoopEnds, Raises, OperatorStops, Moves,
     Same
<1> QED  BY <1>2, <1>3, <1>4 DEF Tries

LEMMA HandlesPlaces ==
  ASSUME ProgramTypeOK, NEW s \in Sessions, Handles(s)
  PROVE  /\ at[s] \in Holding \cup {"abort", "trip"} /\ mode' = mode
         /\ at'[s] \in Holding \cup {"trip", "close"}
         /\ at'[s] = "trip" => mode[s] # "single"
         /\ UNCHANGED phase
<1>0. at \in [Sessions -> Places]
  BY DEF ProgramTypeOK
<1>1. {"hold_read", "hold_send", "hold_watch", "hold_judge"} = Holding
  BY DEF Holding
<1>2. CASE NothingSent(s) \/ Untrusted(s) \/ HoldObserved(s) \/ HoldFails(s)
           \/ HoldRaises(s)
  BY <1>0, <1>1, <1>2 DEF NothingSent, Untrusted, HoldObserved, HoldFails,
     HoldRaises, Reported, Afterwards, position
<1>3. CASE Hold(s) \/ HoldRead(s) \/ HoldSend(s) \/ HoldWatch(s) \/ Trip(s)
           \/ HandlerCut(s)
  BY <1>0, <1>1, <1>3 DEF Hold, HoldRead, HoldSend, HoldWatch, Trip, HandlerCut,
     Moves, Same, executor, position
<1> QED  BY <1>2, <1>3 DEF Handles

\* What the try block does to the phase and to the report.
LEMMA TriesPhases ==
  ASSUME ProgramTypeOK, NEW s \in Sessions, Tries(s)
  PROVE  /\ phase' = "completed" =>
              phase = "completed" \/ mode[s] # "commissioning"
         /\ \/ UNCHANGED report
            \/ report' = Normal /\ phase' = "completed" /\ at'[s] = "loop"
         /\ at[s] = "loop" /\ phase = "completed" => at'[s] \notin Trying
<1>0. at \in [Sessions -> Places] /\ mode[s] \in Modes
  BY DEF ProgramTypeOK
<1>1. CASE Prepare(s) \/ Loop(s) \/ ReadCycle(s) \/ CheckAgain(s)
  BY <1>0, <1>1 DEF Prepare, Loop, ReadCycle, CheckAgain, Moves, executor,
     position
<1>2. CASE ObserveCycle(s)
  <2>1. UNCHANGED report /\ at[s] = "observe"
    BY <1>2 DEF ObserveCycle, Observe, Moves
  <2>2. phase' = "completed" => phase = "completed" \/ mode[s] = "single"
    BY <1>2 DEF ObserveCycle, Observe, Arrived
  <2> QED  BY <2>1, <2>2
<1>3. CASE OperatorStep(s)
  <2>1. mode[s] = "attended" /\ at[s] = "act"
    BY <1>3 DEF OperatorStep, Moves
  <2>2. CASE FinishPositioning
    <3>1. report' = Normal /\ phase' = "completed"
      BY <2>2 DEF FinishPositioning, Normal
    <3>2. at'[s] = "loop"
      BY <1>0, <1>3, <2>2 DEF OperatorStep, Moves, FinishPositioning,
         StartItself, ReturnToZero, StartGroup, BeginMotion
    <3> QED  BY <2>1, <3>1, <3>2
  <2>3. CASE ~FinishPositioning
    BY <1>3, <2>1, <2>3 DEF OperatorStep, StayPut, StartItself, ReturnToZero,
       StartGroup, BeginMotion, executor
  <2> QED  BY <2>2, <2>3
<1>4. CASE Recover(s) \/ Begin(s) \/ PoseReached(s) \/ Relatch(s) \/ Wait(s)
           \/ SendNext(s)
  BY <1>0, <1>4 DEF Recover, Begin, BeginMotion, PoseReached, Relatch, Wait,
     SendNext, Moves, executor, position
<1>5. CASE SendRaises(s) \/ Raises(s) \/ OperatorStops(s)
  BY <1>0, <1>5, TryingPlaces DEF SendRaises, Raises, OperatorStops, Leave, Moves
<1>6. CASE LoopEnds(s)
  BY <1>0, <1>6, TryingPlaces DEF LoopEnds, Moves, executor, position
<1> QED  BY <1>1, <1>2, <1>3, <1>4, <1>5, <1>6 DEF Tries


\* While one program has the port, the others keep away from it.
LEMMA Alone ==
  ASSUME JointTypeOK, PortInv, NEW s \in Sessions, Works(s),
         NEW t \in Sessions, t # s,
         at[t] \in OnPort \/ owner = t \/ at'[t] \in OnPort \/ owner' = t
  PROVE  Away(s) /\ owner = t /\ owner' = t
<1>0. Moving(s) /\ ProgramTypeOK
  BY Parts, ProgramSteps
<1>1. at'[t] = at[t]
  BY <1>0, Elsewhere
<1>2. PortInv'
  BY PortStep
<1>3. owner = t \/ owner' = t
  BY <1>2 DEF PortInv
<1>4. owner = t /\ owner' = t /\ at[s] \notin OnPort /\ at'[s] \notin OnPort
  BY <1>1, <1>2, <1>3 DEF PortInv
<1> QED  BY <1>4, Kinds DEF Opens, OnIt, Leaves

\* The places a program reaches with no port.
LEMMA AwayPlaces ==
  ASSUME ProgramTypeOK, NEW s \in Sessions, Enters(s) \/ Ends(s),
         at'[s] = "late_trip"
  PROVE  mode'[s] = "single"
<1>0. at \in [Sessions -> Places] /\ mode \in [Sessions -> Modes]
  BY DEF ProgramTypeOK
<1> QED
  BY <1>0 DEF Enters, Start, CheckScope, UseRequest, TurnedAway, Open,
     CannotOpen, Ends, Close, LateTrip, Killed, Moves, Over, Same

LEMMA PlaceStep ==
  ASSUME JointTypeOK, PortInv, NEW s \in Sessions, Works(s),
         \A t \in Sessions : PlaceInv(t)
  PROVE  \A t \in Sessions : PlaceInv(t)'
<1>0. Moving(s) /\ ProgramTypeOK
  BY Parts, ProgramSteps
<1>p. PortInv'
  BY PortStep
<1>1. ASSUME NEW t \in Sessions, t # s PROVE PlaceInv(t)'
  <2>1. at'[t] = at[t] /\ mode'[t] = mode[t]
    BY <1>0, <1>1, Elsewhere
  <2>2. CASE at[t] \in OnPort
    <3>1. Away(s) /\ owner = t /\ owner' = t
      BY <1>1, <2>2, Alone
    <3>2. phase' = phase /\ report' = report
      BY <3>1 DEF Away, executor, position
    <3> QED  BY <2>1, <3>1, <3>2 DEF PlaceInv
  <2>3. CASE at[t] \notin OnPort
    <3>1. owner' # t /\ at'[t] \notin OnPort
      BY <1>p, <2>1, <2>3 DEF PortInv
    <3>2. at'[t] \notin Trying
      BY <3>1 DEF OnPort
    <3> QED  BY <2>1, <3>1, <3>2 DEF PlaceInv
  <2> QED  BY <2>2, <2>3
<1>2. PlaceInv(s)'
  <2>0. PlaceInv(s) /\ (owner = s <=> at[s] \in OnPort)
        /\ (owner' = s <=> at'[s] \in OnPort)
    BY <1>p DEF PortInv
  <2>1. CASE at'[s] \notin OnPort
    <3>1. owner' # s /\ at'[s] \notin Trying
          /\ at'[s] \notin {"begin", "relatch", "recorded", "trip"}
      BY <2>0, <2>1, OnPortPlaces DEF OnPort
    <3>2. at'[s] = "late_trip" => mode'[s] = "single"
      <4>1. Enters(s) \/ Ends(s)
        BY <2>1, Kinds DEF Opens, OnIt
      <4> QED  BY <1>0, <4>1, AwayPlaces
    <3> QED  BY <3>1, <3>2 DEF PlaceInv
  <2>2. CASE Opens(s)
    <3>1. at'[s] = "prepare"
      BY <1>0, <2>2 DEF Opens, Open, Moves, ProgramTypeOK
    <3>2. phase' = "initializing" /\ report' = "none"
      BY <2>2 DEF Opens, Open, PortInv, executor, position
    <3> QED  BY <3>1, <3>2 DEF PlaceInv
  <2>3. CASE OnIt(s) /\ Tries(s)
    <3>1. /\ at[s] \in Trying /\ mode' = mode
          /\ at'[s] \in Trying \cup {"abort", "close"}
          /\ at'[s] \in {"begin", "relatch"} => mode[s] = "commissioning"
          /\ at'[s] = "recorded" => at[s] = "relatch"
      BY <1>0, <2>3, TriesPlaces
    <3>2. /\ phase' = "completed" =>
              phase = "completed" \/ mode[s] # "commissioning"
          /\ \/ UNCHANGED report
             \/ report' = Normal /\ phase' = "completed" /\ at'[s] = "loop"
          /\ at[s] = "loop" /\ phase = "completed" => at'[s] \notin Trying
      BY <1>0, <2>3, TriesPhases
    <3>3. owner = s
      BY <2>0, <3>1 DEF OnPort
    <3>4. at'[s] \notin {"trip", "late_trip"}
      BY <3>1, TryingPlaces, OnPortPlaces DEF OnPort
    <3> QED  BY <2>0, <3>1, <3>2, <3>3, <3>4 DEF PlaceInv
  <2>4. CASE OnIt(s) /\ Handles(s)
    <3>1. /\ at[s] \in Holding \cup {"abort", "trip"} /\ mode' = mode
          /\ at'[s] \in Holding \cup {"trip", "close"}
          /\ at'[s] = "trip" => mode[s] # "single"
          /\ UNCHANGED phase
      BY <1>0, <2>4, HandlesPlaces
    <3>2. at'[s] \notin Trying /\ at'[s] # "late_trip" /\ owner = s
          /\ at'[s] \notin {"begin", "relatch", "recorded"}
      BY <2>0, <2>4, <3>1, TryingPlaces, OnPortPlaces DEF OnIt, Trying
    <3> QED  BY <2>0, <3>1, <3>2 DEF PlaceInv
  <2> QED  BY <2>1, <2>2, <2>3, <2>4, Kinds DEF OnIt, Stays, Leaves, Away
<1> QED  BY <1>1, <1>2

(***************************************************************************)
(* The stops                                                               *)
(***************************************************************************)

\* By which steps a program gets to the places the stops depend on.
LEMMA TriesSources ==
  ASSUME ProgramTypeOK, NEW s \in Sessions, Tries(s)
  PROVE  /\ at'[s] = "begin" => Recover(s)
         /\ at'[s] = "check" => mode[s] = "attended"
         /\ at'[s] = "send" => CheckAgain(s) \/ SendNext(s) \/ Begin(s)
         /\ at'[s] = "recorded" => Relatch(s)
         /\ at'[s] = "close" => LoopEnds(s)
         /\ Recover(s) \/ UNCHANGED cleared
         /\ UNCHANGED <<reviewed, number, cut>>
<1>0. at \in [Sessions -> Places]
  BY DEF ProgramTypeOK
<1>2. CASE Prepare(s) \/ Loop(s) \/ ReadCycle(s) \/ ObserveCycle(s)
           \/ OperatorStep(s) \/ CheckAgain(s)
  BY <1>0, <1>2 DEF Prepare, Loop, ReadCycle, ObserveCycle, OperatorStep,
     CheckAgain, Moves, Same
<1>3. CASE Recover(s) \/ Begin(s) \/ PoseReached(s) \/ Relatch(s) \/ Wait(s)
           \/ SendNext(s)
  BY <1>0, <1>3 DEF Recover, Begin, PoseReached, Relatch, Wait, SendNext,
     Moves, Same
<1>4. CASE SendRaises(s) \/ LoopEnds(s) \/ Raises(s) \/ OperatorStops(s)
  BY <1>0, <1>4 DEF SendRaises, LoopEnds, Raises, OperatorStops, Moves, Same
<1> QED  BY <1>2, <1>3, <1>4 DEF Tries

LEMMA HandlesSources ==
  ASSUME ProgramTypeOK, NEW s \in Sessions, Handles(s)
  PROVE  /\ at'[s] = "close" /\ mode[s] # "single" => Trip(s) \/ HandlerCut(s)
         /\ UNCHANGED <<reviewed, number, cleared>>
<1>0. at \in [Sessions -> Places]
  BY DEF ProgramTypeOK
<1>1. "close" \notin Holding
  BY DEF Holding
<1>2. CASE NothingSent(s) \/ Untrusted(s) \/ HoldObserved(s) \/ HoldFails(s)
           \/ HoldRaises(s)
  BY <1>0, <1>2 DEF NothingSent, Untrusted, HoldObserved, HoldFails,
     HoldRaises, Reported, Afterwards
<1>3. CASE Hold(s) \/ HoldRead(s) \/ HoldSend(s) \/ HoldWatch(s) \/ Trip(s)
           \/ HandlerCut(s)
  BY <1>0, <1>3 DEF Hold, HoldRead, HoldSend, HoldWatch, Trip, HandlerCut,
     Moves, Same
<1> QED  BY <1>2, <1>3 DEF Handles

LEMMA AwaySources ==
  ASSUME ProgramTypeOK, NEW s \in Sessions, Enters(s) \/ Ends(s)
  PROVE  /\ at'[s] = "open" =>
              (CheckScope(s) /\ mode[s] # "commissioning") \/ UseRequest(s)
         /\ at'[s] \in OnPort => Open(s) /\ at[s] = "open"
         /\ at[s] \in OnPort /\ mode[s] # "single" => at'[s] = "over"
         /\ at[s] = "late_trip" => at'[s] = "over"
         /\ at[s] \in OnPort \ {"close"} => s \in cut'
         /\ UNCHANGED cleared
<1>0. at \in [Sessions -> Places]
  BY DEF ProgramTypeOK
<1>1. CASE Enters(s)
  BY <1>0, <1>1, OnPortPlaces DEF Enters, Start, CheckScope, UseRequest,
     TurnedAway, Open, CannotOpen, Moves, Over, Same
<1>2. CASE Ends(s)
  BY <1>0, <1>2, OnPortPlaces DEF Ends, Close, LateTrip, Killed, Over, Same
<1> QED  BY <1>1, <1>2

LEMMA NotOver ==
  ASSUME ProgramTypeOK, NEW s \in Sessions, Works(s)
  PROVE  at[s] # "over"
<1>1. CASE Enters(s) \/ Ends(s)
  BY <1>1 DEF Enters, Start, CheckScope, UseRequest, TurnedAway, Open,
     CannotOpen, Ends, Close, LateTrip, Killed, Moves
<1>2. CASE Stays(s)
  BY <1>2, TriesPlaces, HandlesPlaces DEF Stays, Trying, Holding
<1> QED  BY <1>1, <1>2 DEF Works, Stays

\* What a step may do to the files: a mark stays, and so does a latch.
LEMMA FilesStay ==
  ASSUME JointTypeOK, NEW s \in Sessions, Works(s)
  PROVE  /\ used \subseteq used'
         /\ attendedLatch # "absent" => attendedLatch' # "absent"
         /\ \/ stopFile' = stopFile
            \/ stopFile' = "absent" /\ Recover(s)
            \/ /\ stopFile = "absent" /\ stopFile' = s
               /\ at[s] \in {"relatch", "trip", "late_trip"}
<1>1. CASE UNCHANGED stops
  BY <1>1 DEF stops
<1>2. CASE TripStop(s) /\ at[s] \in {"relatch", "trip", "late_trip"}
  BY <1>2 DEF TripStop, Tripped
<1>3. CASE TripAttended(s)
  BY <1>3, Nobody DEF TripAttended, Tripped
<1>4. CASE UseRequest(s)
  BY <1>4 DEF UseRequest, Consume
<1>5. CASE Recover(s)
  BY <1>5 DEF Recover, AcknowledgeStop
<1> QED  BY <1>1, <1>2, <1>3, <1>4, <1>5, StopsSteps

\* With the port a program keeps its mode, and so what it was written for.
LEMMA OnItKeeps ==
  ASSUME ProgramTypeOK, NEW s \in Sessions, Stays(s)
  PROVE  UNCHANGED <<mode, reviewed, number>>
BY TriesPlaces, HandlesPlaces, TriesSources, HandlesSources DEF Stays

\* A stop that is there was latched by a program at its very end, or as it is
\* about to give the port back; and no program is written for a stop of its own.
NamedInv(s) ==
  /\ reviewed[s] # s
  /\ stopFile = s =>
       at[s] = "over" \/ (at[s] \in OnPort /\ mode[s] # "single")

\* What a commissioning has done to the stop its request names.
ClearedInv(s) ==
  /\ Committed(s) => Request(s) \in used
  /\ at[s] = "check" => mode[s] = "attended"
  /\ mode[s] = "commissioning" /\ at[s] \in {"begin", "send"} => s \in cleared
  /\ s \in cleared /\ at[s] # "over" =>
       /\ at[s] \in OnPort /\ mode[s] = "commissioning"
       /\ stopFile # reviewed[s]
       /\ \A t \in Sessions : reviewed[s] = t => at[t] = "over"

\* A request lets one program past its mark.
OnceInv(s) ==
  \A t \in Sessions \ {s} :
    Committed(s) /\ Committed(t) => Request(t) # Request(s)

\* An attended session is about to move.
SendingInv(s) ==
  at[s] = "send" /\ mode[s] = "attended" => AttendedClear(reviewed[s])

\* A stop that was cleared is latched again before the port is closed, and an
\* attended session that fails latches its own.
RelatchInv ==
  stopFile = "absent" /\ cleared # {} =>
    \E s \in cleared : s \in cut \/ at[s] \in OnPort \ {"recorded", "close"}
LatchedInv(s) ==
  mode[s] = "attended" /\ at[s] = "close" /\ s \notin cut
      /\ report \notin {"none", Normal}
    => attendedLatch # "absent"

StopInv ==
  /\ RelatchInv
  /\ \A s \in Sessions :
       NamedInv(s) /\ ClearedInv(s) /\ OnceInv(s) /\ SendingInv(s) /\ LatchedInv(s)

LEMMA NamedStep ==
  ASSUME JointTypeOK, PortInv, NEW s \in Sessions, Works(s),
         \A t \in Sessions : PlaceInv(t), StopInv
  PROVE  \A t \in Sessions : NamedInv(t)'
<1>0. Moving(s) /\ ProgramTypeOK
  BY Parts, ProgramSteps
<1>p. PortInv' /\ mode \in [Sessions -> Modes]
      /\ reviewed \in [Sessions -> Stops] /\ at \in [Sessions -> Places]
  BY PortStep DEF JointTypeOK
<1>o. at[s] # "over"
  BY <1>0, NotOver
<1>f. \/ stopFile' = stopFile
      \/ stopFile' = "absent" /\ Recover(s)
      \/ /\ stopFile = "absent" /\ stopFile' = s
         /\ at[s] \in {"relatch", "trip", "late_trip"}
  BY FilesStay
<1>1. ASSUME NEW t \in Sessions, t # s PROVE NamedInv(t)'
  <2>1. at'[t] = at[t] /\ mode'[t] = mode[t] /\ reviewed'[t] = reviewed[t]
    BY <1>0, <1>1, Elsewhere
  <2>2. stopFile' = t => stopFile = t
    BY <1>1, <1>f, Nobody
  <2> QED  BY <2>1, <2>2 DEF StopInv, NamedInv
<1>2. NamedInv(s)'
  <2>1. reviewed'[s] # s
    BY <1>0, <1>p, Nobody DEF Moving, StopInv, NamedInv
  <2>2. ASSUME stopFile' = s
        PROVE  at'[s] = "over" \/ (at'[s] \in OnPort /\ mode'[s] # "single")
    <3>1. \/ at[s] \in OnPort /\ mode[s] # "single"
          \/ at[s] = "late_trip"
      <4>1. CASE stopFile = s
        BY <1>o, <4>1 DEF StopInv, NamedInv
      <4>2. CASE stopFile # s
        BY <1>f, <2>2, <4>2, Nobody, OnPortPlaces DEF PlaceInv
      <4> QED  BY <4>1, <4>2
    <3>2. CASE Stays(s)
      BY <1>0, <3>1, <3>2, StaysOn, OnItKeeps, OnPortPlaces
    <3>3. CASE Enters(s) \/ Ends(s)
      BY <1>0, <3>1, <3>3, AwaySources
    <3> QED  BY <3>2, <3>3 DEF Works, Stays
  <2> QED  BY <2>1, <2>2 DEF NamedInv
<1> QED  BY <1>1, <1>2

LEMMA ClearedStep ==
  ASSUME JointTypeOK, PortInv, NEW s \in Sessions, Works(s),
         \A t \in Sessions : PlaceInv(t), StopInv
  PROVE  \A t \in Sessions : ClearedInv(t)'
<1>0. Moving(s) /\ ProgramTypeOK
  BY Parts, ProgramSteps
<1>p. PortInv' /\ mode \in [Sessions -> Modes]
      /\ reviewed \in [Sessions -> Stops] /\ at \in [Sessions -> Places]
  BY PortStep DEF JointTypeOK
<1>o. at[s] # "over"
  BY <1>0, NotOver
<1>f. /\ used \subseteq used'
      /\ \/ stopFile' = stopFile
         \/ stopFile' = "absent" /\ Recover(s)
         \/ stopFile = "absent" /\ stopFile' = s
  BY FilesStay
<1>1. ASSUME NEW t \in Sessions, t # s PROVE ClearedInv(t)'
  <2>1. /\ at'[t] = at[t] /\ mode'[t] = mode[t] /\ reviewed'[t] = reviewed[t]
        /\ Request(t)' = Request(t)
        /\ t \in cleared' <=> t \in cleared
    BY <1>0, <1>1, Elsewhere
  <2>2. ClearedInv(t)
    BY DEF StopInv
  <2>3. ASSUME t \in cleared', at'[t] # "over"
        PROVE  /\ stopFile' # reviewed'[t]
               /\ \A u \in Sessions : reviewed'[t] = u => at'[u] = "over"
    <3>1. /\ stopFile # reviewed[t] /\ reviewed[t] \in Stops
          /\ \A u \in Sessions : reviewed[t] = u => at[u] = "over"
      BY <1>p, <2>1, <2>2, <2>3 DEF ClearedInv, Committed
    <3>2. reviewed[t] # s
      BY <1>o, <3>1
    <3>3. \A u \in Sessions \ {s} : at'[u] = at[u]
      BY <1>0, Elsewhere
    <3>4. reviewed[t] # "absent"
      BY <3>1, Nobody DEF Stops
    <3> QED  BY <1>f, <2>1, <3>1, <3>2, <3>3, <3>4
  <2> QED  BY <1>f, <2>1, <2>2, <2>3 DEF ClearedInv, Committed
<1>2. ClearedInv(s)'
  <2>0. ClearedInv(s)
    BY DEF StopInv
  <2>1. CASE Recover(s)
    <3>1. /\ at[s] \in OnPort /\ at'[s] = "begin" /\ mode[s] = "commissioning"
          /\ mode' = mode /\ reviewed' = reviewed /\ s \in cleared'
          /\ Request(s)' = Request(s)
          /\ stopFile = reviewed[s] /\ stopFile' = "absent"
      BY <1>p, <2>1, OnPortPlaces DEF Recover, Moves, AcknowledgeStop, Recoverable,
         Request
    <3>2. reviewed[s] # "absent"
      BY <1>p, Nobody DEF Stops
    <3>3. ASSUME NEW t \in Sessions, reviewed[s] = t PROVE at'[t] = "over"
      <4>1. t # s /\ NamedInv(t) /\ stopFile = t
        BY <3>1, <3>3 DEF StopInv, NamedInv
      <4>2. at[t] \notin OnPort
        BY <3>1, <4>1 DEF PortInv
      <4>3. at[t] = "over"
        BY <4>1, <4>2 DEF NamedInv
      <4> QED  BY <1>0, <4>1, <4>3, Elsewhere
    <3>4. at'[s] \in OnPort
      BY <3>1, OnPortPlaces
    <3> QED  BY <1>f, <2>0, <3>1, <3>2, <3>3, <3>4 DEF ClearedInv, Committed
  <2>2. CASE Stays(s) /\ ~Recover(s)
    <3>1. /\ at[s] \in OnPort /\ at'[s] \in OnPort
          /\ mode' = mode /\ reviewed' = reviewed /\ cleared' = cleared
          /\ Request(s)' = Request(s)
      BY <1>0, <2>2, StaysOn, OnItKeeps, TriesSources, HandlesSources
      DEF Stays, Request
    <3>2. /\ at'[s] = "check" => mode[s] = "attended"
          /\ at'[s] # "begin"
          /\ at'[s] = "send" /\ mode[s] = "commissioning" => s \in cleared
      <4>1. CASE Tries(s)
        <5>1. /\ at'[s] # "begin"
              /\ at'[s] = "check" => mode[s] = "attended"
              /\ at'[s] = "send" => CheckAgain(s) \/ SendNext(s) \/ Begin(s)
          BY <1>0, <2>2, <4>1, TriesSources
        <5>2. CheckAgain(s) => at[s] = "check"
          BY DEF CheckAgain, Moves
        <5>3. SendNext(s) => at[s] = "send"
          BY DEF SendNext, Moves
        <5>4. Begin(s) => at[s] = "begin" \/ mode[s] = "single"
          BY DEF Begin, Moves
        <5> QED  BY <2>0, <5>1, <5>2, <5>3, <5>4 DEF ClearedInv, Committed
      <4>2. CASE Handles(s)
        BY <1>0, <4>2, HandlesPlaces DEF Holding
      <4> QED  BY <2>2, <4>1, <4>2 DEF Stays
    <3>3. s \in cleared =>
            /\ stopFile' # reviewed[s]
            /\ \A t \in Sessions : reviewed[s] = t => at'[t] = "over"
      <4>1. reviewed[s] # s
        BY DEF StopInv, NamedInv
      <4>2. \A u \in Sessions \ {s} : at'[u] = at[u]
        BY <1>0, Elsewhere
      <4> QED  BY <1>f, <1>o, <2>0, <2>2, <4>1, <4>2 DEF ClearedInv, Committed
    <3> QED  BY <1>f, <1>o, <2>0, <3>1, <3>2, <3>3 DEF ClearedInv, Committed
  <2>3. CASE Enters(s) \/ Ends(s)
    <3>1. cleared' = cleared
      BY <1>0, <2>3, AwaySources
    <3>2. s \in cleared' => at'[s] = "over"
      BY <1>0, <1>o, <2>0, <2>3, <3>1, AwaySources DEF ClearedInv, Committed
    <3>3. at'[s] \notin {"begin", "send", "check"}
      <4>1. at'[s] \in OnPort => Open(s)
        BY <1>0, <2>3, AwaySources
      <4>2. Open(s) => at'[s] = "prepare"
        BY <1>p DEF Open, Moves
      <4> QED  BY <4>1, <4>2, OnPortPlaces
    <3>4. ASSUME mode'[s] = "commissioning", at'[s] \in OnPort \cup {"open"}
          PROVE  Request(s)' \in used'
      <4>1. CASE at'[s] = "open"
        <5>1. (CheckScope(s) /\ mode[s] # "commissioning") \/ UseRequest(s)
          BY <1>0, <2>3, <4>1, AwaySources
        <5>2. UseRequest(s)
          BY <3>4, <5>1 DEF CheckScope, Same
        <5> QED  BY <5>2 DEF UseRequest, Consume, Same, Request
      <4>2. CASE at'[s] \in OnPort
        <5>1. Open(s) /\ at[s] = "open"
          BY <1>0, <2>3, <4>2, AwaySources
        <5>2. mode' = mode /\ Request(s)' = Request(s)
          BY <5>1 DEF Open, Same, Request
        <5> QED  BY <1>f, <2>0, <3>4, <5>1, <5>2 DEF ClearedInv, Committed
      <4> QED  BY <3>4, <4>1, <4>2
    <3> QED  BY <3>2, <3>3, <3>4 DEF ClearedInv, Committed
  <2> QED  BY <2>1, <2>2, <2>3 DEF Works, Stays
<1> QED  BY <1>1, <1>2

\* By which steps a program is past the mark of its request.
LEMMA CommittedSources ==
  ASSUME JointTypeOK, NEW s \in Sessions, Works(s), Committed(s)'
  PROVE  \/ Committed(s) /\ Request(s)' = Request(s)
         \/ UseRequest(s) /\ Request(s)' = Request(s)
<1>0. ProgramTypeOK
  BY Parts
<1>1. mode'[s] = "commissioning" /\ at'[s] \in OnPort \cup {"open"}
  BY DEF Committed
<1>2. CASE Stays(s)
  <2>1. at[s] \in OnPort /\ mode' = mode /\ Request(s)' = Request(s)
    BY <1>0, <1>2, StaysOn, OnItKeeps DEF Request
  <2> QED  BY <1>1, <2>1 DEF Committed
<1>3. CASE Enters(s) \/ Ends(s)
  <2>1. CASE at'[s] \in OnPort
    <3>1. Open(s) /\ at[s] = "open"
      BY <1>0, <1>3, <2>1, AwaySources
    <3>2. mode' = mode /\ Request(s)' = Request(s)
      BY <3>1 DEF Open, Same, Request
    <3> QED  BY <1>1, <3>1, <3>2 DEF Committed
  <2>2. CASE at'[s] = "open"
    <3>1. (CheckScope(s) /\ mode[s] # "commissioning") \/ UseRequest(s)
      BY <1>0, <1>3, <2>2, AwaySources
    <3>2. UseRequest(s)
      BY <1>1, <3>1 DEF CheckScope, Same
    <3> QED  BY <3>2 DEF UseRequest, Same, Request
  <2> QED  BY <1>1, <2>1, <2>2
<1> QED  BY <1>2, <1>3 DEF Works, Stays

\* Only the first to leave the mark gets past it.
LEMMA OnceStep ==
  ASSUME JointTypeOK, NEW s \in Sessions, Works(s), StopInv
  PROVE  \A t \in Sessions : OnceInv(t)'
<1>0. Moving(s) /\ ProgramTypeOK
  BY Parts, ProgramSteps
<1>1. ASSUME NEW t \in Sessions \ {s}
      PROVE  (Committed(t)' <=> Committed(t)) /\ Request(t)' = Request(t)
  BY <1>0, Elsewhere DEF Committed
<1>2. ASSUME NEW t \in Sessions \ {s}, Committed(s)', Committed(t)
      PROVE  Request(t) # Request(s)'
  <2>1. CASE Committed(s) /\ Request(s)' = Request(s)
    BY <1>2, <2>1 DEF StopInv, OnceInv
  <2>2. CASE UseRequest(s) /\ Request(s)' = Request(s)
    <3>1. Request(s) \notin used
      BY <2>2 DEF UseRequest, Consume
    <3>2. Request(t) \in used
      BY <1>2 DEF StopInv, ClearedInv
    <3> QED  BY <2>2, <3>1, <3>2
  <2> QED  BY <1>2, <2>1, <2>2, CommittedSources
<1>3. ASSUME NEW t \in Sessions, NEW u \in Sessions \ {t},
             Committed(t)', Committed(u)'
      PROVE  Request(u)' # Request(t)'
  <2>1. CASE t = s
    BY <1>1, <1>2, <1>3, <2>1
  <2>2. CASE u = s
    BY <1>1, <1>2, <1>3, <2>2
  <2>3. CASE t # s /\ u # s
    BY <1>1, <1>3, <2>3 DEF StopInv, OnceInv
  <2> QED  BY <2>1, <2>2, <2>3
<1> QED  BY <1>3 DEF OnceInv

LEMMA RelatchStep ==  ASSUME JointTypeOK, PortInv, NEW s \in Sessions, Works(s),
         \A t \in Sessions : PlaceInv(t), StopInv
  PROVE  RelatchInv'
<1> SUFFICES ASSUME stopFile' = "absent", cleared' # {}
             PROVE  \E u \in cleared' :
                      u \in cut' \/ at'[u] \in OnPort \ {"recorded", "close"}
  BY DEF RelatchInv
<1>0. Moving(s) /\ ProgramTypeOK
  BY Parts, ProgramSteps
<1>p. at \in [Sessions -> Places] /\ cleared \subseteq Sessions
  BY DEF JointTypeOK
<1>1. CASE Recover(s)
  <2>1. at'[s] = "begin" /\ s \in cleared'
    BY <1>p, <1>1 DEF Recover, Moves
  <2> QED  BY <2>1, OnPortPlaces
<1>2. CASE ~Recover(s)
  <2>1. cleared' = cleared
    BY <1>0, <1>2, TriesSources, HandlesSources, AwaySources DEF Works
  <2>2. stopFile = "absent"
    BY <1>2, FilesStay, Nobody
  <2>3. PICK u \in cleared : u \in cut \/ at[u] \in OnPort \ {"recorded", "close"}
    BY <2>1, <2>2 DEF StopInv, RelatchInv
  <2>4. u \in cut => u \in cut'
    BY <1>0 DEF Moving
  <2>5. CASE u # s
    BY <1>0, <1>p, <2>1, <2>3, <2>4, <2>5, Elsewhere
  <2>6. CASE u = s /\ u \notin cut
    <3>1. /\ at[s] \in OnPort \ {"recorded", "close"}
          /\ mode[s] = "commissioning" /\ at[s] # "over"
          /\ ClearedInv(s) /\ PlaceInv(s) /\ owner = s
      BY <1>p, <2>3, <2>6, OnPortPlaces DEF StopInv, ClearedInv, PortInv
    <3>2. ~TripStop(s)
      BY <2>2, Nobody DEF TripStop, Tripped
    <3>3. CASE Tries(s)
      <4>1. at'[s] \in OnPort
        BY <3>3, StaysOn DEF Stays
      <4>2. at'[s] # "recorded"
        BY <1>0, <3>2, <3>3, TriesSources DEF Relatch
      <4>3. at'[s] # "close"
        <5>1. LoopEnds(s) => phase = "completed" \/ at[s] = "recorded"
          BY DEF LoopEnds, Moves
        <5> QED  BY <1>0, <3>1, <3>3, <5>1, TriesSources DEF PlaceInv
      <4> QED  BY <2>1, <2>6, <4>1, <4>2, <4>3
    <3>4. CASE Handles(s)
      <4>1. at'[s] \in OnPort
        BY <3>4, StaysOn DEF Stays
      <4>2. at'[s] # "recorded"
        BY <1>0, <3>4, HandlesPlaces DEF Holding
      <4>3. at'[s] = "close" => s \in cut'
        <5>1. ~Trip(s)
          BY <3>1, <3>2 DEF Trip
        <5>2. HandlerCut(s) => s \in cut'
          BY <3>1 DEF HandlerCut
        <5> QED  BY <1>0, <3>1, <3>4, <5>1, <5>2, HandlesSources
      <4> QED  BY <2>1, <2>6, <4>1, <4>2, <4>3
    <3>5. CASE Enters(s) \/ Ends(s)
      BY <1>0, <2>1, <2>6, <3>1, <3>5, AwaySources
    <3> QED  BY <3>3, <3>4, <3>5 DEF Works
  <2> QED  BY <1>p, <2>1, <2>3, <2>4, <2>5, <2>6
<1> QED  BY <1>1, <1>2

LEMMA LatchedStep ==
  ASSUME JointTypeOK, PortInv, NEW s \in Sessions, Works(s),
         \A t \in Sessions : PlaceInv(t), StopInv
  PROVE  \A t \in Sessions : LatchedInv(t)'
<1>0. Moving(s) /\ ProgramTypeOK
  BY Parts, ProgramSteps
<1>f. attendedLatch # "absent" => attendedLatch' # "absent"
  BY FilesStay
<1>1. ASSUME NEW t \in Sessions, t # s PROVE LatchedInv(t)'
  <2>1. /\ at'[t] = at[t] /\ mode'[t] = mode[t]
        /\ t \in cut' <=> t \in cut
    BY <1>0, <1>1, Elsewhere
  <2>2. LatchedInv(t)
    BY DEF StopInv
  <2>3. at[t] = "close" => report' = report
    <3>1. at[t] = "close" => Away(s)
      BY <1>1, Alone, OnPortPlaces
    <3> QED  BY <3>1 DEF Away, executor
  <2> QED  BY <1>f, <2>1, <2>2, <2>3 DEF LatchedInv
<1>2. LatchedInv(s)'
  <2> SUFFICES ASSUME mode'[s] = "attended", at'[s] = "close", s \notin cut',
                      report' \notin {"none", Normal}
               PROVE  attendedLatch' # "absent"
    BY DEF LatchedInv
  <2>1. CASE Tries(s)
    <3>1. LoopEnds(s) /\ mode[s] = "attended"
      BY <1>0, <2>1, OnItKeeps, TriesSources DEF Stays
    <3>2. at[s] = "loop" /\ report' = report
      <4>1. at[s] \in {"loop", "recorded"} /\ UNCHANGED executor
        BY <3>1 DEF LoopEnds, Moves
      <4> QED  BY <3>1, <4>1 DEF PlaceInv, executor
    <3>3. at[s] \in Trying
      BY <3>2 DEF Trying
    <3> QED  BY <3>2, <3>3 DEF PlaceInv
  <2>2. CASE Handles(s)
    <3>1. mode[s] = "attended"
      BY <1>0, <2>2, OnItKeeps DEF Stays
    <3>2. ~HandlerCut(s)
      BY <3>1 DEF HandlerCut
    <3>3. Trip(s)
      BY <1>0, <2>2, <3>1, <3>2, HandlesSources
    <3>4. TripAttended(s)
      BY <3>1, <3>3 DEF Trip
    <3> QED  BY <3>4, Nobody DEF TripAttended, Tripped
  <2>3. CASE Enters(s) \/ Ends(s)
    <3>1. Open(s)
      BY <1>0, <2>3, AwaySources, OnPortPlaces
    <3> QED  BY <1>0, <3>1 DEF Open, Moves, ProgramTypeOK
  <2> QED  BY <2>1, <2>2, <2>3 DEF Works
<1> QED  BY <1>1, <1>2

LEMMA SendingStep ==
  ASSUME JointTypeOK, PortInv, NEW s \in Sessions, Works(s),
         \A t \in Sessions : PlaceInv(t), StopInv
  PROVE  \A t \in Sessions : SendingInv(t)'
<1>0. Moving(s) /\ ProgramTypeOK
  BY Parts, ProgramSteps
<1>1. ASSUME NEW t \in Sessions, t # s PROVE SendingInv(t)'
  <2> SUFFICES ASSUME at'[t] = "send", mode'[t] = "attended"
               PROVE  AttendedClear(reviewed[t])'
    BY DEF SendingInv
  <2>1. at[t] = "send" /\ mode[t] = "attended" /\ reviewed'[t] = reviewed[t]
    BY <1>0, <1>1, Elsewhere
  <2>2. AttendedClear(reviewed[t]) /\ reviewed[t] \in Stops
    BY <2>1 DEF StopInv, SendingInv, JointTypeOK
  <2>3. Away(s) /\ at[s] \notin OnPort
    <3>1. Away(s)
      BY <1>1, <2>1, Alone, OnPortPlaces
    <3> QED  BY <3>1 DEF Away
  <2>4. stopFile' = stopFile
    <3>1. ~Recover(s)
      BY <2>3, OnPortPlaces DEF Recover, Moves
    <3>2. stopFile # "absent"
      BY <2>2, Nobody DEF AttendedClear, Stops
    <3> QED  BY <3>1, <3>2, FilesStay
  <2>5. attendedLatch' = attendedLatch
    <3>1. ~TripAttended(s) \/ at[s] # "trip"
      BY <2>3, OnPortPlaces
    <3>2. \/ UNCHANGED stops \/ TripStop(s)
          \/ TripAttended(s) /\ at[s] = "trip"
          \/ UseRequest(s) \/ Recover(s)
      BY StopsSteps
    <3> QED
      BY <3>1, <3>2 DEF stops, TripStop, UseRequest, Consume, Recover,
         AcknowledgeStop
  <2> QED  BY <2>1, <2>2, <2>4, <2>5 DEF AttendedClear
<1>2. SendingInv(s)'
  <2> SUFFICES ASSUME at'[s] = "send", mode'[s] = "attended"
               PROVE  AttendedClear(reviewed[s])'
    BY DEF SendingInv
  <2>1. Tries(s)
    <3>1. ~Handles(s)
      BY <1>0, HandlesPlaces DEF Holding
    <3>2. ~Open(s)
      BY <1>0 DEF Open, Moves, ProgramTypeOK
    <3>3. ~(Enters(s) \/ Ends(s))
      BY <1>0, <3>2, AwaySources, OnPortPlaces
    <3> QED  BY <3>1, <3>3 DEF Works
  <2>2. mode[s] = "attended" /\ reviewed' = reviewed
    BY <1>0, <2>1, OnItKeeps DEF Stays
  <2>3. AttendedClear(reviewed[s]) /\ UNCHANGED stops
    <3>1. CASE CheckAgain(s)
      BY <3>1 DEF CheckAgain
    <3>2. CASE SendNext(s)
      <4>1. at[s] = "send" /\ UNCHANGED stops
        BY <3>2 DEF SendNext, Moves
      <4> QED  BY <2>2, <4>1 DEF StopInv, SendingInv
    <3>3. CASE Begin(s)
      <4>1. at[s] = "begin" \/ mode[s] = "single"
        BY <3>3 DEF Begin, Moves
      <4> QED  BY <2>2, <4>1 DEF PlaceInv
    <3> QED  BY <1>0, <2>1, <3>1, <3>2, <3>3, TriesSources
  <2> QED  BY <2>2, <2>3 DEF AttendedClear, stops
<1> QED  BY <1>1, <1>2

(***************************************************************************)
(* The invariant, and what it shows                                        *)
(***************************************************************************)

JointInv ==
  /\ JointTypeOK
  /\ PortInv
  /\ \A s \in Sessions : PlaceInv(s)
  /\ StopInv

LEMMA InvInit == Init => JointInv
<1> SUFFICES ASSUME Init PROVE JointInv
  OBVIOUS
<1>1. JointTypeOK
  BY TypeInit
<1>2. /\ at = [s \in Sessions |-> "idle"] /\ mode = [s \in Sessions |-> "single"]
      /\ reviewed = [s \in Sessions |-> "first"] /\ cleared = {}
      /\ owner = "nobody" /\ phase = "initializing" /\ report = "none"
      /\ stopFile \in {"first", "absent"}
  BY DEF Init, LinkInit, ExecutorInit, StopsInit
<1>3. PortInv
  BY <1>2, Nobody, OnPortPlaces DEF Init, LinkInit, ExecutorInit, PortInv
<1>4. "idle" \notin Trying
  BY OnPortPlaces DEF OnPort
<1>5. ASSUME NEW s \in Sessions PROVE PlaceInv(s)
  BY <1>2, <1>4 DEF PlaceInv
<1>6. StopInv
  BY <1>2, Nobody, OnPortPlaces DEF StopInv, RelatchInv, NamedInv, ClearedInv,
     OnceInv, Committed, SendingInv, LatchedInv
<1> QED  BY <1>1, <1>3, <1>5, <1>6 DEF JointInv

LEMMA InvStep == JointInv /\ [Next]_vars => JointInv'
<1> SUFFICES ASSUME JointInv, [Next]_vars PROVE JointInv'
  OBVIOUS
<1>0. /\ JointTypeOK /\ PortInv /\ StopInv
      /\ \A s \in Sessions : PlaceInv(s)
      /\ JointTypeOK'
  BY TypeStep DEF JointInv
<1>1. ASSUME NEW s \in Sessions, Works(s) PROVE JointInv'
  BY <1>0, <1>1, PortStep, PlaceStep, NamedStep, ClearedStep, OnceStep,
     RelatchStep, LatchedStep, SendingStep DEF JointInv, StopInv
<1>2. CASE UNCHANGED <<stops, owner, goal, attempted, phase, settled, report,
                       programs>>
  <2>1. PortInv'
    BY <1>0, <1>2 DEF PortInv, programs
  <2>2. \A s \in Sessions : PlaceInv(s)'
    BY <1>0, <1>2 DEF PlaceInv, programs
  <2>3. StopInv'
    BY <1>0, <1>2 DEF StopInv, RelatchInv, NamedInv, ClearedInv, SendingInv,
       OnceInv, Committed, LatchedInv, AttendedClear, Request, programs, stops
  <2> QED  BY <1>0, <2>1, <2>2, <2>3 DEF JointInv
<1>3. CASE TypeLine
  BY <1>2, <1>3 DEF TypeLine, link, drives, knowledge, executor, position
<1>4. CASE DrivesMove /\ UNCHANGED <<executor, terminal, programs>>
  BY <1>2, <1>4 DEF DrivesMove, knowledge, executor, position
<1>5. CASE UNCHANGED vars
  BY <1>2, <1>5 DEF vars, link, drives, knowledge, executor, position
<1> QED  BY <1>1, <1>3, <1>4, <1>5 DEF Next, Works

LEMMA InvAlways == Spec => []JointInv
BY InvInit, InvStep, PTL DEF Spec

\* The programs, the files, the port and the drives keep their types.
THEOREM JointTypeCorrect == Spec => []JointTypeOK
<1>1. JointInv => JointTypeOK
  BY DEF JointInv
<1> QED  BY <1>1, InvAlways, PTL

\* run_joint_table, MotorStopLatch and AttendedPositioning.check_stop: whatever
\* the other programs do to the files in between, the drives are commanded only
\* under the stop that was reviewed, or with the one cleared that was to be.
THEOREM MovesAreReviewed == Spec => []MovesUnderReview
<1>1. JointInv => MovesUnderReview
  <2> SUFFICES ASSUME JointInv, NEW s \in Sessions, at[s] = "send"
               PROVE  /\ mode[s] = "attended" =>
                           attendedLatch = "absent" /\ stopFile = reviewed[s]
                      /\ mode[s] = "commissioning" =>
                           /\ s \in cleared /\ Request(s) \in used
                           /\ stopFile # reviewed[s]
                           /\ \A t \in Sessions \ {s} :
                                Committed(t) => Request(t) # Request(s)
    BY DEF MovesUnderReview
  <2>1. ClearedInv(s) /\ OnceInv(s) /\ SendingInv(s) /\ at[s] \in OnPort
    BY OnPortPlaces DEF JointInv, StopInv
  <2> QED  BY <2>1 DEF ClearedInv, OnceInv, Committed, SendingInv, AttendedClear
<1> QED  BY <1>1, InvAlways, PTL

\* run_joint_table: every way out of the commissioning and of an attended
\* session, but for being killed or interrupted in the handler, latches a stop.
THEOREM EndsLatch == Spec => []EndsAreLatched
<1>1. JointInv => EndsAreLatched
  BY DEF JointInv, StopInv, RelatchInv, LatchedInv, EndsAreLatched, Normal
<1> QED  BY <1>1, InvAlways, PTL

(***************************************************************************)
(* The terminal                                                            *)
(***************************************************************************)

\* The lines that wait were typed after the latest prompt.
TypedInv == \A line \in typed : line[2] = prompted

LEMMA OperatorTyped ==
  ASSUME NEW s \in Sessions, OperatorStep(s)
  PROVE  typed' = {}
<1>1. \/ FinishPositioning \/ StayPut \/ StartItself \/ ReturnToZero
      \/ StartGroup
  BY DEF OperatorStep
<1> QED
  BY <1>1 DEF FinishPositioning, StayPut, StartItself, ReturnToZero, StartGroup,
     Obeys, Reads

LEMMA TypedWorks ==
  ASSUME NEW s \in Sessions, Works(s)
  PROVE  typed' = {} \/ UNCHANGED <<typed, prompted>>
<1>1. CASE Enters(s)
  BY <1>1 DEF Enters, Start, CheckScope, UseRequest, TurnedAway, Open,
     CannotOpen, terminal
<1>2. CASE Tries(s)
  BY <1>2, OperatorTyped DEF Tries, Prepare, Loop, ReadCycle, ObserveCycle,
     CheckAgain, Recover, Begin, PoseReached, Relatch, Wait, SendNext,
     SendRaises, LoopEnds, Raises, OperatorStops, Leave, terminal
<1>3. CASE Handles(s)
  BY <1>3 DEF Handles, NothingSent, Untrusted, Hold, HoldRead, HoldSend,
     HoldWatch, HoldObserved, HoldFails, HoldRaises, Trip, HandlerCut, Reported,
     terminal
<1>4. CASE Ends(s)
  BY <1>4 DEF Ends, Close, LateTrip, Killed, Forgotten, Leave, terminal
<1> QED  BY <1>1, <1>2, <1>3, <1>4 DEF Works

LEMMA TypedAlways == Spec => []TypedInv
<1>1. Init => TypedInv
  BY DEF Init, ExecutorInit, TypedInv
<1>2. TypedInv /\ [Next]_vars => TypedInv'
  <2> SUFFICES ASSUME TypedInv, [Next]_vars PROVE TypedInv'
    OBVIOUS
  <2>1. ASSUME NEW s \in Sessions, Works(s) PROVE TypedInv'
    BY <2>1, TypedWorks DEF TypedInv
  <2>2. CASE TypeLine
    <3>1. PICK key \in Keys : Type(key)
      BY <2>2 DEF TypeLine
    <3> QED  BY <3>1 DEF Type, TypedInv
  <2>3. CASE UNCHANGED <<typed, prompted>>
    BY <2>3 DEF TypedInv
  <2> QED  BY <2>1, <2>2, <2>3 DEF Next, Works, vars, terminal
<1> QED  BY <1>1, <1>2, PTL DEF Spec

\* A line that makes the arm move answers the prompt for its position.
LEMMA Answers ==
  ASSUME TerminalTypeOK, TypedInv, ~Automatic, phase \in Stopped,
         NEW key \in {"enter", "r"}, key \in Commands
  PROVE  <<key, Asked>> \in typed
<1>1. ~Prompting
  BY DEF Commands
<1>2. prompted = Asked
  BY <1>1 DEF Prompting
<1>3. PICK l \in typed : l[1] = key
  BY DEF Commands
<1>4. l \in Keys \X Prompts /\ l[2] = Asked
  BY <1>2, <1>3 DEF TypedInv, TerminalTypeOK
<1>5. l = <<key, Asked>>
  BY <1>3, <1>4
<1> QED  BY <1>5

\* PositioningOperator.step: nothing that was typed before the prompt of this
\* position was given makes the arm move.
THEOREM LinesBegin == Spec => BeginsByLine
<1>1. JointInv /\ TypedInv /\ [Next]_vars =>
        [\A s \in Sessions :
           at[s] = "act" /\ at'[s] = "check" /\ ~Automatic =>
             \E key \in {"enter", "r"} : <<key, Asked>> \in typed]_vars
  <2> SUFFICES ASSUME JointInv, TypedInv, Next, NEW s \in Sessions,
                      at[s] = "act", at'[s] = "check", ~Automatic
               PROVE  \E key \in {"enter", "r"} : <<key, Asked>> \in typed
    OBVIOUS
  <2>1. JointTypeOK /\ ProgramTypeOK /\ TerminalTypeOK /\ PortInv
    BY ExecutorParts, Parts DEF JointInv
  <2>2. PICK t \in Sessions : Works(t)
    <3>1. ~TypeLine
      BY DEF TypeLine, programs
    <3>2. ~UNCHANGED <<executor, terminal, programs>>
      BY DEF programs
    <3>3. \E t \in Sessions : Works(t)
      BY <3>1, <3>2, Zenon DEF Next, Works
    <3> QED  BY <3>3
  <2>3. t = s
    BY <2>1, <2>2, ProgramSteps, Elsewhere
  <2>4. OperatorStep(s)
    <3>1. at[s] \in OnPort
      BY OnPortPlaces
    <3>2. Tries(s)
      <4>1. ~Handles(s)
        BY <2>1, HandlesPlaces DEF Holding
      <4>2. ~Enters(s)
        BY OnPortPlaces DEF Enters, Start, CheckScope, UseRequest, TurnedAway,
           Open, CannotOpen, Moves
      <4>3. ~Ends(s)
        BY <2>1 DEF Ends, Close, LateTrip, Killed, Over, ProgramTypeOK
      <4> QED  BY <2>2, <2>3, <4>1, <4>2, <4>3 DEF Works
    <3>3. at \in [Sessions -> Places]
      BY <2>1 DEF ProgramTypeOK
    <3> QED
      BY <3>2, <3>3 DEF Tries, Prepare, Loop, ReadCycle, ObserveCycle, CheckAgain,
         Recover, Begin, PoseReached, Relatch, Wait, SendNext, SendRaises,
         LoopEnds, Raises, OperatorStops, Moves
  <2>5. ReturnToZero \/ StartGroup
    BY <2>1, <2>4 DEF OperatorStep, Moves, StartItself, ProgramTypeOK
  <2>6. CASE ReturnToZero
    <3>1. "r" \in Commands /\ phase \in Stopped
      BY <2>6 DEF ReturnToZero, Stopped
    <3> QED  BY <2>1, <3>1, Answers
  <2>7. CASE StartGroup
    <3>1. "enter" \in Commands /\ phase \in Stopped
      BY <2>7 DEF StartGroup, Stopped
    <3> QED  BY <2>1, <3>1, Answers
  <2> QED  BY <2>5, <2>6, <2>7
<1> QED  BY <1>1, InvAlways, TypedAlways, PTL DEF Spec, BeginsByLine

(***************************************************************************)
(* What a program knows of the arm                                         *)
(***************************************************************************)

Arrivals == {"holding_position", "holding_zero", "awaiting_measurement",
             "positioning_completed"}
\* The arm was moved, and it is where it was to go.
There == phase \in Arrivals \/ (phase = "completed" /\ goal # Untold)

\* The loops over the joints.
PassInv(s) ==
  /\ todo \subseteq Group(s) /\ todo # {}
  /\ at[s] \in (Trying \ {"read", "send"}) \cup {"hold_judge"} => todo = Group(s)

\* The phase at each place.
PhaseInv(s) ==
  /\ at[s] = "prepare" => phase = "initializing" /\ ~settled
  /\ at[s] = "begin" => phase = "ready"
  /\ at[s] \in {"check", "send"} => phase = "moving" /\ ~settled
  /\ at[s] \in {"read", "observe"} => phase # "completed"
  /\ at[s] \in {"relatch", "recorded"} => phase = "positioning_completed"
  /\ phase = "positioning_completed" => at[s] \in {"relatch", "recorded", "close"}
  /\ at[s] \in Holding \cup {"abort", "trip"} => phase = "aborted"
  /\ at[s] \in {"abort", "hold_read", "hold_send"} => ~settled
  /\ at[s] = "close" => phase \in {"completed", "positioning_completed", "aborted"}

\* What the drives were told.
GoalInv(s) ==
  /\ ~attempted => goal = Untold
  /\ phase \in {"initializing", "ready"} => goal = Untold
  /\ at[s] = "send" => \A j \in Group(s) \ todo : goal[j] = Target
  /\ phase = "moving" /\ at[s] \notin {"check", "send"} =>
       \A j \in Group(s) : goal[j] = Target
  /\ There => \A j \in Group(s) : goal[j] = Target
  /\ at[s] = "hold_send" => \A j \in Group(s) \ todo : goal[j] = Held
  /\ at[s] \in {"hold_watch", "hold_judge"} => \A j \in Group(s) : goal[j] = Held

\* What readings in a row have found since: settled, one at least of each drive;
\* there, two.
SeenInv(s) ==
  /\ There => settled
  /\ settled /\ at[s] \in {"loop", "act", "begin", "relatch", "recorded"} =>
       \A j \in Group(s) : seen[j] # 0
  /\ settled /\ at[s] \in {"read", "hold_watch"} =>
       /\ \A j \in todo : seen[j] # 0
       /\ \A j \in Group(s) \ todo : seen[j] # 1
  /\ settled /\ at[s] \in {"observe", "hold_judge"} =>
       \A j \in Group(s) : seen[j] # 1
  /\ There /\ at[s] = "read" => \A j \in todo : seen[j] = 2
  /\ There /\ at[s] \notin {"read", "observe"} => \A j \in Group(s) : seen[j] = 2

\* What is reported.
ToldInv(s) ==
  /\ report \in {"no_motion_command_attempted", "hold_observed"} =>
       at[s] \in {"trip", "close"}
  /\ report = "no_motion_command_attempted" => goal = Untold
  /\ report = "hold_observed" =>
       \A j \in Group(s) : goal[j] = Held /\ seen[j] = 2
  /\ report = Normal /\ at[s] \notin Holding =>
       \/ goal = Untold
       \/ \E target \in Goals \ {Rest, Held} :
            \A j \in Group(s) : goal[j] = target /\ seen[j] = 2

ArmInv(s) == PassInv(s) /\ PhaseInv(s) /\ GoalInv(s) /\ SeenInv(s) /\ ToldInv(s)

LEMMA NextPart ==
  ASSUME LinkTypeOK, NEW group \in SUBSET Joints, todo \subseteq group,
         todo # {}, group # {}, todo' = NextOf(group)
  PROVE  /\ Min(todo) \in todo /\ Min(todo) \in Joints
         /\ LastOf => todo = {Min(todo)} /\ todo' = group
         /\ ~LastOf => todo' = todo \ {Min(todo)}
         /\ todo' # {} /\ todo' \subseteq group
BY First, Last DEF LinkTypeOK, NextOf, LastOf

LEMMA ReadLoop ==
  ASSUME LinkTypeOK, NEW group \in SUBSET Joints, todo \subseteq group,
         todo # {}, group # {}, ReadNext(group)
  PROVE  /\ Min(todo) \in todo /\ Min(todo) \in Joints
         /\ LastOf => todo = {Min(todo)} /\ todo' = group
         /\ ~LastOf => todo' = todo \ {Min(todo)}
         /\ todo' # {} /\ todo' \subseteq group
         /\ \A i \in Joints \ {Min(todo)} : seen'[i] = seen[i]
         /\ seen[Min(todo)] # 0 => seen'[Min(todo)] # 1
         /\ UNCHANGED <<goal, attempted>>
<1>1. /\ Min(todo) \in todo /\ Min(todo) \in Joints
      /\ LastOf => todo = {Min(todo)} /\ todo' = group
      /\ ~LastOf => todo' = todo \ {Min(todo)}
      /\ todo' # {} /\ todo' \subseteq group
  BY NextPart DEF ReadNext
<1> DEFINE m == Min(todo)
           v == IF m \notin still THEN 0 ELSE Min({2, seen[m] + 1})
<1>2. seen' = [seen EXCEPT ![m] = v] /\ seen \in [Joints -> 0 .. 2]
  BY DEF ReadNext, LinkTypeOK
<1>3. m \in Joints
  BY <1>1
<1>4. seen[m] # 0 => v # 1
  BY <1>2, <1>3, OneMore
<1> HIDE DEF m, v
<1>5. \A i \in Joints \ {m} : seen'[i] = seen[i]
  BY <1>2
<1>6. seen[m] # 0 => seen'[m] # 1
  BY <1>2, <1>3, <1>4
<1>7. UNCHANGED <<goal, attempted>>
  BY DEF ReadNext, drives
<1> QED  BY <1>1, <1>5, <1>6, <1>7 DEF m

LEMMA SendLoop ==
  ASSUME LinkTypeOK, NEW group \in SUBSET Joints, todo \subseteq group,
         todo # {}, group # {}, NEW what, Command(what, group)
  PROVE  /\ Min(todo) \in todo /\ Min(todo) \in Joints
         /\ LastOf => todo = {Min(todo)} /\ todo' = group
         /\ ~LastOf => todo' = todo \ {Min(todo)}
         /\ todo' # {} /\ todo' \subseteq group
         /\ goal'[Min(todo)] = what
         /\ \A i \in Joints \ {Min(todo)} : goal'[i] = goal[i]
         /\ attempted'
<1>1. /\ Min(todo) \in todo /\ Min(todo) \in Joints
      /\ LastOf => todo = {Min(todo)} /\ todo' = group
      /\ ~LastOf => todo' = todo \ {Min(todo)}
      /\ todo' # {} /\ todo' \subseteq group
  BY NextPart DEF Command
<1>2. goal' = [goal EXCEPT ![Min(todo)] = what] /\ goal \in [Joints -> Goals]
  BY DEF Command, Told, LinkTypeOK
<1>3. attempted'
  BY DEF Command
<1> QED  BY <1>1, <1>2, <1>3

\* What there is to know when a program has the port.
Knows(s) ==
  /\ JointTypeOK /\ s \in Sessions
  /\ ArmInv(s) /\ PlaceInv(s)
  /\ owner = s

LEMMA Typed ==
  ASSUME NEW s, Knows(s)
  PROVE  /\ LinkTypeOK /\ ExecutorTypeOK
         /\ Group(s) \subseteq Joints /\ Group(s) # {}
         /\ at \in [Sessions -> Places] /\ s \in Sessions
         /\ goal \in [Joints -> Goals] /\ seen \in [Joints -> 0 .. 2]
         /\ todo \subseteq Joints
         /\ Target \in Goals \ {Rest, Held}
         /\ PassInv(s) /\ PhaseInv(s) /\ GoalInv(s) /\ SeenInv(s) /\ ToldInv(s)
         /\ PlaceInv(s)
BY Groups, GoalTypes DEF Knows, JointTypeOK, LinkTypeOK, ArmInv

LEMMA SameGroup ==
  ASSUME NEW s, mode'[s] = mode[s]
  PROVE  Group(s)' = Group(s)
BY DEF Group

LEMMA SameTarget ==
  ASSUME UNCHANGED <<index, returning>>
  PROVE  Target' = Target
BY DEF Target

\* From a place to the next, with the arm as it was.
LEMMA Walks ==
  ASSUME NEW s, Knows(s), mode' = mode,
         UNCHANGED <<goal, todo, seen, attempted, executor>>,
         \/ at[s] = "prepare" /\ at'[s] = "loop"
         \/ at[s] = "loop" /\ at'[s] = "read" /\ phase # "completed"
         \/ at[s] = "check" /\ at'[s] = "send"
         \/ at[s] = "act" /\ at'[s] = "begin" /\ phase = "ready"
         \/ at[s] = "act" /\ at'[s] = "loop"
         \/ at[s] = "relatch" /\ at'[s] = "recorded"
         \/ at[s] = "loop" /\ at'[s] = "close" /\ phase = "completed"
         \/ at[s] = "recorded" /\ at'[s] = "close"
         \/ at[s] \in {"trip", "abort"} /\ at'[s] = "close"
  PROVE  ArmInv(s)'
<1>0. /\ PassInv(s) /\ PhaseInv(s) /\ GoalInv(s) /\ SeenInv(s) /\ ToldInv(s)
      /\ PlaceInv(s) /\ Group(s)' = Group(s) /\ Target' = Target
      /\ There' = There
  BY Typed, SameGroup, SameTarget DEF executor, position, There
<1>1. /\ goal' = goal /\ todo' = todo /\ seen' = seen /\ attempted' = attempted
      /\ phase' = phase /\ settled' = settled /\ report' = report
  BY DEF executor, position
<1>2. PassInv(s)'
  BY <1>0, <1>1 DEF PassInv, Trying
<1>3. PhaseInv(s)'
  BY <1>0, <1>1 DEF PhaseInv, PlaceInv, Holding
<1>4. GoalInv(s)'
  <2>1. at'[s] = "send" => todo = Group(s)
    BY <1>0 DEF PassInv, Trying
  <2>2. at[s] \in {"check", "send"} => at'[s] = "send"
    OBVIOUS
  <2>3. at'[s] \notin {"hold_send", "hold_watch", "hold_judge"}
    OBVIOUS
  <2> QED  BY <1>0, <1>1, <2>1, <2>2, <2>3 DEF GoalInv
<1>5. SeenInv(s)'
  <2>1. at[s] \in {"loop", "act", "relatch", "recorded"} \/ ~settled
        \/ at'[s] = "close"
    BY <1>0 DEF PhaseInv
  <2>2. There => at[s] \in {"loop", "act", "relatch", "recorded", "close"}
                   \/ at'[s] = "close"
    BY <1>0, <2>1 DEF SeenInv
  <2>3. at'[s] = "read" => at[s] = "loop" /\ todo = Group(s)
    BY <1>0 DEF PassInv, Trying
  <2>4. /\ There' => settled'
        /\ settled' /\ at'[s] \in {"loop", "act", "begin", "relatch", "recorded"} =>
             \A j \in Group(s) : seen'[j] # 0
        /\ settled' /\ at'[s] \in {"read", "hold_watch"} =>
             /\ \A j \in todo' : seen'[j] # 0
             /\ \A j \in Group(s) \ todo' : seen'[j] # 1
        /\ settled' /\ at'[s] \in {"observe", "hold_judge"} =>
             \A j \in Group(s) : seen'[j] # 1
    BY <1>0, <1>1, <2>1, <2>3 DEF SeenInv
  <2>5. /\ There' /\ at'[s] = "read" => \A j \in todo' : seen'[j] = 2
        /\ There' /\ at'[s] \notin {"read", "observe"} =>
             \A j \in Group(s) : seen'[j] = 2
    BY <1>0, <1>1, <2>2, <2>3 DEF SeenInv
  <2> QED  BY <1>0, <2>4, <2>5 DEF SeenInv
<1>6. ToldInv(s)'
  BY <1>0, <1>1 DEF ToldInv, Holding
<1> QED  BY <1>2, <1>3, <1>4, <1>5, <1>6 DEF ArmInv

LEMMA ReadsArm ==
  ASSUME NEW s, Knows(s), mode' = mode, ReadNext(Group(s)), UNCHANGED executor,
         \/ at[s] = "read" /\ at'[s] = IF LastOf THEN "observe" ELSE "read"
         \/ at[s] = "hold_read" /\ at'[s] = IF LastOf THEN "hold_send" ELSE "hold_read"
         \/ at[s] = "hold_watch" /\ at'[s] = IF LastOf THEN "hold_judge" ELSE "hold_watch"
  PROVE  ArmInv(s)'
<1>0. /\ PassInv(s) /\ PhaseInv(s) /\ GoalInv(s) /\ SeenInv(s) /\ ToldInv(s)
      /\ PlaceInv(s) /\ Group(s)' = Group(s) /\ Target' = Target
      /\ Group(s) \subseteq Joints /\ Group(s) # {} /\ LinkTypeOK
      /\ seen' \in [Joints -> 0 .. 2]
  BY Typed, SameGroup, SameTarget, ReadTypes DEF executor, position, LinkTypeOK
<1>1. /\ phase' = phase /\ settled' = settled /\ report' = report
  BY DEF executor, position
<1> DEFINE m == Min(todo)
<1>r. /\ m \in todo /\ m \in Joints
      /\ LastOf => todo = {m} /\ todo' = Group(s)
      /\ ~LastOf => todo' = todo \ {m}
      /\ todo' # {} /\ todo' \subseteq Group(s)
      /\ \A i \in Joints \ {m} : seen'[i] = seen[i]
      /\ seen[m] # 0 => seen'[m] # 1
      /\ goal' = goal /\ attempted' = attempted
  BY <1>0, ReadLoop DEF PassInv
<1> HIDE DEF m
<1>t. There' = There
  BY <1>1, <1>r DEF There
<1>2. PassInv(s)'
  BY <1>0, <1>r DEF PassInv, Trying
<1>3. PhaseInv(s)'
  BY <1>0, <1>1 DEF PhaseInv, Holding
<1>4. GoalInv(s)'
  BY <1>0, <1>1, <1>r, <1>t DEF GoalInv
<1>5. SeenInv(s)'
  <2>1. There' => settled' /\ at[s] = "read"
    BY <1>0, <1>1, <1>t DEF SeenInv, PhaseInv, There, Arrivals, Holding
  <2>2. settled => at[s] \in {"read", "hold_watch"}
    BY <1>0 DEF PhaseInv
  <2>3. ASSUME settled
        PROVE  /\ \A j \in Group(s) \ todo : seen'[j] # 1
               /\ \A j \in todo \ {m} : seen'[j] # 0
               /\ seen'[m] # 1
    BY <1>0, <1>r, <2>2, <2>3 DEF SeenInv, PassInv
  <2>4. settled' => /\ at'[s] \in {"read", "hold_watch"} =>
                         /\ \A j \in todo' : seen'[j] # 0
                         /\ \A j \in Group(s) \ todo' : seen'[j] # 1
                    /\ at'[s] \in {"observe", "hold_judge"} =>
                         \A j \in Group(s) : seen'[j] # 1
    <3>1. CASE LastOf
      BY <1>1, <1>r, <2>2, <2>3, <3>1
    <3>2. CASE ~LastOf
      BY <1>1, <1>r, <2>2, <2>3, <3>2
    <3> QED  BY <3>1, <3>2
  <2>5. /\ There' /\ at'[s] = "read" => \A j \in todo' : seen'[j] = 2
        /\ There' => at'[s] \in {"read", "observe"}
    BY <1>0, <1>r, <1>t, <2>1 DEF SeenInv, PassInv
  <2>6. at'[s] \notin {"loop", "act", "begin", "relatch", "recorded"}
    OBVIOUS
  <2> QED  BY <1>0, <2>1, <2>4, <2>5, <2>6 DEF SeenInv
<1>6. ToldInv(s)'
  <2>1. at[s] = "read" => report = "none"
    BY <1>0 DEF PlaceInv, Trying
  <2>2. at[s] # "read" => at'[s] \in Holding
    BY DEF Holding
  <2>3. report \notin {"no_motion_command_attempted", "hold_observed"}
    BY <1>0, <2>1 DEF ToldInv
  <2> QED  BY <1>0, <1>1, <2>1, <2>2, <2>3 DEF ToldInv, Normal
<1> QED  BY <1>2, <1>3, <1>4, <1>5, <1>6 DEF ArmInv

LEMMA SendsArm ==
  ASSUME NEW s, Knows(s), mode' = mode, NEW what, Command(what, Group(s)),
         UNCHANGED executor,
         \/ /\ at[s] = "send" /\ what = Target
            /\ at'[s] = IF LastOf THEN "loop" ELSE "send"
         \/ /\ at[s] = "hold_send" /\ what = Held
            /\ at'[s] = IF LastOf THEN "hold_watch" ELSE "hold_send"
  PROVE  ArmInv(s)'
<1>0. /\ PassInv(s) /\ PhaseInv(s) /\ GoalInv(s) /\ SeenInv(s) /\ ToldInv(s)
      /\ PlaceInv(s) /\ Group(s)' = Group(s) /\ Target' = Target
      /\ Group(s) \subseteq Joints /\ Group(s) # {} /\ LinkTypeOK
  BY Typed, SameGroup, SameTarget DEF executor, position
<1>1. /\ phase' = phase /\ settled' = settled /\ report' = report
  BY DEF executor, position
<1> DEFINE m == Min(todo)
<1>r. /\ m \in todo /\ m \in Joints
      /\ LastOf => todo = {m} /\ todo' = Group(s)
      /\ ~LastOf => todo' = todo \ {m}
      /\ todo' # {} /\ todo' \subseteq Group(s)
      /\ goal'[m] = what
      /\ \A i \in Joints \ {m} : goal'[i] = goal[i]
      /\ attempted'
  BY <1>0, SendLoop DEF PassInv
<1> HIDE DEF m
<1>p. /\ phase \in {"moving", "aborted"} /\ ~settled
      /\ phase = "moving" <=> at[s] = "send"
  BY <1>0 DEF PhaseInv, Holding
<1>t. ~There /\ ~There'
  BY <1>1, <1>p DEF There, Arrivals
<1>2. PassInv(s)'
  BY <1>0, <1>r DEF PassInv, Trying
<1>3. PhaseInv(s)'
  BY <1>0, <1>1, <1>p DEF PhaseInv, Holding
<1>4. GoalInv(s)'
  <2>1. \A j \in Group(s) \ (todo \ {m}) : goal'[j] = what
    BY <1>0, <1>r DEF GoalInv
  <2>2. LastOf => \A j \in Group(s) : goal'[j] = what
    BY <1>r, <2>1
  <2>3. ~LastOf => \A j \in Group(s) \ todo' : goal'[j] = what
    BY <1>r, <2>1
  <2> QED  BY <1>0, <1>1, <1>p, <1>r, <1>t, <2>2, <2>3 DEF GoalInv
<1>5. SeenInv(s)'
  BY <1>1, <1>p, <1>t DEF SeenInv
<1>6. ToldInv(s)'
  <2>1. at[s] = "send" => report = "none"
    BY <1>0 DEF PlaceInv, Trying
  <2>2. at[s] # "send" => at'[s] \in Holding
    BY DEF Holding
  <2>3. report \notin {"no_motion_command_attempted", "hold_observed"}
    BY <1>0, <2>1 DEF ToldInv
  <2> QED  BY <1>0, <1>1, <2>1, <2>2, <2>3 DEF ToldInv, Normal
<1> QED  BY <1>2, <1>3, <1>4, <1>5, <1>6 DEF ArmInv

\* A motion begins: what was known of the arm counts no more.
LEMMA BeginsArm ==
  ASSUME NEW s, Knows(s), mode' = mode, UNCHANGED <<link, report>>,
         phase' = "moving", ~settled',
         at[s] \in {"act", "begin"}, at'[s] \in {"check", "send"}
  PROVE  ArmInv(s)'
<1>0. /\ PassInv(s) /\ PhaseInv(s) /\ GoalInv(s) /\ SeenInv(s) /\ ToldInv(s)
      /\ PlaceInv(s) /\ Group(s)' = Group(s)
  BY Typed, SameGroup
<1>1. /\ goal' = goal /\ todo' = todo /\ seen' = seen /\ attempted' = attempted
      /\ report' = report /\ todo = Group(s)
  BY <1>0 DEF link, drives, knowledge, PassInv, Trying
<1>t. ~There'
  BY DEF There, Arrivals
<1>2. PassInv(s)'
  BY <1>0, <1>1 DEF PassInv
<1>3. PhaseInv(s)'
  BY DEF PhaseInv, Holding
<1>4. GoalInv(s)'
  BY <1>0, <1>1, <1>t DEF GoalInv
<1>5. SeenInv(s)'
  BY <1>t DEF SeenInv
<1>6. ToldInv(s)'
  <2>1. report = "none"
    BY <1>0 DEF PlaceInv, Trying
  <2> QED  BY <1>1, <2>1 DEF ToldInv, Normal
<1> QED  BY <1>2, <1>3, <1>4, <1>5, <1>6 DEF ArmInv

LEMMA ObservesArm ==
  ASSUME NEW s, Knows(s), ObserveCycle(s)
  PROVE  ArmInv(s)'
<1>0. /\ PassInv(s) /\ PhaseInv(s) /\ GoalInv(s) /\ SeenInv(s) /\ ToldInv(s)
      /\ PlaceInv(s) /\ Group(s) \subseteq Joints
      /\ at \in [Sessions -> Places] /\ s \in Sessions
      /\ seen \in [Joints -> 0 .. 2]
  BY Typed
<1>1. /\ at[s] = "observe" /\ at'[s] = "act" /\ mode' = mode
      /\ UNCHANGED <<goal, todo, seen, attempted, index, returning, report>>
  BY <1>0 DEF ObserveCycle, Moves, Same, Observe, link, drives, knowledge
<1>g. Group(s)' = Group(s) /\ Target' = Target
  BY <1>1, SameGroup, SameTarget
<1>o. \/ /\ ~Stationary(Group(s))
         /\ phase \notin {"ready", "holding_position", "holding_zero",
                          "awaiting_measurement"}
         /\ ~settled' /\ phase' = phase
      \/ /\ Stationary(Group(s)) /\ settled'
         /\ \/ phase' = phase
            \/ settled /\ Arrived(mode[s])
            \/ phase = "initializing" /\ phase' = "ready"
  BY DEF ObserveCycle, Observe, Stopped, Arrived
<1>p. \/ phase' = phase
      \/ phase = "initializing" /\ phase' = "ready"
      \/ /\ phase = "moving" /\ Stationary(Group(s)) /\ settled /\ settled'
         /\ phase' \in {"completed", "awaiting_measurement", "holding_zero",
                        "holding_position"}
  BY <1>o DEF Arrived
<1>s. Stationary(Group(s)) => \A j \in Group(s) : seen[j] # 0
  BY <1>0 DEF Stationary
<1>n. phase \notin {"completed", "positioning_completed"}
  BY <1>0, <1>1 DEF PhaseInv
<1>t. There' => /\ settled' /\ settled /\ Stationary(Group(s))
                /\ There \/ phase = "moving"
  BY <1>0, <1>1, <1>n, <1>o, <1>p DEF There, Arrivals, SeenInv
<1>2. PassInv(s)'
  BY <1>0, <1>1, <1>g DEF PassInv, Trying
<1>3. PhaseInv(s)'
  BY <1>1, <1>n, <1>p DEF PhaseInv, Holding
<1>4. GoalInv(s)'
  <2>1. There' \/ phase' = "moving" => There \/ phase = "moving"
    BY <1>t, <1>p
  <2>2. phase' \in {"initializing", "ready"} => phase \in {"initializing", "ready"}
    BY <1>p
  <2> QED  BY <1>0, <1>1, <1>g, <2>1, <2>2 DEF GoalInv
<1>5. SeenInv(s)'
  <2>1. settled' => \A j \in Group(s) : seen[j] # 0
    BY <1>o, <1>s
  <2>2. There' => \A j \in Group(s) : seen[j] = 2
    <3>1. There' => \A j \in Group(s) : seen[j] # 0 /\ seen[j] # 1
      BY <1>0, <1>1, <1>s, <1>t DEF SeenInv
    <3> QED  BY <1>0, <3>1
  <2> QED  BY <1>1, <1>g, <1>t, <2>1, <2>2 DEF SeenInv
<1>6. ToldInv(s)'
  <2>1. report = "none"
    BY <1>0, <1>1 DEF PlaceInv, Trying
  <2> QED  BY <1>1, <2>1 DEF ToldInv, Normal
<1> QED  BY <1>2, <1>3, <1>4, <1>5, <1>6 DEF ArmInv

LEMMA FinishesArm ==
  ASSUME NEW s, Knows(s), mode' = mode, UNCHANGED link, FinishPositioning,
         at[s] = "act", at'[s] = "loop"
  PROVE  ArmInv(s)'
<1>0. /\ PassInv(s) /\ PhaseInv(s) /\ GoalInv(s) /\ SeenInv(s) /\ ToldInv(s)
      /\ PlaceInv(s) /\ Target \in Goals \ {Rest, Held}
  BY Typed
<1>1. /\ UNCHANGED <<goal, todo, seen, attempted, index, returning, settled>>
      /\ phase \in Stopped /\ phase' = "completed" /\ report' = Normal
  BY DEF FinishPositioning, Normal, link, drives, knowledge
<1>g. Group(s)' = Group(s) /\ Target' = Target
  BY <1>1, SameGroup, SameTarget
<1>t. There' => There
  BY <1>0, <1>1 DEF There, Arrivals, GoalInv, Stopped
<1>2. PassInv(s)'
  BY <1>0, <1>1, <1>g DEF PassInv, Trying
<1>3. PhaseInv(s)'
  BY <1>1 DEF PhaseInv, Holding
<1>4. GoalInv(s)'
  BY <1>0, <1>1, <1>g, <1>t DEF GoalInv
<1>5. SeenInv(s)'
  BY <1>0, <1>1, <1>g, <1>t DEF SeenInv
<1>6. ToldInv(s)'
  <2>1. goal # Untold => There'
    BY <1>1 DEF There
  <2>2. goal # Untold => \A j \in Group(s) : goal[j] = Target /\ seen[j] = 2
    BY <1>0, <1>t, <2>1 DEF GoalInv, SeenInv
  <2>3. goal = Untold \/ \E target \in Goals \ {Rest, Held} :
           \A j \in Group(s) : goal[j] = target /\ seen[j] = 2
    BY <1>0, <2>2
  <2> QED  BY <1>1, <1>g, <2>3 DEF ToldInv, Normal
<1> QED  BY <1>2, <1>3, <1>4, <1>5, <1>6 DEF ArmInv

LEMMA PoseArm ==
  ASSUME NEW s, Knows(s), PoseReached(s)
  PROVE  ArmInv(s)'
<1>0. /\ PassInv(s) /\ PhaseInv(s) /\ GoalInv(s) /\ SeenInv(s) /\ ToldInv(s)
      /\ PlaceInv(s) /\ at \in [Sessions -> Places] /\ s \in Sessions
  BY Typed
<1>1. /\ UNCHANGED <<goal, todo, seen, attempted, index, returning, settled,
                     report>>
      /\ phase = "awaiting_measurement" /\ phase' = "positioning_completed"
      /\ at[s] = "act" /\ at'[s] = "relatch" /\ mode' = mode
  BY <1>0 DEF PoseReached, Moves, Same, link, drives, knowledge
<1>g. Group(s)' = Group(s) /\ Target' = Target
  BY <1>1, SameGroup, SameTarget
<1>t. There
  BY <1>1 DEF There, Arrivals
<1>2. PassInv(s)'
  BY <1>0, <1>1, <1>g DEF PassInv, Trying
<1>3. PhaseInv(s)'
  BY <1>1 DEF PhaseInv, Holding
<1>4. GoalInv(s)'
  BY <1>0, <1>1, <1>g, <1>t DEF GoalInv
<1>5. SeenInv(s)'
  BY <1>0, <1>1, <1>g, <1>t DEF SeenInv
<1>6. ToldInv(s)'
  <2>1. report = "none"
    BY <1>0, <1>1 DEF PlaceInv, Trying
  <2> QED  BY <1>1, <2>1 DEF ToldInv, Normal
<1> QED  BY <1>2, <1>3, <1>4, <1>5, <1>6 DEF ArmInv

\* The way into the handler.
LEMMA AbortsArm ==
  ASSUME NEW s, Knows(s), mode' = mode, UNCHANGED <<todo, report>>,
         at[s] \in Trying, at'[s] = "abort", Leave("aborted"),
         \/ UNCHANGED <<goal, seen, attempted>>
         \/ attempted' /\ at[s] # "loop"
  PROVE  ArmInv(s)'
<1>0. /\ PassInv(s) /\ PhaseInv(s) /\ GoalInv(s) /\ SeenInv(s) /\ ToldInv(s)
      /\ PlaceInv(s) /\ Group(s)' = Group(s)
  BY Typed, SameGroup
<1>1. phase' = "aborted" /\ ~settled'
  BY DEF Leave
<1>t. ~There'
  BY <1>1 DEF There, Arrivals
<1>2. PassInv(s)'
  BY <1>0 DEF PassInv, Trying
<1>3. PhaseInv(s)'
  BY <1>1 DEF PhaseInv, Holding
<1>4. GoalInv(s)'
  BY <1>0, <1>1, <1>t DEF GoalInv
<1>5. SeenInv(s)'
  BY <1>1, <1>t DEF SeenInv
<1>6. ToldInv(s)'
  <2>1. report = "none" \/ (report = Normal /\ at[s] = "loop")
    BY <1>0 DEF PlaceInv
  <2>2. CASE report = "none"
    BY <2>2 DEF ToldInv, Normal
  <2>3. CASE report = Normal /\ at[s] = "loop"
    <3>1. at[s] \notin Holding
      BY <2>3 DEF Holding
    <3> QED  BY <1>0, <2>3, <3>1 DEF ToldInv, Normal
  <2> QED  BY <2>1, <2>2, <2>3
<1> QED  BY <1>2, <1>3, <1>4, <1>5, <1>6 DEF ArmInv

LEMMA HoldsArm ==
  ASSUME NEW s, Knows(s), Hold(s)
  PROVE  ArmInv(s)'
<1>0. /\ PassInv(s) /\ PhaseInv(s) /\ GoalInv(s) /\ SeenInv(s) /\ ToldInv(s)
      /\ PlaceInv(s) /\ at \in [Sessions -> Places] /\ s \in Sessions
      /\ Group(s) # {}
  BY Typed
<1>1. /\ UNCHANGED <<goal, attempted, phase, settled, report>>
      /\ todo' = Group(s)
      /\ at[s] = "abort" /\ at'[s] = "hold_read" /\ mode' = mode
  BY <1>0 DEF Hold, Moves, Same, executor, position, drives
<1>g. Group(s)' = Group(s)
  BY <1>1, SameGroup
<1>p. phase = "aborted" /\ ~settled
  BY <1>0, <1>1 DEF PhaseInv
<1>t. ~There'
  BY <1>1, <1>p DEF There, Arrivals
<1>2. PassInv(s)'
  BY <1>0, <1>1, <1>g DEF PassInv
<1>3. PhaseInv(s)'
  BY <1>1, <1>p DEF PhaseInv, Holding
<1>4. GoalInv(s)'
  BY <1>0, <1>1, <1>p, <1>t DEF GoalInv
<1>5. SeenInv(s)'
  BY <1>1, <1>p, <1>t DEF SeenInv
<1>6. ToldInv(s)'
  <2>1. report \notin {"no_motion_command_attempted", "hold_observed"}
    BY <1>0, <1>1 DEF ToldInv
  <2> QED  BY <1>1, <2>1 DEF ToldInv, Holding
<1> QED  BY <1>2, <1>3, <1>4, <1>5, <1>6 DEF ArmInv

LEMMA WatchesArm ==
  ASSUME NEW s, Knows(s), HoldWatch(s)
  PROVE  ArmInv(s)'
<1>0. /\ PassInv(s) /\ PhaseInv(s) /\ GoalInv(s) /\ SeenInv(s) /\ ToldInv(s)
      /\ PlaceInv(s) /\ at \in [Sessions -> Places] /\ s \in Sessions
      /\ Group(s) \subseteq Joints /\ seen \in [Joints -> 0 .. 2]
  BY Typed
<1>1. /\ UNCHANGED <<goal, todo, seen, attempted, phase, report>>
      /\ at[s] = "hold_judge" /\ at'[s] = "hold_watch" /\ mode' = mode
      /\ settled' = Stationary(Group(s))
  BY <1>0 DEF HoldWatch, Moves, Same, link, drives, knowledge
<1>g. Group(s)' = Group(s)
  BY <1>1, SameGroup
<1>p. phase = "aborted" /\ todo = Group(s)
  BY <1>0, <1>1 DEF PhaseInv, PassInv, Holding
<1>t. ~There'
  BY <1>1, <1>p DEF There, Arrivals
<1>s. settled' => \A j \in Group(s) : seen[j] # 0
  <2>1. Stationary(Group(s)) => \A j \in Group(s) : seen[j] # 0
    BY <1>0 DEF Stationary
  <2>2. settled' => Stationary(Group(s))
    BY <1>1, Zenon
  <2> QED  BY <2>1, <2>2, Zenon
<1>2. PassInv(s)'
  BY <1>0, <1>1, <1>g DEF PassInv, Trying
<1>3. PhaseInv(s)'
  BY <1>1, <1>p DEF PhaseInv, Holding
<1>4. GoalInv(s)'
  BY <1>0, <1>1, <1>g, <1>p, <1>t DEF GoalInv
<1>5. SeenInv(s)'
  BY <1>1, <1>g, <1>p, <1>s, <1>t DEF SeenInv
<1>6. ToldInv(s)'
  <2>1. report \notin {"no_motion_command_attempted", "hold_observed"}
    BY <1>0, <1>1 DEF ToldInv
  <2> QED  BY <1>1, <2>1 DEF ToldInv, Holding
<1> QED  BY <1>2, <1>3, <1>4, <1>5, <1>6 DEF ArmInv

\* The ways out of it.
LEMMA ReportsArm ==
  ASSUME NEW s, Knows(s), mode' = mode, UNCHANGED <<todo, phase, settled>>,
         at[s] \in Holding \cup {"abort"}, at'[s] \in {"trip", "close"},
         UNCHANGED <<goal, seen, attempted>> \/ attempted',
         \/ report' = "external_stop_required"
         \/ /\ report' = "no_motion_command_attempted" /\ ~attempted
            /\ UNCHANGED <<goal, seen, attempted>>
         \/ /\ report' = "hold_observed" /\ at[s] = "hold_judge"
            /\ settled /\ Stationary(Group(s))
            /\ UNCHANGED <<goal, seen, attempted>>
  PROVE  ArmInv(s)'
<1>0. /\ PassInv(s) /\ PhaseInv(s) /\ GoalInv(s) /\ SeenInv(s) /\ ToldInv(s)
      /\ PlaceInv(s) /\ Group(s)' = Group(s)
      /\ Group(s) \subseteq Joints /\ seen \in [Joints -> 0 .. 2]
  BY Typed, SameGroup
<1>p. phase = "aborted"
  BY <1>0 DEF PhaseInv
<1>t. ~There'
  BY <1>p DEF There, Arrivals
<1>2. PassInv(s)'
  BY <1>0 DEF PassInv, Trying
<1>3. PhaseInv(s)'
  BY <1>p DEF PhaseInv, Holding
<1>4. GoalInv(s)'
  BY <1>0, <1>p, <1>t DEF GoalInv
<1>5. SeenInv(s)'
  BY <1>t DEF SeenInv
<1>6. ToldInv(s)'
  <2>1. CASE report' = "external_stop_required"
    BY <2>1 DEF ToldInv, Normal
  <2>2. CASE report' = "no_motion_command_attempted" /\ ~attempted
             /\ UNCHANGED <<goal, seen, attempted>>
    BY <1>0, <2>2 DEF ToldInv, GoalInv, Normal
  <2>3. CASE /\ report' = "hold_observed" /\ at[s] = "hold_judge"
             /\ settled /\ Stationary(Group(s))
             /\ UNCHANGED <<goal, seen, attempted>>
    <3>1. \A j \in Group(s) : seen[j] # 0
      BY <1>0, <2>3 DEF Stationary
    <3>2. \A j \in Group(s) : seen[j] = 2 /\ goal[j] = Held
      BY <1>0, <2>3, <3>1 DEF SeenInv, GoalInv
    <3> QED  BY <1>0, <2>3, <3>2 DEF ToldInv, Normal
  <2> QED  BY <2>1, <2>2, <2>3
<1> QED  BY <1>2, <1>3, <1>4, <1>5, <1>6 DEF ArmInv

\* Whoever has the port open knows what it says of the arm.
ArmAll == \A s \in Sessions : owner = s => ArmInv(s)

LEMMA ArmFrame ==
  ASSUME NEW s, ArmInv(s), at'[s] = at[s], mode'[s] = mode[s],
         UNCHANGED <<goal, todo, seen, attempted, executor>>
  PROVE  ArmInv(s)'
<1>0. /\ Group(s)' = Group(s) /\ Target' = Target /\ There' = There
      /\ phase' = phase /\ settled' = settled /\ report' = report
      /\ PassInv(s) /\ PhaseInv(s) /\ GoalInv(s) /\ SeenInv(s) /\ ToldInv(s)
  BY SameGroup, SameTarget DEF executor, position, There, ArmInv
<1>1. PassInv(s)'
  BY <1>0 DEF PassInv
<1>2. PhaseInv(s)'
  BY <1>0 DEF PhaseInv
<1>3. GoalInv(s)'
  BY <1>0 DEF GoalInv
<1>4. SeenInv(s)'
  BY <1>0 DEF SeenInv
<1>5. ToldInv(s)'
  BY <1>0 DEF ToldInv
<1> QED  BY <1>1, <1>2, <1>3, <1>4, <1>5 DEF ArmInv

LEMMA OpensArm ==
  ASSUME JointTypeOK, PortInv, NEW s \in Sessions, Open(s)
  PROVE  ArmInv(s)'
<1>1. /\ at'[s] = "prepare" /\ mode' = mode /\ todo' = Group(s)
      /\ goal' = Untold /\ phase' = "initializing" /\ ~settled'
      /\ report' = "none" /\ Group(s) # {}
  BY Groups DEF Open, Moves, Same, JointTypeOK, PortInv, drives, executor, position
<1>g. Group(s)' = Group(s)
  BY <1>1, SameGroup
<1>t. ~There'
  BY <1>1 DEF There, Arrivals
<1>2. PassInv(s)'
  BY <1>1, <1>g DEF PassInv
<1>3. PhaseInv(s)'
  BY <1>1 DEF PhaseInv, Holding
<1>4. GoalInv(s)'
  BY <1>1, <1>t DEF GoalInv
<1>5. SeenInv(s)'
  BY <1>1, <1>t DEF SeenInv
<1>6. ToldInv(s)'
  BY <1>1 DEF ToldInv, Normal
<1> QED  BY <1>2, <1>3, <1>4, <1>5, <1>6 DEF ArmInv

LEMMA TriesArm ==
  ASSUME NEW s, Knows(s), Tries(s)
  PROVE  ArmInv(s)'
<1>0. at \in [Sessions -> Places] /\ s \in Sessions
  BY Typed
<1>m. mode' = mode
  BY <1>0, Parts, TriesPlaces DEF Knows
<1>1. CASE Prepare(s) \/ Loop(s) \/ CheckAgain(s) \/ Recover(s) \/ Relatch(s)
           \/ Wait(s) \/ LoopEnds(s)
  <2>1. UNCHANGED <<goal, todo, seen, attempted, executor>>
    BY <1>1 DEF Prepare, Loop, CheckAgain, Recover, Relatch, Wait, LoopEnds,
       link, drives, knowledge
  <2> QED
    BY <1>0, <1>1, <1>m, <2>1, Walks DEF Prepare, Loop, CheckAgain, Recover,
       Relatch, Wait, LoopEnds, Moves
<1>2. CASE ReadCycle(s)
  <2>1. /\ at[s] = "read" /\ at'[s] = IF LastOf THEN "observe" ELSE "read"
        /\ ReadNext(Group(s)) /\ UNCHANGED executor
    BY <1>0, <1>2 DEF ReadCycle, Moves
  <2> QED  BY <1>m, <2>1, ReadsArm
<1>3. CASE ObserveCycle(s)
  BY <1>3, ObservesArm
<1>4. CASE OperatorStep(s)
  <2>1. at[s] = "act" /\ UNCHANGED link
    BY <1>4 DEF OperatorStep, Moves
  <2>2. CASE FinishPositioning /\ at'[s] = "loop"
    BY <1>m, <2>1, <2>2, FinishesArm
  <2>3. CASE StayPut /\ at'[s] = "loop"
    <3>1. UNCHANGED <<goal, todo, seen, attempted, executor>>
      BY <2>1, <2>3 DEF StayPut, link, drives, knowledge
    <3> QED  BY <1>m, <2>1, <2>3, <3>1, Walks
  <2>4. CASE (StartItself \/ ReturnToZero \/ StartGroup) /\ at'[s] = "check"
    <3>1. phase' = "moving" /\ ~settled' /\ UNCHANGED report
      BY <2>4 DEF StartItself, ReturnToZero, StartGroup, BeginMotion, StartsOver
    <3> QED  BY <1>m, <2>1, <2>4, <3>1, BeginsArm
  <2> QED  BY <1>0, <1>4, <2>2, <2>3, <2>4 DEF OperatorStep, Moves
<1>5. CASE Begin(s)
  <2>1. /\ at[s] \in {"act", "begin"} /\ at'[s] = "send"
        /\ phase' = "moving" /\ ~settled' /\ UNCHANGED <<link, report>>
    BY <1>0, <1>5 DEF Begin, Moves, BeginMotion, StartsOver
  <2> QED  BY <1>m, <2>1, BeginsArm
<1>6. CASE PoseReached(s)
  BY <1>6, PoseArm
<1>7. CASE SendNext(s)
  <2>1. /\ at[s] = "send" /\ at'[s] = IF LastOf THEN "loop" ELSE "send"
        /\ Command(Target, Group(s)) /\ UNCHANGED executor
    BY <1>0, <1>7 DEF SendNext, Moves
  <2> QED  BY <1>m, <2>1, SendsArm
<1>8. CASE SendRaises(s) \/ Raises(s) \/ OperatorStops(s)
  <2>1. /\ at[s] \in Trying /\ at'[s] = "abort" /\ Leave("aborted")
        /\ UNCHANGED <<todo, report>>
    BY <1>0, <1>8 DEF SendRaises, CommandRaises, Raises, OperatorStops, Moves,
       Trying, link, knowledge
  <2>2. \/ UNCHANGED <<goal, seen, attempted>>
        \/ attempted' /\ at[s] # "loop"
    BY <1>0, <1>8 DEF SendRaises, CommandRaises, Counts, Raises, OperatorStops,
       Moves, link, drives, knowledge
  <2> QED  BY <1>m, <2>1, <2>2, AbortsArm
<1> QED
  BY <1>1, <1>2, <1>3, <1>4, <1>5, <1>6, <1>7, <1>8 DEF Tries

LEMMA HandlesArm ==
  ASSUME NEW s, Knows(s), Handles(s)
  PROVE  ArmInv(s)'
<1>0. at \in [Sessions -> Places] /\ s \in Sessions
  BY Typed
<1>m. mode' = mode
  BY <1>0, Parts, HandlesPlaces DEF Knows
<1>a. Afterwards(s) \in {"trip", "close"}
  BY DEF Afterwards
<1>1. CASE NothingSent(s) \/ Untrusted(s) \/ HoldObserved(s) \/ HoldFails(s)
  <2>1. /\ UNCHANGED <<todo, phase, settled>>
        /\ UNCHANGED <<goal, seen, attempted>>
        /\ at[s] \in Holding \cup {"abort"} /\ at'[s] \in {"trip", "close"}
    BY <1>0, <1>1, <1>a DEF NothingSent, Untrusted, HoldObserved, HoldFails,
       Reported, Holding, drives, knowledge, position
  <2>2. \/ report' = "external_stop_required"
        \/ report' = "no_motion_command_attempted" /\ ~attempted
        \/ /\ report' = "hold_observed" /\ at[s] = "hold_judge"
           /\ settled /\ Stationary(Group(s))
    BY <1>1 DEF NothingSent, Untrusted, HoldObserved, HoldFails, Reported
  <2> QED  BY <1>m, <2>1, <2>2, ReportsArm
<1>2. CASE HoldRaises(s)
  <2>1. /\ UNCHANGED <<todo, phase, settled>> /\ attempted'
        /\ at[s] \in Holding \cup {"abort"} /\ at'[s] \in {"trip", "close"}
        /\ report' = "external_stop_required"
    BY <1>0, <1>2, <1>a DEF HoldRaises, CommandRaises, Counts, Holding, position
  <2> QED  BY <1>m, <2>1, ReportsArm
<1>3. CASE Hold(s)
  BY <1>3, HoldsArm
<1>4. CASE HoldRead(s)
  <2>1. /\ \/ at[s] = "hold_read" /\ at'[s] = IF LastOf THEN "hold_send" ELSE "hold_read"
           \/ at[s] = "hold_watch" /\ at'[s] = IF LastOf THEN "hold_judge" ELSE "hold_watch"
        /\ ReadNext(Group(s)) /\ UNCHANGED executor
    BY <1>0, <1>4 DEF HoldRead, Moves
  <2> QED  BY <1>m, <2>1, ReadsArm
<1>5. CASE HoldSend(s)
  <2>1. /\ at[s] = "hold_send" /\ at'[s] = IF LastOf THEN "hold_watch" ELSE "hold_send"
        /\ Command(Held, Group(s)) /\ UNCHANGED executor
    BY <1>0, <1>5 DEF HoldSend, Moves
  <2> QED  BY <1>m, <2>1, SendsArm
<1>6. CASE HoldWatch(s)
  BY <1>6, WatchesArm
<1>7. CASE Trip(s) \/ HandlerCut(s)
  <2>1. /\ UNCHANGED <<goal, todo, seen, attempted, executor>>
        /\ at[s] \in {"trip", "abort"} /\ at'[s] = "close"
    BY <1>0, <1>7 DEF Trip, HandlerCut, Moves, link, drives, knowledge
  <2> QED  BY <1>m, <2>1, Walks
<1> QED
  BY <1>1, <1>2, <1>3, <1>4, <1>5, <1>6, <1>7 DEF Handles

LEMMA ArmStep ==
  ASSUME JointInv, ArmAll, NEW s \in Sessions, Works(s)
  PROVE  ArmAll'
<1> SUFFICES ASSUME NEW t \in Sessions, owner' = t PROVE ArmInv(t)'
  BY DEF ArmAll
<1>0. /\ JointTypeOK /\ PortInv /\ PlaceInv(t) /\ ProgramTypeOK /\ Moving(s)
  BY Parts, ProgramSteps DEF JointInv
<1>1. CASE t # s
  <2>1. Away(s) /\ owner = t
    BY <1>0, <1>1, Alone
  <2>2. at'[t] = at[t] /\ mode'[t] = mode[t]
    BY <1>0, <1>1, Elsewhere
  <2>3. ArmInv(t) /\ UNCHANGED <<goal, todo, seen, attempted, executor>>
    BY <2>1 DEF ArmAll, Away, link, drives, knowledge
  <2> QED  BY <2>2, <2>3, ArmFrame
<1>2. CASE t = s
  <2>1. at'[s] \in OnPort
    BY <1>0, <1>2, PortStep DEF PortInv
  <2>2. CASE Open(s)
    BY <1>0, <1>2, <2>2, OpensArm
  <2>3. CASE Stays(s)
    <3>1. owner = s
      BY <1>2, <2>3, StaysOwner
    <3>2. Knows(s)
      BY <1>0, <1>2, <3>1 DEF Knows, ArmAll
    <3> QED  BY <1>2, <2>3, <3>2, TriesArm, HandlesArm DEF Stays
  <2> QED  BY <1>0, <2>1, <2>2, <2>3, Kinds DEF Away, Opens, Leaves
<1> QED  BY <1>1, <1>2

LEMMA ArmAlways == Spec => []ArmAll
<1>1. Init => ArmAll
  BY Nobody DEF Init, LinkInit, ArmAll
<1>2. JointInv /\ ArmAll /\ [Next]_vars => ArmAll'
  <2> SUFFICES ASSUME JointInv, ArmAll, [Next]_vars PROVE ArmAll'
    OBVIOUS
  <2>1. ASSUME NEW s \in Sessions, Works(s) PROVE ArmAll'
    BY <2>1, ArmStep
  <2>2. CASE UNCHANGED <<owner, goal, todo, seen, attempted, executor, programs>>
    <3> SUFFICES ASSUME NEW s \in Sessions, owner' = s PROVE ArmInv(s)'
      BY DEF ArmAll
    <3> QED  BY <2>2, ArmFrame DEF ArmAll, programs
  <2>3. CASE TypeLine
    BY <2>2, <2>3 DEF TypeLine, link, drives, knowledge
  <2>4. CASE DrivesMove /\ UNCHANGED <<executor, terminal, programs>>
    BY <2>2, <2>4 DEF DrivesMove, knowledge
  <2>5. CASE UNCHANGED vars
    BY <2>2, <2>5 DEF vars, link, drives, knowledge
  <2> QED  BY <2>1, <2>3, <2>4, <2>5 DEF Next, Works
<1> QED  BY <1>1, <1>2, InvAlways, PTL DEF Spec

\* hold_and_observe and finish_positioning: however readings, commands, errors
\* and interrupts followed each other, what a session reports of the arm is so.
THEOREM ReportsAreTrue == Spec => []ReportIsTrue
<1>1. ArmAll => ReportIsTrue
  <2> SUFFICES ASSUME ArmAll, NEW s \in Sessions, at[s] \in {"trip", "close"},
                      owner = s
               PROVE  /\ report = "no_motion_command_attempted" => goal = Untold
                      /\ report = "hold_observed" =>
                           \A j \in Group(s) : goal[j] = Held /\ seen[j] = 2
                      /\ report = Normal /\ goal # Untold =>
                           \E target \in Goals \ {Rest, Held} :
                             \A j \in Group(s) : goal[j] = target /\ seen[j] = 2
    BY DEF ReportIsTrue, Normal
  <2>1. ToldInv(s) /\ at[s] \notin Holding
    BY DEF ArmAll, ArmInv, Holding
  <2> QED  BY <2>1 DEF ToldInv
<1> QED  BY <1>1, ArmAlways, PTL

\* JointTableExecutor.observe: no drive is left out of an arrival, and no
\* reading from before its command counts.
THEOREM ArrivalsAreWhole == Spec => []ArrivalIsWhole
<1>1. ArmAll => ArrivalIsWhole
  <2> SUFFICES ASSUME ArmAll, NEW s \in Sessions, owner = s, There
               PROVE  \A j \in Group(s) :
                        goal[j] = Target
                          /\ (seen[j] = 2 \/ at[s] \in {"read", "observe"})
    BY DEF ArrivalIsWhole, There, Arrivals
  <2>1. GoalInv(s) /\ SeenInv(s)
    BY DEF ArmAll, ArmInv
  <2> QED  BY <2>1 DEF GoalInv, SeenInv
<1> QED  BY <1>1, ArmAlways, PTL
=============================================================================
