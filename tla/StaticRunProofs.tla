--------------------------- MODULE StaticRunProofs ---------------------------
(***************************************************************************)
(* Proofs about module StaticRun.  First the types, then what the          *)
(* supervisor says of a run, then the windows of the recorders.            *)
(***************************************************************************)
EXTENDS StaticRun, FiniteSetTheorems, TLAPS

USE PendingRoomAssumption, CountedAssumption, MaxCommandsAssumption,
    MaxSignalsAssumption

(***************************************************************************)
(* Types                                                                   *)
(***************************************************************************)

Windows == [Streams -> Nat]

\* Records are numbers of records.
LEMMA WindowTypes ==
  /\ Nothing \in Windows
  /\ \A S : Some(S) \in Windows
  /\ \A w, n \in Windows : With(w, n) \in Windows
  /\ \A n \in Windows : Count(n) \in Windows
BY DEF Windows, Nothing, Some, With, Count

\* Appending keeps a window a window.
LEMMA AppendType ==
  ASSUME NEW r \in Roles, NEW n \in Windows, RecorderTypeOK, Append(r, n)
  PROVE  written' \in [Roles -> [Streams -> Nat]]
BY WindowTypes DEF RecorderTypeOK, Append, Windows

\* So does a check that is admitted, and one that is refused.
LEMMA AdmittedType ==
  ASSUME NEW r \in Roles, NEW n \in Windows, NEW pending,
         RecorderTypeOK, Admitted(r, pending, n)
  PROVE  RecorderTypeOK'
BY WindowTypes DEF RecorderTypeOK, Admitted, Windows

LEMMA RefusedType ==
  ASSUME NEW r \in Roles, NEW pending, RecorderTypeOK, Refused(r, pending)
  PROVE  RecorderTypeOK'
BY WindowTypes DEF RecorderTypeOK, Refused, Windows

\* The open cycles are counted by a number.
LEMMA OpenType ==
  ASSUME open \in SUBSET Ids
  PROVE  IsFiniteSet(open) /\ Cardinality(open) \in Nat
<1>1. IsFiniteSet(Ids)
  BY FS_Interval DEF Ids
<1> QED  BY <1>1, FS_Subset, FS_CardinalityType

\* Nothing that a node keeps changes.
LEMMA NodesUnchanged ==
  ASSUME WorkerTypeOK, UNCHANGED nodeVars
  PROVE  /\ ControllerTypeOK' /\ PlantTypeOK' /\ TopicTypeOK'
         /\ stop' \in BOOLEAN => FlagTypeOK'
<1>1. ControllerTypeOK'
  BY DEF WorkerTypeOK, ControllerTypeOK, nodeVars, controllerVars
<1>2. PlantTypeOK'
  BY DEF WorkerTypeOK, PlantTypeOK, nodeVars, plantVars
<1>3. TopicTypeOK'
  BY DEF WorkerTypeOK, TopicTypeOK, nodeVars, topicVars, historyVars
<1>4. stop' \in BOOLEAN => FlagTypeOK'
  BY DEF WorkerTypeOK, FlagTypeOK, nodeVars, controllerVars, plantVars
<1> QED  BY <1>1, <1>2, <1>3, <1>4

\* A process that dies leaves everything well typed.
LEMMA DiesType ==
  ASSUME NEW r \in Roles, NEW how \in {"clean", "error", "killed"},
         WorkerTypeOK, Dies(r, how), UNCHANGED <<full, ready, result, stop>>
  PROVE  WorkerTypeOK'
<1>1. RecorderTypeOK'
  BY WindowTypes DEF WorkerTypeOK, RecorderTypeOK, Dies, Windows
<1>2. LifeTypeOK'
  BY DEF WorkerTypeOK, LifeTypeOK, Dies, Places, InTry
<1>3. ControllerTypeOK' /\ PlantTypeOK'
  <2>1. CASE r = "controller"
    <3>1. ControllerTypeOK'
      BY <2>1 DEF WorkerTypeOK, ControllerTypeOK, Dies, Terminations
    <3>2. UNCHANGED plantVars
      BY <2>1 DEF Dies
    <3> QED  BY <3>1, <3>2 DEF WorkerTypeOK, PlantTypeOK, plantVars
  <2>2. CASE r # "controller"
    <3>1. PlantTypeOK'
      BY <2>2 DEF WorkerTypeOK, PlantTypeOK, Dies
    <3>2. UNCHANGED controllerVars
      BY <2>2 DEF Dies
    <3> QED  BY <3>1, <3>2 DEF WorkerTypeOK, ControllerTypeOK, controllerVars
  <2> QED  BY <2>1, <2>2
<1>4. TopicTypeOK'
  BY DEF WorkerTypeOK, TopicTypeOK, Dies, topicVars, historyVars
<1>5. FlagTypeOK'
  <2>1. stop' \in BOOLEAN
    BY DEF WorkerTypeOK, FlagTypeOK
  <2>2. calculating' \in BOOLEAN /\ faulted' \in BOOLEAN
    BY DEF WorkerTypeOK, FlagTypeOK, Dies, controllerVars
  <2>3. moving' \in BOOLEAN
    BY DEF WorkerTypeOK, FlagTypeOK, Dies, plantVars
  <2> QED  BY <2>1, <2>2, <2>3 DEF FlagTypeOK
<1> QED  BY <1>1, <1>2, <1>3, <1>4, <1>5 DEF WorkerTypeOK

\* Going somewhere, or to the end with an exhausted budget, is well typed.
LEMMA LivesType ==
  ASSUME NEW r \in Roles, WorkerTypeOK, Lives(r)
  PROVE  WorkerTypeOK'
<1>0. RecorderTypeOK /\ Nothing \in Windows
  BY WindowTypes DEF WorkerTypeOK
<1>1. CASE StartFails(r)
  BY <1>1, DiesType DEF StartFails
<1>2. CASE ~StartFails(r)
  <2>1. RecorderTypeOK'
    BY <1>0, <1>2, AdmittedType, RefusedType
    DEF Lives, Build, NodeFails, Report, Loop, Idle, CheckRefused, Fail,
        recorderVars, RecorderTypeOK
  <2>2. LifeTypeOK'
    <3> USE DEF WorkerTypeOK, LifeTypeOK, Goes, Places, InTry
    <3>1. CASE Build(r) \/ NodeFails(r) \/ Idle(r) \/ Fail(r)
      BY <3>1 DEF Build, NodeFails, Idle, Fail
    <3>2. CASE Report(r)
      BY <3>2 DEF Report, ControllerTypeOK
    <3>3. CASE Loop(r)
      <4>1. \E to \in {"finish", "spin"} : at' = [at EXCEPT ![r] = to]
        BY <3>3 DEF Loop
      <4>2. UNCHANGED <<reason, raising, exit, ready, result, signalled>>
        BY <3>3 DEF Loop
      <4> QED  BY <4>1, <4>2
    <3>4. CASE CheckRefused(r)
      BY <3>4 DEF CheckRefused, Exhausts
    <3> QED  BY <1>2, <3>1, <3>2, <3>3, <3>4 DEF Lives
  <2>3. UNCHANGED nodeVars
    BY <1>2 DEF Lives, Build, NodeFails, Report, Loop, Idle, CheckRefused, Fail
  <2>4. stop' \in BOOLEAN
    BY <1>2 DEF WorkerTypeOK, FlagTypeOK, Lives, Build, NodeFails, Report, Loop,
       Idle, CheckRefused, Exhausts, Fail
  <2> QED  BY <2>1, <2>2, <2>3, <2>4, NodesUnchanged DEF WorkerTypeOK
<1> QED  BY <1>1, <1>2

\* The records a controller appends at its end.
LEMMA TransitionType == Transition \in Windows
BY WindowTypes DEF Transition

\* finish_worker_recording of the controller.
LEMMA FinishControllerType ==
  ASSUME WorkerTypeOK, FinishController
  PROVE  /\ written' \in [Roles -> Windows]
         /\ raising' \in SUBSET Roles
         /\ ControllerTypeOK' /\ PlantTypeOK' /\ TopicTypeOK'
         /\ stop' \in BOOLEAN => FlagTypeOK'
<1>0. /\ RecorderTypeOK /\ LifeTypeOK /\ ControllerTypeOK /\ PlantTypeOK
      /\ TopicTypeOK /\ FlagTypeOK
  BY DEF WorkerTypeOK
<1>1. PICK found \in {"error", "candidate", "none"},
           failure \in BOOLEAN, moved \in BOOLEAN :
           FinishControllerWith(found, failure, moved)
  BY DEF FinishController
<1> DEFINE cycles == [Nothing EXCEPT !["cycle"] = Cardinality(open)]
           faults == reason["controller"] # "none" \/ found = "error"
           records == With(With(Some(Outcome(found, failure, moved)), cycles),
                           IF faults THEN Transition ELSE Nothing)
<1>2. written' \in [Roles -> Windows]
  <2>1. Append("controller", records)
    BY <1>1 DEF FinishControllerWith
  <2>2. cycles \in Windows
    BY <1>0, OpenType DEF ControllerTypeOK, Nothing, Windows, Streams
  <2> HIDE DEF cycles, faults
  <2>3. records \in Windows
    BY <2>2, WindowTypes, TransitionType
  <2> HIDE DEF records
  <2> QED  BY <1>0, <2>1, <2>3, AppendType DEF Windows, Roles
<1> USE DEF FinishControllerWith
<1>3. raising' \in SUBSET Roles
  BY <1>0, <1>1 DEF LifeTypeOK, Roles
<1>4. ControllerTypeOK'
  <2>1. owed' \in Int
    BY <1>0, <1>1, OpenType DEF ControllerTypeOK
  <2> QED  BY <1>0, <1>1, <2>1 DEF ControllerTypeOK
<1>5. PlantTypeOK'
  BY <1>0, <1>1 DEF PlantTypeOK, plantVars
<1>6. TopicTypeOK'
  BY <1>0, <1>1 DEF TopicTypeOK, topicVars, historyVars
<1>7. stop' \in BOOLEAN => FlagTypeOK'
  <2>1. faulted' \in BOOLEAN /\ calculating' \in BOOLEAN
    BY <1>0, <1>1 DEF FlagTypeOK
  <2>2. moving' \in BOOLEAN
    BY <1>0, <1>1 DEF FlagTypeOK, plantVars
  <2> QED  BY <2>1, <2>2 DEF FlagTypeOK
<1> QED  BY <1>2, <1>3, <1>4, <1>5, <1>6, <1>7

\* And of the plant.
LEMMA FinishPlantType ==
  ASSUME WorkerTypeOK, FinishPlant
  PROVE  /\ written' \in [Roles -> Windows]
         /\ raising' \in SUBSET Roles
         /\ ControllerTypeOK' /\ PlantTypeOK' /\ TopicTypeOK'
         /\ stop' \in BOOLEAN => FlagTypeOK'
<1>1. CASE checking = 0
  BY <1>1, NodesUnchanged
  DEF FinishPlant, WorkerTypeOK, RecorderTypeOK, LifeTypeOK, Windows
<1>2. CASE checking # 0
  <2>1. written' \in [Roles -> Windows]
    BY <1>2, AppendType, WindowTypes
    DEF FinishPlant, WorkerTypeOK, Windows, Roles
  <2>2. raising' \in SUBSET Roles
    BY <1>2 DEF FinishPlant, WorkerTypeOK, LifeTypeOK, Roles
  <2>3. UNCHANGED controllerVars
    BY <1>2 DEF FinishPlant
  <2>4. ControllerTypeOK'
    BY <2>3 DEF WorkerTypeOK, ControllerTypeOK, controllerVars
  <2>5. PlantTypeOK'
    <3>1. checking' = 0 /\ UNCHANGED <<inHand, queued, active>>
      BY <1>2 DEF FinishPlant
    <3> QED  BY <3>1 DEF WorkerTypeOK, PlantTypeOK
  <2>6. TopicTypeOK'
    <3>1. checking \in Ids
      BY <1>2 DEF WorkerTypeOK, PlantTypeOK, Ids
    <3>2. /\ answers' = answers \cup {<<checking, FALSE>>}
          /\ answered' = [answered EXCEPT ![checking] = @ + 1]
          /\ UNCHANGED <<commands, received>>
      BY <1>2 DEF FinishPlant
    <3>3. answers' \in SUBSET (Ids \X BOOLEAN)
      <4>1. answers \in SUBSET (Ids \X BOOLEAN)
        BY DEF WorkerTypeOK, TopicTypeOK
      <4>2. \A accepted \in BOOLEAN : <<checking, accepted>> \in Ids \X BOOLEAN
        BY <3>1
      <4>3. <<checking, FALSE>> \in Ids \X BOOLEAN
        BY <4>2, Zenon
      <4>4. \A a, b, c : a \in SUBSET c /\ b \in c => a \cup {b} \in SUBSET c
        OBVIOUS
      <4> QED  BY <3>2, <4>1, <4>3, <4>4, Zenon
    <3>4. answered' \in [Ids -> Nat]
      <4>1. answered \in [Ids -> Nat]
        BY DEF WorkerTypeOK, TopicTypeOK
      <4>2. answered[checking] + 1 \in Nat
        BY <3>1, <4>1
      <4> QED  BY <3>1, <3>2, <4>1, <4>2
    <3> QED  BY <3>2, <3>3, <3>4 DEF WorkerTypeOK, TopicTypeOK
  <2>7. stop' \in BOOLEAN => FlagTypeOK'
    <3>1. moving' \in BOOLEAN
      BY <1>2 DEF FinishPlant, WorkerTypeOK, FlagTypeOK
    <3> QED  BY <2>3, <3>1 DEF WorkerTypeOK, FlagTypeOK, controllerVars
  <2> QED  BY <2>1, <2>2, <2>4, <2>5, <2>6, <2>7
<1> QED  BY <1>1, <1>2

\* The way to the end of a worker.
LEMMA EndsType ==
  ASSUME NEW r \in Roles, WorkerTypeOK, Ends(r)
  PROVE  WorkerTypeOK'
<1>0. /\ RecorderTypeOK /\ LifeTypeOK /\ ControllerTypeOK /\ PlantTypeOK
      /\ TopicTypeOK /\ FlagTypeOK /\ Nothing \in Windows
  BY WindowTypes DEF WorkerTypeOK
<1>1. CASE Close(r)
  BY <1>1, DiesType DEF Close
<1>2. CASE Finish(r)
  <2>1. /\ written' \in [Roles -> Windows]
        /\ raising' \in SUBSET Roles
        /\ ControllerTypeOK' /\ PlantTypeOK' /\ TopicTypeOK'
        /\ stop' \in BOOLEAN => FlagTypeOK'
    <3>1. CASE r \notin ready
      BY <1>0, <1>2, <3>1, NodesUnchanged
      DEF Finish, RecorderTypeOK, LifeTypeOK, Windows
    <3>2. CASE r \in ready
      BY <1>2, <3>2, FinishControllerType, FinishPlantType DEF Finish, Roles
    <3> QED  BY <3>1, <3>2
  <2>2. full' = full /\ stop' = stop
    BY <1>2 DEF Finish
  <2>3. RecorderTypeOK'
    BY <1>0, <2>1, <2>2 DEF RecorderTypeOK, Windows
  <2>4. LifeTypeOK'
    BY <1>0, <1>2, <2>1 DEF Finish, Goes, LifeTypeOK, Places
  <2> QED  BY <1>0, <2>1, <2>2, <2>3, <2>4 DEF WorkerTypeOK, FlagTypeOK
<1>3. CASE Terminal(r)
  <2>1. RecorderTypeOK'
    <3>1. Admitted(r, 0, Some({"event"})) /\ Some({"event"}) \in Windows
      BY <1>3, WindowTypes DEF Terminal
    <3> QED  BY <1>0, <3>1, AdmittedType
  <2>2. LifeTypeOK'
    BY <1>0, <1>3 DEF Terminal, Goes, Statistics, LifeTypeOK, Places
  <2>3. UNCHANGED <<nodeVars, stop>>
    BY <1>3 DEF Terminal
  <2> QED  BY <1>0, <2>1, <2>2, <2>3, NodesUnchanged
           DEF WorkerTypeOK, FlagTypeOK
<1>4. CASE ExhaustedTerminal(r)
  <2>1. \E n \in Windows : Append(r, n)
    BY <1>4, WindowTypes, TransitionType DEF ExhaustedTerminal
  <2>2. full' = full \cup {r}
    BY <1>4 DEF ExhaustedTerminal
  <2>3. RecorderTypeOK'
    BY <1>0, <2>1, <2>2, AppendType DEF RecorderTypeOK
  <2>4. LifeTypeOK'
    BY <1>0, <1>4 DEF ExhaustedTerminal, Goes, Statistics, LifeTypeOK, Places
  <2>5. UNCHANGED <<execution, termination, sequence, open, waiting,
                    calculating, owed, plantVars, topicVars, historyVars, stop>>
    BY <1>4 DEF ExhaustedTerminal
  <2>6. faulted' \in BOOLEAN
    BY <1>0, <1>4 DEF ExhaustedTerminal, FlagTypeOK
  <2>7. ControllerTypeOK' /\ PlantTypeOK' /\ TopicTypeOK'
    BY <1>0, <2>5 DEF ControllerTypeOK, PlantTypeOK, TopicTypeOK, plantVars,
       topicVars, historyVars
  <2>8. FlagTypeOK'
    BY <1>0, <2>5, <2>6 DEF FlagTypeOK, plantVars
  <2> QED  BY <2>3, <2>4, <2>7, <2>8 DEF WorkerTypeOK
<1> QED  BY <1>1, <1>2, <1>3, <1>4 DEF Ends

\* A signal that is delivered.
LEMMA InterruptType ==
  ASSUME NEW r \in Roles, WorkerTypeOK, Interrupt(r)
  PROVE  WorkerTypeOK'
<1>1. CASE at[r] = "starting"
  BY <1>1, DiesType DEF Interrupt, InTry
<1>2. CASE at[r] # "starting"
  <2>1. UNCHANGED <<recorderVars, nodeVars, stop>>
    BY <1>2 DEF Interrupt
  <2>2. LifeTypeOK'
    BY <1>2 DEF Interrupt, WorkerTypeOK, LifeTypeOK, InTry, Places
  <2>3. RecorderTypeOK'
    BY <2>1 DEF WorkerTypeOK, RecorderTypeOK, recorderVars
  <2> QED  BY <2>1, <2>2, <2>3, NodesUnchanged DEF WorkerTypeOK, FlagTypeOK
<1> QED  BY <1>1, <1>2

\* A callback of the controller.
LEMMA ControllerSpinsType ==
  ASSUME WorkerTypeOK, ControllerSpins
  PROVE  WorkerTypeOK'
<1>0. /\ RecorderTypeOK /\ LifeTypeOK /\ ControllerTypeOK /\ PlantTypeOK
      /\ TopicTypeOK /\ FlagTypeOK /\ Nothing \in Windows
      /\ "controller" \in Roles
  BY WindowTypes DEF WorkerTypeOK, Roles
<1> USE DEF Spins, Goes, TakesUp, Exhausts
<1>1. RecorderTypeOK'
  <2>1. CASE \E m \in Ids, accepted \in BOOLEAN : OnAdmission(m, accepted)
    <3>1. \E n \in Windows : Append("controller", n)
      BY <2>1, WindowTypes, TransitionType DEF OnAdmission
    <3>2. full' = full
      BY <2>1 DEF OnAdmission
    <3> QED  BY <1>0, <3>1, <3>2, AppendType DEF RecorderTypeOK
  <2>2. CASE Begin \/ TickController
    BY <1>0, <2>2, AdmittedType DEF Begin, TickController
  <2>3. CASE TakeError \/ TakeFault \/ TakeNone
             \/ \E completes \in BOOLEAN : TakeCommand(completes)
    <3>1. \E n \in Windows : Admitted("controller", Cardinality(open), n)
      BY <2>3, WindowTypes, TransitionType
      DEF TakeError, TakeFault, TakeNone, TakeCommand
    <3> QED  BY <1>0, <3>1, AdmittedType
  <2>4. CASE ControllerRefused
    BY <1>0, <2>4, RefusedType DEF ControllerRefused
  <2>5. CASE Cut
    <3>1. \E n \in Windows : \/ Admitted("controller", Cardinality(open), n)
                             \/ Append("controller", n) /\ full' = full
      BY <1>0, <2>5, TransitionType DEF Cut
    <3> QED  BY <1>0, <3>1, AdmittedType, AppendType DEF RecorderTypeOK
  <2> QED  BY <2>1, <2>2, <2>3, <2>4, <2>5 DEF ControllerSpins
<1>2. LifeTypeOK'
  BY <1>0 DEF ControllerSpins, OnAdmission, Begin, TakeError, TakeFault,
     TakeNone, TakeCommand, TickController, ControllerRefused, Cut, LifeTypeOK,
     Places, InTry
<1>3. stop' = stop
  BY DEF ControllerSpins, OnAdmission, Begin, TakeError, TakeFault,
     TakeNone, TakeCommand, TickController, ControllerRefused, Cut
<1>4. UNCHANGED plantVars
  BY DEF ControllerSpins, OnAdmission, Begin, TakeError, TakeFault,
     TakeNone, TakeCommand, TickController, ControllerRefused, Cut, nodeVars
<1>5. PlantTypeOK' /\ moving' \in BOOLEAN
  BY <1>0, <1>4 DEF PlantTypeOK, FlagTypeOK, plantVars
<1>6. /\ execution' \in {"tracking", "holding"}
      /\ termination' \in Terminations
      /\ calculating' \in BOOLEAN /\ faulted' \in BOOLEAN
  BY <1>0 DEF ControllerSpins, OnAdmission, Begin, TakeError, TakeFault,
     TakeNone, TakeCommand, TickController, ControllerRefused, Cut,
     nodeVars, controllerVars, ControllerTypeOK, FlagTypeOK, Terminations
<1>7. /\ sequence' \in 0 .. MaxCommands
      /\ open' \in SUBSET Ids
      /\ waiting' \in 0 .. MaxCommands
      /\ commands' \in SUBSET Ids
  <2>1. CASE \E completes \in BOOLEAN : TakeCommand(completes)
    <3>1. /\ sequence < MaxCommands
          /\ sequence' = sequence + 1
          /\ open' = open \cup {sequence'}
          /\ waiting' = sequence'
          /\ commands' = commands \cup {sequence'}
      BY <2>1 DEF TakeCommand
    <3>2. sequence' \in 0 .. MaxCommands /\ sequence' \in Ids
      BY <1>0, <3>1 DEF ControllerTypeOK, Ids
    <3> QED  BY <1>0, <3>1, <3>2 DEF ControllerTypeOK, TopicTypeOK
  <2>2. CASE ~ \E completes \in BOOLEAN : TakeCommand(completes)
    <3>1. /\ sequence' = sequence
          /\ open' \subseteq open
          /\ waiting' \in {waiting, 0}
          /\ commands' = commands
      BY <2>2 DEF ControllerSpins, OnAdmission, Begin, TakeError, TakeFault,
         TakeNone, TickController, ControllerRefused, Cut, Remaining,
         nodeVars, controllerVars, topicVars
    <3> QED  BY <1>0, <3>1 DEF ControllerTypeOK, TopicTypeOK
  <2> QED  BY <2>1, <2>2
<1>8. owed' \in Int
  <2>1. owed' \in {owed, owed + 1, owed - 1}
    BY DEF ControllerSpins, OnAdmission, Begin, TakeError, TakeFault,
       TakeNone, TakeCommand, TickController, ControllerRefused, Cut,
       nodeVars, controllerVars
  <2> QED  BY <1>0, <2>1 DEF ControllerTypeOK
<1>9. /\ answers' \in SUBSET (Ids \X BOOLEAN)
      /\ received' \in SUBSET Ids
      /\ answered' \in [Ids -> Nat]
  BY <1>0 DEF ControllerSpins, OnAdmission, Begin, TakeError, TakeFault,
     TakeNone, TakeCommand, TickController, ControllerRefused, Cut,
     nodeVars, topicVars, historyVars, TopicTypeOK
<1>10. ControllerTypeOK'
  BY <1>6, <1>7, <1>8 DEF ControllerTypeOK
<1>11. TopicTypeOK'
  BY <1>7, <1>9 DEF TopicTypeOK
<1>12. FlagTypeOK'
  BY <1>0, <1>3, <1>5, <1>6 DEF FlagTypeOK
<1> QED  BY <1>1, <1>2, <1>5, <1>10, <1>11, <1>12 DEF WorkerTypeOK

\* The plant handles a command only when it has one.
HandHeld == at["plant"] = "received" => inHand # 0

\* A callback of the plant.
LEMMA PlantSpinsType ==
  ASSUME WorkerTypeOK, HandHeld, PlantSpins
  PROVE  WorkerTypeOK'
<1>0. /\ RecorderTypeOK /\ LifeTypeOK /\ ControllerTypeOK /\ PlantTypeOK
      /\ TopicTypeOK /\ FlagTypeOK /\ Nothing \in Windows
      /\ "plant" \in Roles
  BY WindowTypes DEF WorkerTypeOK, Roles
<1> USE DEF Spins, Goes, Exhausts
<1>1. RecorderTypeOK'
  <2>1. CASE \/ \E m \in Ids : OnCommand(m)
             \/ \E delayed \in BOOLEAN : Tick(delayed) \/ ClearAndFeed(delayed)
             \/ \E accepted \in BOOLEAN : TakeCertificate(accepted)
    <3>1. \E n \in Windows : Admitted("plant", 0, n)
      BY <2>1, WindowTypes
      DEF OnCommand, Tick, ClearAndFeed, Feed, TakeCertificate
    <3> QED  BY <1>0, <3>1, AdmittedType
  <2>2. CASE (\E m \in Ids : OnCommandRefused(m)) \/ TickRefused
             \/ ClearAndRefuse
    <3>1. Refused("plant", 0)
      BY <2>2 DEF OnCommandRefused, TickRefused, ClearAndRefuse
    <3> QED  BY <1>0, <3>1, RefusedType
  <2>3. CASE AnswerAtOnce
    <3>1. \E n \in Windows : Append("plant", n)
      BY <2>3, WindowTypes DEF AnswerAtOnce
    <3>2. full' = full
      BY <2>3 DEF AnswerAtOnce
    <3> QED  BY <1>0, <3>1, <3>2, AppendType DEF RecorderTypeOK
  <2>4. CASE Submit
    BY <1>0, <2>4 DEF Submit, recorderVars, RecorderTypeOK
  <2> QED  BY <2>1, <2>2, <2>3, <2>4 DEF PlantSpins
<1>2. LifeTypeOK'
  BY <1>0 DEF PlantSpins, OnCommand, OnCommandRefused, AnswerAtOnce, Submit,
     Tick, ClearAndFeed, Feed, TickRefused, ClearAndRefuse, TakeCertificate,
     LifeTypeOK, Places, InTry
<1>3. UNCHANGED <<stop, controllerVars>>
  BY DEF PlantSpins, OnCommand, OnCommandRefused, AnswerAtOnce, Submit,
     Tick, ClearAndFeed, Feed, TickRefused, ClearAndRefuse, TakeCertificate,
     nodeVars
<1>4. ControllerTypeOK' /\ calculating' \in BOOLEAN /\ faulted' \in BOOLEAN
  BY <1>0, <1>3 DEF ControllerTypeOK, FlagTypeOK, controllerVars
<1>5. /\ inHand' \in 0 .. MaxCommands
      /\ checking' \in 0 .. MaxCommands
  <2>1. /\ inHand' \in Ids \cup {inHand, 0}
        /\ checking' \in {checking, inHand, 0}
    BY DEF PlantSpins, OnCommand, OnCommandRefused, AnswerAtOnce, Submit,
       Tick, ClearAndFeed, Feed, TickRefused, ClearAndRefuse, TakeCertificate,
       nodeVars, plantVars
  <2> QED  BY <1>0, <2>1 DEF PlantTypeOK, Ids
<1>6. /\ queued' \in 0 .. MaxCommands
      /\ active' \in 0 .. MaxCommands
  <2>1. /\ queued' \in {queued, checking, 0}
        /\ active' \in {active, queued}
    BY DEF PlantSpins, OnCommand, OnCommandRefused, AnswerAtOnce, Submit,
       Tick, ClearAndFeed, Feed, Advances, TickRefused, ClearAndRefuse,
       TakeCertificate, nodeVars, plantVars
  <2> QED  BY <1>0, <2>1 DEF PlantTypeOK
<1>7. moving' \in BOOLEAN
  BY <1>0 DEF PlantSpins, OnCommand, OnCommandRefused, AnswerAtOnce, Submit,
     Tick, ClearAndFeed, Feed, Advances, TickRefused, ClearAndRefuse,
     TakeCertificate, nodeVars, plantVars, FlagTypeOK
<1>8. /\ commands' \in SUBSET Ids
      /\ received' \in SUBSET Ids
  BY <1>0 DEF PlantSpins, OnCommand, OnCommandRefused, AnswerAtOnce, Submit,
     Tick, ClearAndFeed, Feed, TickRefused, ClearAndRefuse, TakeCertificate,
     nodeVars, topicVars, historyVars, TopicTypeOK
<1>9. /\ answers' \in SUBSET (Ids \X BOOLEAN)
      /\ answered' \in [Ids -> Nat]
  <2>1. \/ UNCHANGED <<answers, answered>>
        \/ \E m \in Ids, accepted \in BOOLEAN :
             /\ answers' = answers \cup {<<m, accepted>>}
             /\ answered' = [answered EXCEPT ![m] = @ + 1]
    <3>1. CASE AnswerAtOnce
      <4>1. inHand \in Ids
        BY <1>0, <3>1 DEF AnswerAtOnce, HandHeld, PlantTypeOK, Ids
      <4> QED  BY <3>1, <4>1 DEF AnswerAtOnce
    <3>2. CASE \E accepted \in BOOLEAN : TakeCertificate(accepted)
      <4>1. checking \in Ids
        BY <1>0, <3>2 DEF TakeCertificate, PlantTypeOK, Ids
      <4> QED  BY <3>2, <4>1 DEF TakeCertificate
    <3>3. CASE ~AnswerAtOnce /\ ~ \E accepted \in BOOLEAN : TakeCertificate(accepted)
      BY <3>3 DEF PlantSpins, OnCommand, OnCommandRefused, Submit,
         Tick, ClearAndFeed, Feed, TickRefused, ClearAndRefuse,
         nodeVars, topicVars, historyVars
    <3> QED  BY <3>1, <3>2, <3>3
  <2>2. CASE UNCHANGED <<answers, answered>>
    BY <1>0, <2>2 DEF TopicTypeOK
  <2>3. ASSUME NEW m \in Ids, NEW accepted \in BOOLEAN,
               answers' = answers \cup {<<m, accepted>>},
               answered' = [answered EXCEPT ![m] = @ + 1]
        PROVE  /\ answers' \in SUBSET (Ids \X BOOLEAN)
               /\ answered' \in [Ids -> Nat]
    BY <1>0, <2>3 DEF TopicTypeOK
  <2> QED  BY <2>1, <2>2, <2>3
<1>10. PlantTypeOK'
  BY <1>5, <1>6 DEF PlantTypeOK
<1>11. TopicTypeOK'
  BY <1>8, <1>9 DEF TopicTypeOK
<1>12. FlagTypeOK'
  BY <1>0, <1>3, <1>4, <1>7 DEF FlagTypeOK
<1> QED  BY <1>1, <1>2, <1>4, <1>10, <1>11, <1>12 DEF WorkerTypeOK

\* A step of a worker.
LEMMA WorkerType ==
  ASSUME WorkerTypeOK, HandHeld, WorkerNext
  PROVE  WorkerTypeOK'
BY LivesType, EndsType, InterruptType, ControllerSpinsType, PlantSpinsType
DEF WorkerNext, Working

\* No other callback of the plant makes it handle a command.
LEMMA WorkerHandHeld ==
  ASSUME WorkerTypeOK, HandHeld, WorkerNext
  PROVE  HandHeld'
<1>0. at \in [Roles -> Places] /\ Roles = {"controller", "plant"}
  BY DEF WorkerTypeOK, LifeTypeOK, Roles
<1>1. ASSUME NEW r \in Roles, Lives(r)
      PROVE  HandHeld'
  <2>1. at'["plant"] = "received" => at["plant"] = "received"
    <3>1. \E to \in Places \ {"received"} : at' = [at EXCEPT ![r] = to]
      BY <1>1 DEF Lives, Build, StartFails, NodeFails, Report, Loop, Idle,
         CheckRefused, Exhausts, Fail, Dies, Goes, Places, InTry
    <3> QED  BY <1>0, <3>1
  <2>2. at'["plant"] = "received" => inHand' = inHand
    <3>1. CASE StartFails(r)
      BY <1>0, <3>1 DEF StartFails, Dies, plantVars
    <3>2. CASE ~StartFails(r)
      BY <1>1, <3>2 DEF Lives, Build, NodeFails, Report, Loop, Idle,
         CheckRefused, Fail, nodeVars, plantVars
    <3> QED  BY <3>1, <3>2
  <2> QED  BY <2>1, <2>2 DEF HandHeld
<1>2. ASSUME NEW r \in Roles, Ends(r)
      PROVE  HandHeld'
  <2>1. at'["plant"] = "received" => at["plant"] = "received"
    <3>1. \E to \in Places \ {"received"} : at' = [at EXCEPT ![r] = to]
      BY <1>2 DEF Ends, Finish, Terminal, ExhaustedTerminal, Close, Dies, Goes,
         Places, InTry
    <3> QED  BY <1>0, <3>1
  <2>2. at'["plant"] = "received" => inHand' = inHand
    <3>1. CASE Close(r)
      BY <1>0, <3>1 DEF Close, Dies, plantVars
    <3>2. CASE Finish(r)
      BY <3>2 DEF Finish, FinishController, FinishControllerWith, FinishPlant,
         nodeVars, plantVars
    <3>3. CASE Terminal(r) \/ ExhaustedTerminal(r)
      BY <3>3 DEF Terminal, ExhaustedTerminal, nodeVars, plantVars
    <3> QED  BY <1>2, <3>1, <3>2, <3>3 DEF Ends
  <2> QED  BY <2>1, <2>2 DEF HandHeld
<1>3. ASSUME NEW r \in Roles, Interrupt(r)
      PROVE  HandHeld'
  <2>1. at'["plant"] = "received" => at["plant"] = "received"
    BY <1>0, <1>3 DEF Interrupt, Dies, InTry
  <2>2. at'["plant"] = "received" => inHand' = inHand
    BY <1>0, <1>3 DEF Interrupt, Dies, nodeVars, plantVars
  <2> QED  BY <2>1, <2>2 DEF HandHeld
<1>4. CASE ControllerSpins
  <2>1. UNCHANGED plantVars
    BY <1>4 DEF ControllerSpins, OnAdmission, Begin, TakeError, TakeFault,
       TakeNone, TakeCommand, TickController, ControllerRefused, Cut, nodeVars
  <2>2. at'["plant"] = at["plant"]
    <3>1. \E to : at' = [at EXCEPT !["controller"] = to]
      BY <1>4 DEF ControllerSpins, OnAdmission, Begin, TakeError, TakeFault,
         TakeNone, TakeCommand, TickController, ControllerRefused, Cut, Spins,
         Exhausts, Goes
    <3> QED  BY <1>0, <3>1
  <2> QED  BY <2>1, <2>2 DEF HandHeld, plantVars
<1>5. CASE PlantSpins
  <2>1. CASE \E m \in Ids : OnCommand(m)
    BY <2>1 DEF OnCommand, HandHeld, Ids
  <2>2. CASE ~ \E m \in Ids : OnCommand(m)
    <3>1. \E to \in {"checks", "answered", "finish"} :
            at' = [at EXCEPT !["plant"] = to]
      BY <1>5, <2>2 DEF PlantSpins, OnCommandRefused, AnswerAtOnce, Submit, Tick,
         ClearAndFeed, Feed, TickRefused, ClearAndRefuse, TakeCertificate, Spins,
         Exhausts, Goes
    <3> QED  BY <1>0, <3>1 DEF HandHeld
  <2> QED  BY <2>1, <2>2
<1> QED  BY <1>1, <1>2, <1>3, <1>4, <1>5 DEF WorkerNext, Working

\* A step of the supervisor, or a signal it gets.
SupervisorStep ==
  SupervisorNext \/ \E others \in {{}, Roles} : SignalSupervisor(others)

\* It leaves the workers well typed.
LEMMA SupervisorType ==
  ASSUME RunTypeOK, SupervisorStep
  PROVE  WorkerTypeOK'
<1>1. CASE Kill
  <2>1. First \in Roles
    BY DEF First, Roles
  <2>2. CASE UNCHANGED workerVars
    <3>1. UNCHANGED <<recorderVars, lifeVars, nodeVars>>
      BY <2>2 DEF workerVars
    <3>2. RecorderTypeOK' /\ LifeTypeOK' /\ stop' = stop
      BY <3>1 DEF RunTypeOK, WorkerTypeOK, RecorderTypeOK, LifeTypeOK,
         recorderVars, lifeVars
    <3> QED  BY <3>1, <3>2, NodesUnchanged
             DEF RunTypeOK, WorkerTypeOK, FlagTypeOK
  <2>3. CASE Dies(First, "killed") /\ UNCHANGED <<full, ready, result, stop>>
    BY <2>1, <2>3, DiesType DEF RunTypeOK
  <2> QED  BY <1>1, <2>2, <2>3 DEF Kill
<1>2. CASE ~Kill
  <2>1. UNCHANGED <<recorderVars, reason, raising, exit, ready, result, nodeVars>>
    BY <1>2 DEF SupervisorStep, SupervisorNext, TryNext, FinallyNext, Launch, SeesReady, Raises,
       StartupFails, PollAlive, LookOn, TimesOut, SeesExhausted, PlantLeft,
       ControllerEnds, ControllerFails, Settled, Request, Waited, SendInterrupt,
       WriteResult, SignalSupervisor, workerVars, lifeVars
  <2>2. /\ \/ at' = at
           \/ \E r \in Roles : at' = [at EXCEPT ![r] = "starting"]
        /\ stop' \in {stop, TRUE}
        /\ \/ signalled' = signalled
           \/ signalled' \subseteq signalled \cup Roles
    BY <1>2 DEF SupervisorStep, SupervisorNext, TryNext, FinallyNext, Launch, SeesReady, Raises,
       StartupFails, PollAlive, LookOn, TimesOut, SeesExhausted, PlantLeft,
       ControllerEnds, ControllerFails, Settled, Request, Waited, SendInterrupt,
       WriteResult, SignalSupervisor, workerVars, lifeVars, First, Roles
  <2>3. RecorderTypeOK'
    BY <2>1 DEF RunTypeOK, WorkerTypeOK, RecorderTypeOK, recorderVars
  <2>4. LifeTypeOK'
    BY <2>1, <2>2 DEF RunTypeOK, WorkerTypeOK, LifeTypeOK, Places
  <2>5. stop' \in BOOLEAN
    BY <2>2 DEF RunTypeOK, WorkerTypeOK, FlagTypeOK
  <2> QED  BY <2>1, <2>3, <2>4, <2>5, NodesUnchanged DEF RunTypeOK, WorkerTypeOK
<1> QED  BY <1>1, <1>2

\* It leaves the plant with the command it handles.
LEMMA SupervisorHandHeld ==
  ASSUME RunTypeOK, HandHeld, SupervisorStep
  PROVE  HandHeld'
<1>0. at \in [Roles -> Places] /\ "plant" \in Roles
  BY DEF RunTypeOK, WorkerTypeOK, LifeTypeOK, Roles
<1>1. CASE Kill
  <2>1. CASE UNCHANGED workerVars
    BY <2>1 DEF HandHeld, workerVars, lifeVars, nodeVars, plantVars
  <2>2. CASE Dies(First, "killed")
    <3>1. First \in Roles
      BY DEF First, Roles
    <3>2. CASE First = "plant"
      BY <1>0, <2>2, <3>2 DEF Dies, HandHeld
    <3>3. CASE First # "plant"
      <4>1. at'["plant"] = at["plant"]
        BY <1>0, <2>2, <3>1, <3>3 DEF Dies
      <4>2. inHand' = inHand
        <5>1. First = "controller"
          BY <3>1, <3>3 DEF Roles
        <5> QED  BY <2>2, <5>1 DEF Dies, plantVars
      <4> QED  BY <4>1, <4>2 DEF HandHeld
    <3> QED  BY <3>2, <3>3
  <2> QED  BY <1>1, <2>1, <2>2 DEF Kill
<1>2. CASE ~Kill
  <2>1. /\ \/ at' = at
           \/ \E r \in Roles : at' = [at EXCEPT ![r] = "starting"]
        /\ UNCHANGED nodeVars
    BY <1>2 DEF SupervisorStep, SupervisorNext, TryNext, FinallyNext, Launch,
       SeesReady, Raises, StartupFails, PollAlive, LookOn, TimesOut,
       SeesExhausted, PlantLeft, ControllerEnds, ControllerFails, Settled,
       Request, Waited, SendInterrupt, WriteResult, SignalSupervisor, workerVars,
       lifeVars, Roles
  <2>2. at'["plant"] = "received" => at["plant"] = "received"
    BY <1>0, <2>1
  <2> QED  BY <2>1, <2>2 DEF HandHeld, nodeVars, plantVars
<1> QED  BY <1>1, <1>2

\* What the supervisor keeps stays well typed.
LEMMA SupervisorVarsType ==
  ASSUME RunTypeOK, SupervisorStep
  PROVE  /\ sup' \in Supervising \cup Cleaning \cup {"ended"}
         /\ outcome' \in Outcomes
         /\ known' \in SUBSET Roles
         /\ stopping' \in SUBSET Roles
         /\ filed' \in BOOLEAN
         /\ signals' \in 0 .. MaxSignals
<1> USE DEF SupervisorStep, SupervisorNext, TryNext, FinallyNext, Launch,
       SeesReady, Raises, StartupFails, PollAlive, LookOn, TimesOut,
       SeesExhausted, PlantLeft, ControllerEnds, ControllerFails, Settled,
       Request, Waited, SendInterrupt, WriteResult, Kill, SignalSupervisor,
       Moves, RunTypeOK
<1>1. sup' \in Supervising \cup Cleaning \cup {"ended"}
  BY DEF Supervising, Cleaning
<1>2. outcome' \in Outcomes
  <2>1. \A r \in Roles : result[r] \in Outcomes
    BY DEF Outcomes, WorkerTypeOK, LifeTypeOK, Terminations
  <2>2. outcome' \in {outcome, "fault", "timeout", "budget_exhausted",
                     result["controller"]}
    BY DEF Override
  <2> QED  BY <2>1, <2>2 DEF Outcomes, Roles
<1>3. known' \in SUBSET Roles /\ stopping' \in SUBSET Roles
  OBVIOUS
<1>4. filed' \in BOOLEAN
  OBVIOUS
<1>5. signals' \in 0 .. MaxSignals
  <2>1. signals' \in {signals, signals + 1}
    OBVIOUS
  <2>2. signals' = signals + 1 => signals' \in 0 .. MaxSignals
    OBVIOUS
  <2> QED  BY <2>1, <2>2
<1> QED  BY <1>1, <1>2, <1>3, <1>4, <1>5

(***************************************************************************)
(* What the supervisor says of a run                                       *)
(***************************************************************************)

Ending == {"finish", "terminal", "close", "gone"}
Exhausted(r) == result[r] = "budget_exhausted"

\* What a step of the workers does to each of them: one that has ended stays as
\* it is, one that ends has an exit code, one that is at its end stays there with
\* the report it has made, and a guard refuses only for a worker that reports it.
WorkerFrame(r) ==
  /\ at[r] \in {"none", "gone"} =>
       at'[r] = at[r] /\ exit'[r] = exit[r] /\ result'[r] = result[r]
  /\ at[r] # "none" => at'[r] # "none"
  /\ Gone(r)' => Gone(r) \/ exit'[r] # "none"
  /\ at[r] \in Ending => at'[r] \in Ending
  /\ at[r] \in Ending => (Exhausted(r) => Exhausted(r)')
  /\ Exhausted(r)' => Exhausted(r) \/ at'[r] \in Ending
  /\ r \in full' => r \in full \/ Exhausted(r)'

\* The worker that does not act does not change.
LEMMA OtherFrame ==
  ASSUME NEW r \in Roles, NEW q \in Roles, q # r, WorkerTypeOK,
         NEW to, at' = [at EXCEPT ![r] = to],
         exit'[q] = exit[q], result'[q] = result[q], q \in full' => q \in full
  PROVE  WorkerFrame(q)
<1>1. at'[q] = at[q]
  BY DEF WorkerTypeOK, LifeTypeOK
<1> QED  BY <1>1 DEF WorkerFrame, Gone, Exhausted

LEMMA LivesFrame ==
  ASSUME NEW r \in Roles, WorkerTypeOK, Lives(r)
  PROVE  \A q \in Roles : WorkerFrame(q)
<1>0. /\ at \in [Roles -> Places]
      /\ exit \in [Roles -> {"none", "clean", "error", "killed"}]
      /\ result \in [Roles -> Terminations \cup {"budget_exhausted"}]
      /\ termination \in Terminations
  BY DEF WorkerTypeOK, LifeTypeOK, ControllerTypeOK
<1> USE DEF Lives, Build, StartFails, NodeFails, Report, Loop, Idle, CheckRefused,
            Exhausts, Fail, Dies, Goes, Admitted, Refused, recorderVars
<1>1. /\ at[r] \in {"starting", "checks", "spin"}
      /\ \E to \in {"checks", "spin", "finish", "gone"} : at' = [at EXCEPT ![r] = to]
  OBVIOUS
<1>2. \A q \in Roles : q # r =>
        exit'[q] = exit[q] /\ result'[q] = result[q] /\ (q \in full' => q \in full)
  BY <1>0
<1>3. \A q \in Roles : q # r => WorkerFrame(q)
  BY <1>1, <1>2, OtherFrame
<1>4. at'[r] = "gone" => exit'[r] = "error"
  BY <1>0
<1>5. Exhausted(r)' => Exhausted(r) \/ at'[r] = "finish"
  BY <1>0 DEF Exhausted, Terminations
<1>6. r \in full' => r \in full \/ Exhausted(r)'
  BY <1>0 DEF Exhausted
<1>7. at'[r] # "none"
  BY <1>0, <1>1
<1>8. WorkerFrame(r)
  BY <1>1, <1>4, <1>5, <1>6, <1>7 DEF WorkerFrame, Gone, Ending
<1> QED  BY <1>3, <1>8

LEMMA EndsFrame ==
  ASSUME NEW r \in Roles, WorkerTypeOK, Ends(r)
  PROVE  \A q \in Roles : WorkerFrame(q)
<1>0. /\ at \in [Roles -> Places]
      /\ exit \in [Roles -> {"none", "clean", "error", "killed"}]
      /\ result \in [Roles -> Terminations \cup {"budget_exhausted"}]
  BY DEF WorkerTypeOK, LifeTypeOK
<1> USE DEF Ends, Finish, Terminal, ExhaustedTerminal, Close, Dies, Goes, Admitted
<1>1. /\ at[r] \in {"finish", "terminal", "close"}
      /\ \E to \in {"terminal", "close", "gone"} : at' = [at EXCEPT ![r] = to]
  OBVIOUS
<1>2. \A q \in Roles : q # r =>
        exit'[q] = exit[q] /\ result'[q] = result[q] /\ (q \in full' => q \in full)
  BY <1>0
<1>3. \A q \in Roles : q # r => WorkerFrame(q)
  BY <1>1, <1>2, OtherFrame
<1>4. at'[r] = "gone" => exit'[r] # "none"
  BY <1>0
<1>5. result' = result \/ Exhausted(r)'
  BY <1>0 DEF Exhausted
<1>6. r \in full' => r \in full \/ Exhausted(r)'
  BY <1>0 DEF Exhausted
<1>7. at'[r] \in {"terminal", "close", "gone"}
  BY <1>0, <1>1
<1>8. WorkerFrame(r)
  BY <1>1, <1>4, <1>5, <1>6, <1>7 DEF WorkerFrame, Gone, Ending, Exhausted
<1> QED  BY <1>3, <1>8

LEMMA InterruptFrame ==
  ASSUME NEW r \in Roles, WorkerTypeOK, Interrupt(r)
  PROVE  \A q \in Roles : WorkerFrame(q)
<1>0. /\ at \in [Roles -> Places]
      /\ exit \in [Roles -> {"none", "clean", "error", "killed"}]
  BY DEF WorkerTypeOK, LifeTypeOK
<1> USE DEF Interrupt, Dies, InTry
<1>1. /\ at[r] \notin {"none", "gone"}
      /\ \E to \in {"finish", "terminal", "close", "gone"} :
           at' = [at EXCEPT ![r] = to]
  BY DEF recorderVars
<1>2. full' = full /\ result' = result
  BY DEF recorderVars
<1>3. \A q \in Roles : q # r => exit'[q] = exit[q]
  BY <1>0
<1>4. \A q \in Roles : q # r => WorkerFrame(q)
  BY <1>1, <1>2, <1>3, OtherFrame
<1>5. at'[r] = "gone" => exit'[r] # "none"
  BY <1>0
<1>6. at'[r] \in {"finish", "terminal", "close", "gone"}
  BY <1>0, <1>1
<1>7. WorkerFrame(r)
  BY <1>1, <1>2, <1>5, <1>6 DEF WorkerFrame, Gone, Ending, Exhausted
<1> QED  BY <1>4, <1>7

LEMMA SpinsFrame ==
  ASSUME WorkerTypeOK, ControllerSpins \/ PlantSpins
  PROVE  \A q \in Roles : WorkerFrame(q)
<1>0. /\ at \in [Roles -> Places]
      /\ result \in [Roles -> Terminations \cup {"budget_exhausted"}]
  BY DEF WorkerTypeOK, LifeTypeOK
<1>1. PICK r \in Roles :
        /\ at[r] \in InTry
        /\ \E to \in InTry \cup {"finish"} : at' = [at EXCEPT ![r] = to]
        /\ exit' = exit
        /\ \/ result' = result /\ full' = full
           \/ /\ at' = [at EXCEPT ![r] = "finish"]
              /\ result' = [result EXCEPT ![r] = "budget_exhausted"]
              /\ full' \subseteq full \cup {r}
  <2> USE DEF Spins, Goes, Exhausts, Roles, InTry
  <2>1. CASE ControllerSpins
    <3> WITNESS "controller" \in Roles
    <3> QED
      BY <2>1 DEF ControllerSpins, OnAdmission, Begin, TakesUp, TakeError,
         TakeFault, TakeNone, TakeCommand, TickController, ControllerRefused, Cut,
         Admitted, Refused, recorderVars
  <2>2. CASE PlantSpins
    <3> WITNESS "plant" \in Roles
    <3> QED
      BY <2>2 DEF PlantSpins, OnCommand, OnCommandRefused, AnswerAtOnce, Submit,
         Tick, ClearAndFeed, Feed, TickRefused, ClearAndRefuse, TakeCertificate,
         Admitted, Refused, recorderVars
  <2> QED  BY <2>1, <2>2
<1>2. \A q \in Roles : q # r => WorkerFrame(q)
  BY <1>0, <1>1, OtherFrame
<1>3. at'[r] \in InTry \cup {"finish"}
  BY <1>0, <1>1
<1>4. Exhausted(r)' => Exhausted(r) \/ at'[r] = "finish"
  BY <1>0, <1>1 DEF Exhausted
<1>5. r \in full' => r \in full \/ Exhausted(r)'
  BY <1>0, <1>1 DEF Exhausted
<1>6. WorkerFrame(r)
  BY <1>1, <1>3, <1>4, <1>5 DEF WorkerFrame, Gone, Ending, InTry
<1> QED  BY <1>2, <1>6

\* Every step of the workers keeps to the frame.
LEMMA WorkersFrame ==
  ASSUME WorkerTypeOK, WorkerNext
  PROVE  \A q \in Roles : WorkerFrame(q)
BY LivesFrame, EndsFrame, InterruptFrame, SpinsFrame DEF WorkerNext, Working

\* Nothing has been started that the supervisor has not reached.
Unstarted ==
  /\ sup = "launch_controller" => at["controller"] = "none"
  /\ sup \in {"launch_controller", "await_controller", "launch_plant"} =>
       at["plant"] = "none"

\* The strengthening: a worker that is not known started as a signal came;
\* every known worker that is not waited for any more has ended, and when the
\* result is filed all of them have.
Known ==
  /\ \A r \in Roles : at[r] = "none" \/ r \in known \/ signals > 0
  /\ \A r \in Roles : Gone(r) => exit[r] # "none"
  /\ stopping \subseteq known
  /\ sup \in {"wait", "interrupted"} =>
       \A r \in known \ stopping : Gone(r)
  /\ filed =>
       /\ sup = "ended"
       /\ \A r \in known : Gone(r)
       /\ codes = {<<r, exit[r]>> : r \in known}
  /\ ~filed => codes = {}

\* A budget that is exhausted is reported at the end of a worker, and the report
\* is found when the result is written.
Reported ==
  /\ \A r \in Roles : Exhausted(r) => at[r] \in Ending
  /\ \A r \in full : Exhausted(r)
  /\ outcome = "budget_exhausted" => SomeExhausted
  /\ filed => \A r \in known : Exhausted(r) => outcome = "budget_exhausted"

SInv ==
  /\ RunTypeOK
  /\ HandHeld
  /\ Unstarted
  /\ Known
  /\ Reported

LEMMA SInvInit ==
  ASSUME Init
  PROVE  SInv
<1> USE DEF Init, WorkerInit, RecorderInit
<1>1. RecorderTypeOK
  BY WindowTypes DEF RecorderTypeOK, Windows
<1>2. LifeTypeOK
  BY DEF LifeTypeOK, Places, Terminations
<1>3. ControllerTypeOK
  BY DEF ControllerTypeOK, Terminations
<1>4. PlantTypeOK /\ TopicTypeOK
  BY DEF PlantTypeOK, TopicTypeOK
<1>5. FlagTypeOK
  BY DEF FlagTypeOK
<1>6. RunTypeOK
  <2>1. WorkerTypeOK
    BY <1>1, <1>2, <1>3, <1>4, <1>5 DEF WorkerTypeOK
  <2>2. filed \in BOOLEAN
    OBVIOUS
  <2>5. signals \in 0 .. MaxSignals
    <3>1. signals = 0
      OBVIOUS
    <3> HIDE DEF Init
    <3> QED  BY <3>1
  <2>3. outcome \in Outcomes /\ sup \in Supervising
    BY DEF Outcomes, Supervising
  <2>4. known = {} /\ stopping = {} /\ codes = {}
    OBVIOUS
  <2> HIDE DEF Init
  <2> QED  BY <2>1, <2>2, <2>3, <2>4, <2>5 DEF RunTypeOK
<1>7. HandHeld /\ Unstarted
  BY DEF HandHeld, Unstarted, Roles
<1>8. Known
  BY DEF Known, Gone
<1>9. Reported
  BY DEF Reported, Exhausted
<1> QED  BY <1>6, <1>7, <1>8, <1>9 DEF SInv

LEMMA SInvWorkers ==
  ASSUME SInv, WorkerNext, UNCHANGED supervisorVars
  PROVE  SInv'
<1>0. /\ RunTypeOK /\ HandHeld /\ Unstarted /\ Known /\ Reported /\ WorkerTypeOK
      /\ \A r \in Roles : WorkerFrame(r)
  BY WorkersFrame DEF SInv, RunTypeOK
<1>1. WorkerTypeOK' /\ HandHeld'
  BY <1>0, WorkerType, WorkerHandHeld
<1> USE DEF supervisorVars
<1>2. RunTypeOK'
  BY <1>0, <1>1 DEF RunTypeOK
<1>3. Unstarted'
  <2>1. \A r \in Roles : at[r] = "none" => at'[r] = "none"
    BY <1>0 DEF WorkerFrame
  <2>2. "controller" \in Roles /\ "plant" \in Roles
    BY DEF Roles
  <2>3. sup' = sup
    OBVIOUS
  <2> QED  BY <1>0, <2>1, <2>2, <2>3 DEF Unstarted
<1>4. Known'
  <2>0. known \subseteq Roles
    BY <1>0 DEF RunTypeOK
  <2>1. \A r \in Roles : at'[r] = "none" \/ r \in known' \/ signals' > 0
    BY <1>0 DEF Known, WorkerFrame
  <2>2. \A r \in Roles : Gone(r)' => exit'[r] # "none"
    BY <1>0 DEF Known, WorkerFrame, Gone
  <2>3. \A r \in Roles : Gone(r) => Gone(r)' /\ exit'[r] = exit[r]
    BY <1>0 DEF WorkerFrame, Gone
  <2>4. filed => codes = {<<r, exit'[r]>> : r \in known}
    BY <1>0, <2>0, <2>3 DEF Known
  <2> QED  BY <1>0, <2>0, <2>1, <2>2, <2>3, <2>4 DEF Known
<1>5. Reported'
  <2>1. \A r \in Roles : Exhausted(r)' => at'[r] \in Ending
    BY <1>0 DEF Reported, WorkerFrame
  <2>2. \A r \in Roles : Exhausted(r) => Exhausted(r)'
    BY <1>0 DEF Reported, WorkerFrame
  <2>3. full' \subseteq Roles
    BY <1>1 DEF WorkerTypeOK, RecorderTypeOK
  <2>4. \A r \in full' : Exhausted(r)'
    BY <1>0, <2>2, <2>3 DEF Reported, WorkerFrame
  <2>5. SomeExhausted => SomeExhausted'
    BY <2>2 DEF SomeExhausted, Exhausted
  <2>6. filed => \A r \in known : Exhausted(r)' => Exhausted(r)
    BY <1>0 DEF RunTypeOK, Known, WorkerFrame, Gone, Exhausted
  <2> QED  BY <1>0, <2>1, <2>4, <2>5, <2>6 DEF Reported
<1> QED  BY <1>1, <1>2, <1>3, <1>4, <1>5 DEF SInv

\* Of the supervisor's steps only a start and a kill touch the workers' places,
\* and none touches a report or a guard.
LEMMA SupervisorFrame ==
  ASSUME RunTypeOK, SupervisorStep, ~Kill
  PROVE  /\ UNCHANGED <<full, exit, result>>
         /\ at' = at \/ \E r \in Roles : at' = [at EXCEPT ![r] = "starting"]
BY DEF SupervisorStep, SupervisorNext, TryNext, FinallyNext, Launch, SeesReady,
   Raises, StartupFails, PollAlive, LookOn, TimesOut, SeesExhausted, PlantLeft,
   ControllerEnds, ControllerFails, Settled, Request, Waited, SendInterrupt,
   WriteResult, SignalSupervisor, recorderVars, workerVars, lifeVars, Roles

LEMMA SInvLaunch ==
  ASSUME SInv, NEW r \in Roles, Launch(r)
  PROVE  Unstarted' /\ Known' /\ Reported'
<1>0. /\ RunTypeOK /\ Unstarted /\ Known /\ Reported
      /\ at \in [Roles -> Places] /\ known \subseteq Roles
      /\ Roles = {"controller", "plant"}
  BY DEF SInv, RunTypeOK, WorkerTypeOK, LifeTypeOK, Roles
<1>1. at[r] = "none"
  BY <1>0 DEF Launch, Moves, Unstarted
<1>2. /\ at' = [at EXCEPT ![r] = "starting"]
      /\ known' = known \cup {r}
      /\ UNCHANGED <<full, exit, result, outcome, stopping, codes, filed, signals>>
  BY DEF Launch, recorderVars
<1>3. sup' \in {"await_controller", "await_plant"} /\ ~filed
  BY <1>0 DEF Launch, Moves, Known
<1>4. Unstarted'
  BY <1>0, <1>2, <1>3 DEF Unstarted, Launch, Moves
<1>5. Known'
  BY <1>0, <1>2, <1>3 DEF Known, Gone
<1>6. Reported'
  <2>1. ~Exhausted(r)
    BY <1>0, <1>1 DEF Reported, Ending
  <2>2. \A q \in Roles : Exhausted(q)' <=> Exhausted(q)
    BY <1>2 DEF Exhausted
  <2>3. \A q \in Roles : Exhausted(q) => at'[q] = at[q]
    BY <1>0, <1>2, <2>1
  <2>4. full \subseteq Roles
    BY <1>0 DEF RunTypeOK, WorkerTypeOK, RecorderTypeOK
  <2>5. SomeExhausted => SomeExhausted'
    BY <2>2 DEF SomeExhausted, Exhausted
  <2> QED  BY <1>0, <1>2, <1>3, <2>2, <2>3, <2>4, <2>5 DEF Reported
<1> QED  BY <1>4, <1>5, <1>6

LEMMA SInvSignal ==
  ASSUME SInv, NEW others \in {{}, Roles}, SignalSupervisor(others)
  PROVE  Unstarted' /\ Known' /\ Reported'
<1>0. /\ RunTypeOK /\ Unstarted /\ Known /\ Reported
      /\ at \in [Roles -> Places] /\ known \subseteq Roles
      /\ signals \in Nat
      /\ Roles = {"controller", "plant"}
  BY DEF SInv, RunTypeOK, WorkerTypeOK, LifeTypeOK, Roles
<1>1. /\ signals' > 0
      /\ UNCHANGED <<full, exit, result, known, stopping, codes, filed>>
      /\ sup # "ended"
  BY <1>0 DEF SignalSupervisor, recorderVars
<1>2. at' = at \/ \E r \in Roles : at[r] = "none" /\ at' = [at EXCEPT ![r] = "starting"]
  BY <1>0 DEF SignalSupervisor, Unstarted
<1>3. sup' \in {"request", "ended"} /\ outcome' \in {outcome, "fault"}
  BY DEF SignalSupervisor
<1>4. Unstarted'
  BY <1>3 DEF Unstarted
<1>5. ~filed
  BY <1>0, <1>1 DEF Known
<1>6. Known'
  <2>1. \A r \in Roles : Gone(r)' => Gone(r)
    BY <1>0, <1>2 DEF Gone
  <2> QED  BY <1>0, <1>1, <1>3, <1>5, <2>1 DEF Known
<1>7. Reported'
  <2>1. \A q \in Roles : Exhausted(q)' <=> Exhausted(q)
    BY <1>1 DEF Exhausted
  <2>2. \A q \in Roles : Exhausted(q) => at'[q] = at[q]
    BY <1>0, <1>2 DEF Reported, Ending
  <2>3. full \subseteq Roles
    BY <1>0 DEF RunTypeOK, WorkerTypeOK, RecorderTypeOK
  <2>4. SomeExhausted => SomeExhausted'
    BY <2>1 DEF SomeExhausted, Exhausted
  <2> QED  BY <1>0, <1>1, <1>3, <1>5, <2>1, <2>2, <2>3, <2>4 DEF Reported
<1> QED  BY <1>4, <1>6, <1>7

LEMMA SInvKill ==
  ASSUME SInv, Kill
  PROVE  Unstarted' /\ Known' /\ Reported'
<1>0. /\ RunTypeOK /\ Unstarted /\ Known /\ Reported
      /\ at \in [Roles -> Places] /\ known \subseteq Roles
      /\ exit \in [Roles -> {"none", "clean", "error", "killed"}]
      /\ First \in Roles
  BY DEF SInv, RunTypeOK, WorkerTypeOK, LifeTypeOK, Roles, First
<1>1. /\ sup = "interrupted" /\ sup' = "wait"
      /\ stopping' = stopping \ {First}
      /\ UNCHANGED <<full, result, outcome, known, codes, filed, signals>>
  BY DEF Kill, Moves, workerVars, recorderVars, lifeVars
<1>2. \/ Gone(First) /\ UNCHANGED <<at, exit>>
      \/ /\ at' = [at EXCEPT ![First] = "gone"]
         /\ exit' = [exit EXCEPT ![First] = "killed"]
  BY DEF Kill, Dies, workerVars, lifeVars
<1>3. at'[First] = "gone" /\ \A r \in Roles : Gone(r) => Gone(r)'
  BY <1>0, <1>2 DEF Gone
<1>4. \A r \in Roles : Gone(r)' => exit'[r] # "none"
  BY <1>0, <1>2 DEF Known, Gone
<1>6. ~filed
  BY <1>0, <1>1 DEF Known
<1>7. Unstarted'
  BY <1>1 DEF Unstarted
<1>8. Known'
  <2>1. \A r \in known \ stopping' : Gone(r)'
    BY <1>0, <1>1, <1>3 DEF Known, Gone
  <2>2. \A r \in Roles : at'[r] = "none" \/ r \in known' \/ signals' > 0
    <3>1. First \in known
      BY <1>0 DEF Kill, Known, First, RunTypeOK, Roles
    <3>2. \A r \in Roles : r # First => at'[r] = at[r]
      BY <1>0, <1>2
    <3> QED  BY <1>0, <1>1, <3>1, <3>2 DEF Known
  <2>3. ~filed' /\ codes' = {}
    BY <1>0, <1>1, <1>6 DEF Known
  <2>4. stopping' \subseteq known'
    BY <1>0, <1>1 DEF Known
  <2> QED  BY <1>1, <1>4, <2>1, <2>2, <2>3, <2>4 DEF Known
<1>9. Reported'
  <2>1. \A q \in Roles : Exhausted(q)' <=> Exhausted(q)
    BY <1>1 DEF Exhausted
  <2>2. \A q \in Roles : at[q] \in Ending => at'[q] \in Ending
    BY <1>0, <1>2 DEF Ending
  <2>3. full \subseteq Roles
    BY <1>0 DEF RunTypeOK, WorkerTypeOK, RecorderTypeOK
  <2>4. SomeExhausted => SomeExhausted'
    BY <2>1 DEF SomeExhausted, Exhausted
  <2> QED  BY <1>0, <1>1, <1>6, <2>1, <2>2, <2>3, <2>4 DEF Reported
<1> QED  BY <1>7, <1>8, <1>9

\* The steps that touch no worker.
LEMMA SInvOther ==
  ASSUME SInv, SupervisorNext, ~Kill, ~ \E r \in Roles : Launch(r)
  PROVE  Unstarted' /\ Known' /\ Reported'
<1>0. /\ RunTypeOK /\ Unstarted /\ Known /\ Reported
      /\ known \subseteq Roles /\ stopping \subseteq Roles
  BY DEF SInv, RunTypeOK
<1> USE DEF SupervisorNext, TryNext, FinallyNext, SeesReady, Raises, StartupFails,
       PollAlive, LookOn, TimesOut, SeesExhausted, PlantLeft, ControllerEnds,
       ControllerFails, Settled, Request, Waited, SendInterrupt, WriteResult, Moves
<1>1. UNCHANGED <<at, full, exit, result, known, signals>>
  BY DEF recorderVars, workerVars, lifeVars
<1>2. Unstarted'
  BY <1>0, <1>1 DEF Unstarted
<1>3. Known'
  <2>1. CASE WriteResult
    <3>1. \A r \in known : Gone(r)
      BY <1>0, <2>1 DEF Known
    <3>2. /\ sup' = "ended" /\ filed'
          /\ codes' = {<<r, exit[r]>> : r \in known}
      BY <2>1
    <3> QED  BY <1>0, <1>1, <3>1, <3>2 DEF Known, Gone
  <2>2. CASE ~WriteResult
    <3>1. UNCHANGED <<codes, filed>> /\ ~filed
      BY <1>0, <2>2 DEF Known
    <3>2. sup' \in {"wait", "interrupted"} =>
            \A r \in known \ stopping' : Gone(r)
      BY <1>0, <2>2 DEF Known, First
    <3> QED  BY <1>0, <1>1, <3>1, <3>2 DEF Known, Gone
  <2> QED  BY <2>1, <2>2
<1>4. Reported'
  <2>1. \A q \in Roles : Exhausted(q)' <=> Exhausted(q)
    BY <1>1 DEF Exhausted
  <2>2. SomeExhausted' <=> SomeExhausted
    BY <2>1 DEF SomeExhausted, Exhausted
  <2>3. \A q \in Roles : Exhausted(q)' => at'[q] \in Ending
    BY <1>0, <1>1, <2>1 DEF Reported
  <2>4. \A q \in full' : Exhausted(q)'
    BY <1>0, <1>1, <2>1 DEF Reported, RunTypeOK, WorkerTypeOK, RecorderTypeOK
  <2>5. outcome' = "budget_exhausted" => SomeExhausted
    BY <1>0 DEF Reported, SomeExhausted, Override, Roles
  <2>6. filed' => \A q \in known : Exhausted(q) => outcome' = "budget_exhausted"
    <3>1. CASE WriteResult
      BY <1>0, <3>1 DEF SomeExhausted, Override, Exhausted
    <3>2. CASE ~WriteResult
      BY <1>0, <3>2 DEF Known
    <3> QED  BY <3>1, <3>2
  <2> QED  BY <1>0, <1>1, <2>1, <2>2, <2>3, <2>4, <2>5, <2>6 DEF Reported
<1> QED  BY <1>2, <1>3, <1>4

LEMMA SInvStep ==
  ASSUME SInv, [Next]_vars
  PROVE  SInv'
<1>1. CASE WorkerNext /\ UNCHANGED supervisorVars
  BY <1>1, SInvWorkers
<1>2. CASE SupervisorStep
  <2>1. Unstarted' /\ Known' /\ Reported'
    BY <1>2, SInvLaunch, SInvSignal, SInvKill, SInvOther DEF SupervisorStep
  <2>2. WorkerTypeOK' /\ HandHeld'
    BY <1>2, SupervisorType, SupervisorHandHeld DEF SInv
  <2>3. /\ sup' \in Supervising \cup Cleaning \cup {"ended"}
        /\ outcome' \in Outcomes
        /\ known' \in SUBSET Roles
        /\ stopping' \in SUBSET Roles
        /\ filed' \in BOOLEAN
        /\ signals' \in 0 .. MaxSignals
    BY <1>2, SupervisorVarsType DEF SInv
  <2>4. codes' \in SUBSET (Roles \X {"clean", "error", "killed"})
    <3>1. \A r \in known' : filed' => exit'[r] \in {"clean", "error", "killed"}
      BY <2>1, <2>2, <2>3 DEF WorkerTypeOK, LifeTypeOK, Known, Gone
    <3> QED  BY <2>1, <2>3, <3>1 DEF Known
  <2> QED  BY <2>1, <2>2, <2>3, <2>4 DEF SInv, RunTypeOK
<1>3. CASE UNCHANGED vars
  <2>1. UNCHANGED workerVars /\ UNCHANGED supervisorVars
    BY <1>3 DEF vars
  <2>2. UNCHANGED <<recorderVars, lifeVars, nodeVars>>
    BY <2>1 DEF workerVars
  <2>3. RunTypeOK'
    <3>1. WorkerTypeOK'
      <4>1. RecorderTypeOK' /\ LifeTypeOK' /\ stop' = stop
        BY <2>2 DEF SInv, RunTypeOK, WorkerTypeOK, RecorderTypeOK, LifeTypeOK,
           recorderVars, lifeVars
      <4> QED  BY <2>2, <4>1, NodesUnchanged
               DEF SInv, RunTypeOK, WorkerTypeOK, FlagTypeOK
    <3> QED  BY <2>1, <3>1 DEF SInv, RunTypeOK, supervisorVars
  <2>4. HandHeld'
    BY <2>2 DEF SInv, HandHeld, lifeVars, nodeVars, plantVars
  <2>5. Unstarted' /\ Known'
    BY <2>1, <2>2 DEF SInv, Unstarted, Known, Gone, lifeVars, supervisorVars
  <2>6. Reported'
    BY <2>1, <2>2 DEF SInv, Reported, Exhausted, SomeExhausted, lifeVars,
       recorderVars, supervisorVars
  <2> QED  BY <2>3, <2>4, <2>5, <2>6 DEF SInv
<1> QED  BY <1>1, <1>2, <1>3 DEF Next, SupervisorStep

\* The strengthening holds in every state of a run.
THEOREM SInvHolds == Spec => []SInv
BY SInvInit, SInvStep, PTL DEF Spec

\* Type correctness of a run, its workers, its recorders and its supervisor.
THEOREM RunTypeCorrect == Spec => []RunTypeOK
<1>1. SInv => RunTypeOK
  BY DEF SInv
<1> QED  BY <1>1, SInvHolds, PTL

\* _stop_processes: a filed result leaves no worker running that the supervisor
\* knew of.
THEOREM NobodyOutlives == Spec => []NobodyOutlivesTheResult
<1>1. SInv => NobodyOutlivesTheResult
  BY DEF SInv, Known, NobodyOutlivesTheResult, Alive, Gone
<1> QED  BY <1>1, SInvHolds, PTL

\* An exhausted recording is the outcome of its run.
THEOREM ExhaustionReported == Spec => []ExhaustionIsReported
<1>1. SInv => ExhaustionIsReported
  BY DEF SInv, Reported, RunTypeOK, ExhaustionIsReported, Exhausted
<1> QED  BY <1>1, SInvHolds, PTL

(***************************************************************************)
(* What a completed run has recorded                                       *)
(***************************************************************************)

One(b) == IF b THEN 1 ELSE 0

\* A command that the plant has recorded and answered.
Done(m) == m \in received /\ answered[m] >= 1

\* The plant answers what it has received.
Answering ==
  /\ inHand # 0 => inHand \in received
  /\ checking # 0 => checking \in received
  /\ \A m \in Ids, accepted \in BOOLEAN : <<m, accepted>> \in answers => Done(m)

\* The controller's books: as long as it runs it owes a record of every cycle
\* that is open or being calculated, and each command it sent is answered or
\* open.
Ledger ==
  /\ at["controller"] \in {"none", "starting"} =>
       sequence = 0 /\ open = {} /\ ~calculating
  /\ execution = "holding" => ~calculating
  /\ open \subseteq 1 .. sequence
  /\ at["controller"] \in InTry \cup {"none", "starting"} =>
       /\ owed = Cardinality(open) + One(calculating)
       /\ \A m \in 1 .. sequence : m \in open \/ Done(m)

\* A controller that has reported its end owes nothing any more.
Settlement ==
  result["controller"] \in {"completed", "pause_timeout"} =>
    /\ at["controller"] \in Ending
    /\ open = {} /\ ~calculating /\ owed = 0
    /\ \A m \in 1 .. sequence : Done(m)

\* The outcome of such a run is the report of a controller that has ended.
Reporting ==
  outcome \in {"completed", "pause_timeout"} =>
    Gone("controller") /\ result["controller"] \in {"completed", "pause_timeout"}

WInv ==
  /\ Answering
  /\ Ledger
  /\ Settlement
  /\ Reporting

\* Records and answers are only added.
Grows ==
  /\ received \subseteq received'
  /\ \A m \in Ids : answered'[m] >= answered[m]

LEMMA GrowsAll ==
  ASSUME WorkerTypeOK, WorkerNext
  PROVE  Grows
<1>0. answered \in [Ids -> Nat] /\ inHand \in 0 .. MaxCommands
      /\ checking \in 0 .. MaxCommands
  BY DEF WorkerTypeOK, TopicTypeOK, PlantTypeOK
<1>1. CASE UNCHANGED historyVars
  BY <1>0, <1>1 DEF Grows, historyVars
<1>2. ASSUME NEW m, answered' = [answered EXCEPT ![m] = @ + 1],
             received' = received
      PROVE  Grows
  BY <1>0, <1>2 DEF Grows
<1>3. ASSUME NEW m \in Ids, OnCommand(m)
      PROVE  Grows
  BY <1>0, <1>3 DEF OnCommand, Grows
<1>4. CASE AnswerAtOnce
  BY <1>2, <1>4 DEF AnswerAtOnce
<1>5. CASE \E accepted \in BOOLEAN : TakeCertificate(accepted)
  BY <1>2, <1>5 DEF TakeCertificate
<1>6. ASSUME NEW r \in Roles, Finish(r)
      PROVE  Grows
  <2>1. CASE FinishPlant
    <3>1. CASE checking = 0
      BY <1>1, <2>1, <3>1 DEF FinishPlant, nodeVars
    <3>2. CASE checking # 0
      BY <1>2, <2>1, <3>2 DEF FinishPlant
    <3> QED  BY <3>1, <3>2
  <2>2. CASE ~FinishPlant
    BY <1>1, <1>6, <2>2 DEF Finish, FinishController, FinishControllerWith, nodeVars
  <2> QED  BY <2>1, <2>2
<1>7. ASSUME NEW r \in Roles,
             Lives(r) \/ Terminal(r) \/ ExhaustedTerminal(r) \/ Close(r)
             \/ Interrupt(r)
      PROVE  Grows
  BY <1>1, <1>7 DEF Lives, Build, StartFails, NodeFails, Report, Loop, Idle,
     CheckRefused, Fail, Dies, Terminal, ExhaustedTerminal, Close, Interrupt,
     nodeVars
<1>8. CASE ControllerSpins
  BY <1>1, <1>8 DEF ControllerSpins, OnAdmission, Begin, TakeError, TakeFault,
     TakeNone, TakeCommand, TickController, ControllerRefused, Cut, nodeVars
<1>9. CASE \/ \E m \in Ids : OnCommandRefused(m)
           \/ Submit \/ TickRefused \/ ClearAndRefuse
           \/ \E delayed \in BOOLEAN : Tick(delayed) \/ ClearAndFeed(delayed)
  BY <1>1, <1>9 DEF OnCommandRefused, Submit, TickRefused, ClearAndRefuse, Tick,
     ClearAndFeed, Feed, nodeVars
<1> QED  BY <1>3, <1>4, <1>5, <1>6, <1>7, <1>8, <1>9
         DEF WorkerNext, Working, Ends, PlantSpins

LEMMA DoneGrows ==
  ASSUME WorkerTypeOK, WorkerTypeOK', Grows
  PROVE  \A m \in Ids : Done(m) => Done(m)'
BY DEF WorkerTypeOK, TopicTypeOK, Grows, Done

\* What the plant keeps and what is on its way back stay answers to commands
\* that were recorded.
LEMMA AnsweringFrame ==
  ASSUME WorkerTypeOK, WorkerTypeOK', Grows, Answering,
         inHand' \in {inHand, 0} \cup received',
         checking' \in {checking, inHand, 0},
         \A m \in Ids, accepted \in BOOLEAN :
           <<m, accepted>> \in answers' => <<m, accepted>> \in answers \/ Done(m)'
  PROVE  Answering'
<1>1. \A m \in Ids : Done(m) => Done(m)'
  BY DoneGrows
<1>2. received \subseteq received'
  BY DEF Grows
<1> QED  BY <1>1, <1>2 DEF Answering

LEMMA AnsweringStep ==
  ASSUME WorkerTypeOK, HandHeld, WorkerTypeOK', Answering, WorkerNext
  PROVE  Answering'
<1>0. /\ Grows
      /\ answered \in [Ids -> Nat]
      /\ inHand \in 0 .. MaxCommands /\ checking \in 0 .. MaxCommands
      /\ answers \in SUBSET (Ids \X BOOLEAN)
  BY GrowsAll DEF WorkerTypeOK, TopicTypeOK, PlantTypeOK
<1>1. ASSUME NEW m \in Ids, OnCommand(m)
      PROVE  Answering'
  <2>1. inHand' \in received' /\ checking' = checking /\ answers' = answers
    BY <1>1 DEF OnCommand
  <2> QED  BY <1>0, <2>1, AnsweringFrame
<1>2. ASSUME NEW m \in Ids, NEW a \in BOOLEAN, Done(m)',
             answers' = answers \cup {<<m, a>>},
             inHand' \in {inHand, 0}, checking' \in {checking, 0}
      PROVE  Answering'
  <2>1. \A n \in Ids, b \in BOOLEAN :
          <<n, b>> \in answers' => <<n, b>> \in answers \/ Done(n)'
    BY <1>2
  <2> QED  BY <1>0, <1>2, <2>1, AnsweringFrame
<1>3. ASSUME NEW m \in Ids, m \in received, received' = received,
             answered' = [answered EXCEPT ![m] = @ + 1]
      PROVE  Done(m)'
  BY <1>0, <1>3 DEF Done
<1>4. CASE AnswerAtOnce
  <2>1. inHand \in Ids /\ inHand \in received
    BY <1>0, <1>4 DEF AnswerAtOnce, HandHeld, Answering, Spins, Goes, Ids
  <2>2. /\ answers' = answers \cup {<<inHand, FALSE>>}
        /\ answered' = [answered EXCEPT ![inHand] = @ + 1]
        /\ inHand' = 0 /\ checking' = checking /\ received' = received
    BY <1>4 DEF AnswerAtOnce
  <2>3. FALSE \in BOOLEAN
    OBVIOUS
  <2>4. ASSUME NEW m \in Ids, m = inHand
        PROVE  Answering'
    <3>1. Done(m)'
      BY <1>3, <2>1, <2>2, <2>4
    <3>2. answers' = answers \cup {<<m, FALSE>>}
      BY <2>2, <2>4
    <3> QED  BY <1>2, <2>2, <2>3, <3>1, <3>2
  <2> QED  BY <2>1, <2>4
<1>5. ASSUME NEW a \in BOOLEAN, TakeCertificate(a)
      PROVE  Answering'
  <2>1. checking \in Ids /\ checking \in received
    BY <1>0, <1>5 DEF TakeCertificate, Answering, Ids
  <2>2. /\ answers' = answers \cup {<<checking, a>>}
        /\ answered' = [answered EXCEPT ![checking] = @ + 1]
        /\ inHand' = inHand /\ checking' = checking /\ received' = received
    BY <1>5 DEF TakeCertificate
  <2>3. ASSUME NEW m \in Ids, m = checking
        PROVE  Answering'
    <3>1. Done(m)'
      BY <1>3, <2>1, <2>2, <2>3
    <3>2. answers' = answers \cup {<<m, a>>}
      BY <2>2, <2>3
    <3> QED  BY <1>2, <2>2, <3>1, <3>2
  <2> QED  BY <2>1, <2>3
<1>6. CASE FinishPlant /\ checking # 0
  <2>1. checking \in Ids /\ checking \in received
    BY <1>0, <1>6 DEF Answering, Ids
  <2>2. /\ answers' = answers \cup {<<checking, FALSE>>}
        /\ answered' = [answered EXCEPT ![checking] = @ + 1]
        /\ inHand' = inHand /\ checking' = 0 /\ received' = received
    BY <1>6 DEF FinishPlant
  <2>3. ASSUME NEW m \in Ids, m = checking
        PROVE  Answering'
    <3>1. Done(m)'
      BY <1>3, <2>1, <2>2, <2>3
    <3>2. answers' = answers \cup {<<m, FALSE>>} /\ FALSE \in BOOLEAN
      BY <2>2, <2>3
    <3> QED  BY <1>2, <2>2, <3>1, <3>2
  <2> QED  BY <2>1, <2>3
<1>7. ASSUME inHand' \in {inHand, 0}, checking' \in {checking, inHand, 0},
             answers' \subseteq answers
      PROVE  Answering'
  BY <1>0, <1>7, AnsweringFrame
<1>8. ASSUME NEW r \in Roles,
             Lives(r) \/ Terminal(r) \/ ExhaustedTerminal(r) \/ Close(r)
             \/ Interrupt(r) \/ (Finish(r) /\ ~(FinishPlant /\ checking # 0))
      PROVE  Answering'
  <2>1. inHand' \in {inHand, 0}
    BY <1>8 DEF Lives, Build, StartFails, NodeFails, Report, Loop, Idle,
       CheckRefused, Fail, Dies, Terminal, ExhaustedTerminal, Close, Interrupt,
       Finish, FinishController, FinishControllerWith, FinishPlant, nodeVars,
       plantVars
  <2>2. checking' \in {checking, 0}
    BY <1>8 DEF Lives, Build, StartFails, NodeFails, Report, Loop, Idle,
       CheckRefused, Fail, Dies, Terminal, ExhaustedTerminal, Close, Interrupt,
       Finish, FinishController, FinishControllerWith, FinishPlant, nodeVars,
       plantVars
  <2>3. answers' = answers
    BY <1>8 DEF Lives, Build, StartFails, NodeFails, Report, Loop, Idle,
       CheckRefused, Fail, Dies, Terminal, ExhaustedTerminal, Close, Interrupt,
       Finish, FinishController, FinishControllerWith, FinishPlant, nodeVars,
       topicVars
  <2> QED  BY <1>7, <2>1, <2>2, <2>3
<1>9. CASE ControllerSpins
  <2>1. UNCHANGED plantVars /\ answers' \subseteq answers
    BY <1>9 DEF ControllerSpins, OnAdmission, Begin, TakeError, TakeFault,
       TakeNone, TakeCommand, TickController, ControllerRefused, Cut, nodeVars,
       topicVars
  <2> QED  BY <1>7, <2>1 DEF plantVars
<1>10. CASE \/ \E m \in Ids : OnCommandRefused(m)
            \/ Submit \/ TickRefused \/ ClearAndRefuse
            \/ \E delayed \in BOOLEAN : Tick(delayed) \/ ClearAndFeed(delayed)
  <2>1. /\ inHand' \in {inHand, 0} /\ checking' \in {checking, inHand, 0}
        /\ answers' = answers
    BY <1>10 DEF OnCommandRefused, Submit, TickRefused, ClearAndRefuse, Tick,
       ClearAndFeed, Feed, nodeVars, plantVars, topicVars
  <2> QED  BY <1>7, <2>1
<1> QED  BY <1>1, <1>4, <1>5, <1>6, <1>8, <1>9, <1>10
         DEF WorkerNext, Working, Ends, PlantSpins

\* The controller keeps its books and moves on, or its process ends.
LEMMA LedgerMoves ==
  ASSUME WorkerTypeOK, WorkerTypeOK', Grows, Ledger, Settlement,
         UNCHANGED controllerVars,
         result'["controller"] \in {result["controller"], "budget_exhausted"},
         at'["controller"] \in {"none", "starting"} =>
           at["controller"] \in {"none", "starting"},
         at'["controller"] \in InTry =>
           at["controller"] \in InTry \cup {"none", "starting"},
         at["controller"] \in Ending => at'["controller"] \in Ending
  PROVE  Ledger' /\ Settlement'
<1>1. \A m \in 1 .. sequence : Done(m) => Done(m)'
  BY DoneGrows DEF WorkerTypeOK, ControllerTypeOK, Ids
<1>2. UNCHANGED <<execution, sequence, open, calculating, owed>>
  BY DEF controllerVars
<1>3. Ledger'
  BY <1>1, <1>2 DEF Ledger, One
<1>4. Settlement'
  BY <1>1, <1>2 DEF Settlement
<1> QED  BY <1>3, <1>4

LEMMA LedgerDies ==
  ASSUME WorkerTypeOK, WorkerTypeOK', Grows, Ledger, Settlement,
         NEW how, Dies("controller", how), result' = result
  PROVE  Ledger' /\ Settlement'
<1>1. \A m \in 1 .. sequence : Done(m) => Done(m)'
  BY DoneGrows DEF WorkerTypeOK, ControllerTypeOK, Ids
<1>2. /\ at'["controller"] = "gone"
      /\ open' = {} /\ calculating' = FALSE /\ execution' = "tracking"
      /\ UNCHANGED <<sequence, owed>>
  BY DEF Dies, WorkerTypeOK, LifeTypeOK, Roles
<1>3. Ledger'
  BY <1>2 DEF Ledger, InTry
<1>4. Settlement'
  BY <1>1, <1>2 DEF Settlement, Ending
<1> QED  BY <1>3, <1>4

\* The last report, and the last records.
LEMMA LedgerReport ==
  ASSUME WorkerTypeOK, WorkerTypeOK', Grows, Ledger, Settlement,
         Report("controller")
  PROVE  Ledger' /\ Settlement'
<1>0. at \in [Roles -> Places] /\ "controller" \in Roles
      /\ result \in [Roles -> Terminations \cup {"budget_exhausted"}]
  BY DEF WorkerTypeOK, LifeTypeOK, Roles
<1>1. \A m \in 1 .. sequence : Done(m) => Done(m)'
  BY DoneGrows DEF WorkerTypeOK, ControllerTypeOK, Ids
<1>2. /\ at["controller"] = "checks" /\ at'["controller"] = "finish"
      /\ execution = "holding" /\ open = {}
      /\ UNCHANGED controllerVars
  BY <1>0 DEF Report, Goes, Holding, nodeVars
<1>3. ~calculating
  BY <1>2 DEF Ledger
<1>4. owed = 0
  BY <1>2, <1>3, FS_EmptySet DEF Ledger, InTry, One
<1>5. \A m \in 1 .. sequence : Done(m)
  BY <1>2 DEF Ledger, InTry
<1>6. UNCHANGED <<execution, sequence, open, calculating, owed>>
  BY <1>2 DEF controllerVars
<1>7. Ledger'
  BY <1>2, <1>3, <1>6 DEF Ledger, InTry
<1>8. Settlement'
  BY <1>1, <1>2, <1>3, <1>4, <1>5, <1>6 DEF Settlement, Ending
<1> QED  BY <1>7, <1>8

LEMMA LedgerFinish ==
  ASSUME WorkerTypeOK, WorkerTypeOK', Grows, Ledger, Settlement,
         Finish("controller"), FinishController
  PROVE  Ledger' /\ Settlement'
<1>0. at \in [Roles -> Places] /\ "controller" \in Roles /\ owed \in Int
  BY DEF WorkerTypeOK, LifeTypeOK, ControllerTypeOK, Roles
<1>1. \A m \in 1 .. sequence : Done(m) => Done(m)'
  BY DoneGrows DEF WorkerTypeOK, ControllerTypeOK, Ids
<1>2. /\ at'["controller"] = "terminal" /\ result' = result
      /\ open' = {} /\ calculating' = FALSE
      /\ owed' = owed - Cardinality(open) - One(calculating)
      /\ UNCHANGED <<execution, sequence>>
  BY <1>0 DEF Finish, Goes, FinishController, FinishControllerWith, One
<1>3. Ledger'
  BY <1>2 DEF Ledger, InTry
<1>4. open = {} /\ ~calculating => owed' = owed
  BY <1>0, <1>2, FS_EmptySet DEF One
<1>5. Settlement'
  BY <1>1, <1>2, <1>4 DEF Settlement, Ending
<1> QED  BY <1>3, <1>5

\* A callback: the books change, and there is no report of the end yet.
LEMMA LedgerSpins ==
  ASSUME WorkerTypeOK, WorkerTypeOK', Grows, Answering, Ledger, Settlement,
         ControllerSpins
  PROVE  Ledger' /\ Settlement'
<1>0. /\ at \in [Roles -> Places] /\ "controller" \in Roles
      /\ owed \in Int /\ open \subseteq Ids /\ sequence \in 0 .. MaxCommands
      /\ answers \subseteq Ids \X BOOLEAN
      /\ IsFiniteSet(open) /\ Cardinality(open) \in Nat
  BY OpenType DEF WorkerTypeOK, LifeTypeOK, ControllerTypeOK, TopicTypeOK, Roles
<1>1. \A m \in Ids : Done(m) => Done(m)'
  BY DoneGrows
<1>2. at["controller"] = "spin" /\ at'["controller"] \in {"checks", "finish"}
  BY <1>0 DEF ControllerSpins, OnAdmission, Begin, TakeError, TakeFault,
     TakeNone, TakeCommand, TickController, ControllerRefused, Cut, Spins,
     Exhausts, Goes
<1>3. result'["controller"] \in {result["controller"], "budget_exhausted"}
  <2>1. result \in [Roles -> Terminations \cup {"budget_exhausted"}]
    BY DEF WorkerTypeOK, LifeTypeOK
  <2>2. \/ result' = result
        \/ result' = [result EXCEPT !["controller"] = "budget_exhausted"]
    BY DEF ControllerSpins, OnAdmission, Begin, TakeError, TakeFault, TakeNone,
       TakeCommand, TickController, ControllerRefused, Cut, Spins, Exhausts
  <2> QED  BY <1>0, <2>1, <2>2
<1>4. Settlement'
  BY <1>2, <1>3 DEF Settlement, Ending
<1>5. /\ owed = Cardinality(open) + One(calculating)
      /\ \A m \in 1 .. sequence : m \in open \/ Done(m)
      /\ execution = "holding" => ~calculating
      /\ open \subseteq 1 .. sequence
  BY <1>2 DEF Ledger, InTry
<1>6. \A m \in 1 .. sequence : m \in Ids
  BY <1>0 DEF Ids
<1>7. ASSUME NEW m \in Ids, NEW accepted \in BOOLEAN, OnAdmission(m, accepted)
      PROVE  Ledger'
  <2>1. /\ m \in open /\ open' = open \ {m} /\ owed' = owed - 1
        /\ UNCHANGED <<execution, sequence, calculating>>
        /\ <<m, accepted>> \in answers
    BY <1>7 DEF OnAdmission, Remaining
  <2>2. Cardinality(open') = Cardinality(open) - 1
    BY <1>0, <2>1, FS_RemoveElement
  <2>3. Done(m)
    BY <2>1 DEF Answering
  <2>4. owed' = Cardinality(open') + One(calculating)'
    BY <1>0, <1>5, <2>1, <2>2 DEF One
  <2>5. \A n \in 1 .. sequence' : n \in open' \/ Done(n)'
    BY <1>1, <1>5, <1>6, <2>1, <2>3
  <2> QED  BY <1>2, <1>5, <2>1, <2>4, <2>5 DEF Ledger
<1>8. CASE Begin
  <2>1. /\ execution = "tracking" /\ ~calculating /\ calculating'
        /\ owed' = owed + 1
        /\ UNCHANGED <<execution, sequence, open>>
    BY <1>8 DEF Begin
  <2>2. owed' = Cardinality(open') + One(calculating')
    BY <1>0, <1>5, <2>1 DEF One
  <2>3. \A n \in 1 .. sequence' : n \in open' \/ Done(n)'
    BY <1>1, <1>5, <1>6, <2>1
  <2> QED  BY <1>2, <1>4, <1>5, <2>1, <2>2, <2>3 DEF Ledger
<1>9. CASE TakeError \/ TakeFault \/ TakeNone
  <2>1. /\ calculating /\ calculating' = FALSE /\ owed' = owed - 1
        /\ UNCHANGED <<sequence, open>>
    BY <1>9 DEF TakeError, TakeFault, TakeNone, TakesUp
  <2>2. owed' = Cardinality(open') + One(calculating')
    BY <1>0, <1>5, <2>1 DEF One
  <2>3. \A n \in 1 .. sequence' : n \in open' \/ Done(n)'
    BY <1>1, <1>5, <1>6, <2>1
  <2> QED  BY <1>2, <1>4, <1>5, <2>1, <2>2, <2>3 DEF Ledger
<1>10. ASSUME NEW completes \in BOOLEAN, TakeCommand(completes)
       PROVE  Ledger'
  <2>1. /\ calculating /\ calculating' = FALSE /\ owed' = owed
        /\ sequence' = sequence + 1
        /\ open' = open \cup {sequence + 1}
    BY <1>10 DEF TakeCommand, TakesUp
  <2>2. sequence + 1 \notin open
    BY <1>0, <1>5
  <2>3. Cardinality(open') = Cardinality(open) + 1
    BY <1>0, <2>1, <2>2, FS_AddElement
  <2>4. owed' = Cardinality(open') + One(calculating')
    BY <1>0, <1>5, <2>1, <2>3 DEF One
  <2>5. \A n \in 1 .. sequence' : n \in open' \/ Done(n)'
    <3>1. \A n \in 1 .. sequence' : n = sequence + 1 \/ n \in 1 .. sequence
      BY <1>0, <2>1
    <3> QED  BY <1>1, <1>5, <1>6, <2>1, <3>1
  <2>6. open' \subseteq 1 .. sequence'
    BY <1>0, <1>5, <2>1
  <2> QED  BY <1>2, <2>1, <2>4, <2>5, <2>6 DEF Ledger
<1>11. CASE TickController \/ ControllerRefused
  BY <1>2, <1>3, <1>11, LedgerMoves
  DEF TickController, ControllerRefused, nodeVars, Ending, InTry
<1>12. CASE Cut
  <2>1. /\ open' \subseteq open
        /\ UNCHANGED <<execution, sequence>>
    BY <1>12 DEF Cut, TakesUp
  <2>3. calculating' => calculating
    BY <1>12 DEF Cut, TakesUp
  <2>2. at'["controller"] = "finish"
    BY <1>0, <1>12 DEF Cut, Goes
  <2> QED  BY <1>4, <1>5, <2>1, <2>2, <2>3 DEF Ledger, InTry
<1> QED  BY <1>4, <1>7, <1>8, <1>9, <1>10, <1>11, <1>12 DEF ControllerSpins

\* The books under every step of the workers.
LEMMA LedgerStep ==
  ASSUME SInv, SInv', WInv, WorkerNext
  PROVE  Ledger' /\ Settlement'
<1>0. /\ WorkerTypeOK /\ WorkerTypeOK' /\ Grows
      /\ Answering /\ Ledger /\ Settlement
      /\ at \in [Roles -> Places] /\ at' \in [Roles -> Places]
      /\ result \in [Roles -> Terminations \cup {"budget_exhausted"}]
      /\ Roles = {"controller", "plant"}
  BY GrowsAll DEF SInv, RunTypeOK, WInv, WorkerTypeOK, LifeTypeOK, Roles
<1> DEFINE c == "controller"
<1>1. ASSUME UNCHANGED controllerVars, result' = result, at'[c] = at[c]
      PROVE  Ledger' /\ Settlement'
  BY <1>0, <1>1, LedgerMoves
<1>2. CASE Lives(c)
  <2>1. CASE StartFails(c)
    BY <1>0, <2>1, LedgerDies DEF StartFails
  <2>2. CASE Report(c)
    BY <1>0, <2>2, LedgerReport
  <2>3. CASE ~StartFails(c) /\ ~Report(c)
    <3>1. UNCHANGED controllerVars
      BY <1>2, <2>3 DEF Lives, Build, NodeFails, Loop, Idle, CheckRefused, Fail,
         nodeVars
    <3>2. at[c] \in {"starting", "checks", "spin"}
      BY <1>2, <2>3 DEF Lives, Build, NodeFails, Loop, Idle, CheckRefused,
         Exhausts, Fail, Goes
    <3>3. at'[c] \in {"checks", "spin", "finish"}
      <4>1. \E to \in {"checks", "spin", "finish"} : at' = [at EXCEPT ![c] = to]
        BY <1>2, <2>3 DEF Lives, Build, NodeFails, Loop, Idle, CheckRefused,
           Exhausts, Fail, Goes
      <4> QED  BY <1>0, <4>1
    <3>4. result'[c] \in {result[c], "budget_exhausted"}
      <4>1. \/ result' = result
            \/ result' = [result EXCEPT ![c] = "budget_exhausted"]
        BY <1>2, <2>3 DEF Lives, Build, NodeFails, Loop, Idle, CheckRefused,
           Exhausts, Fail
      <4> QED  BY <1>0, <4>1
    <3> QED  BY <1>0, <3>1, <3>2, <3>3, <3>4, LedgerMoves DEF InTry, Ending
  <2> QED  BY <2>1, <2>2, <2>3
<1>3. CASE Ends(c)
  <2>1. CASE Close(c)
    BY <1>0, <2>1, LedgerDies DEF Close
  <2>2. CASE Finish(c)
    <3>1. CASE c \notin ready
      <4>1. UNCHANGED controllerVars /\ result' = result
        BY <2>2, <3>1 DEF Finish, nodeVars
      <4>2. at[c] = "finish" /\ at'[c] = "terminal"
        BY <1>0, <2>2 DEF Finish, Goes
      <4> QED  BY <1>0, <4>1, <4>2, LedgerMoves DEF InTry, Ending
    <3>2. CASE c \in ready
      BY <1>0, <2>2, <3>2, LedgerFinish DEF Finish
    <3> QED  BY <3>1, <3>2
  <2>3. CASE Terminal(c)
    <3>1. UNCHANGED controllerVars /\ result' = result
      BY <2>3 DEF Terminal, nodeVars
    <3>2. at[c] = "terminal" /\ at'[c] = "close"
      BY <1>0, <2>3 DEF Terminal, Goes
    <3> QED  BY <1>0, <3>1, <3>2, LedgerMoves DEF InTry, Ending
  <2>4. CASE ExhaustedTerminal(c)
    <3>1. UNCHANGED <<execution, sequence, open, calculating, owed>>
      BY <2>4 DEF ExhaustedTerminal
    <3>2. at'[c] = "close" /\ result'[c] = "budget_exhausted"
      BY <1>0, <2>4 DEF ExhaustedTerminal, Goes
    <3>3. Ledger'
      BY <1>0, <3>1, <3>2 DEF Ledger, InTry
    <3>4. Settlement'
      BY <3>2 DEF Settlement
    <3> QED  BY <3>3, <3>4
  <2> QED  BY <1>3, <2>1, <2>2, <2>3, <2>4 DEF Ends
<1>4. CASE Interrupt(c)
  <2>1. CASE at[c] = "starting"
    BY <1>0, <1>4, <2>1, LedgerDies DEF Interrupt, InTry
  <2>2. CASE at[c] # "starting"
    <3>1. UNCHANGED controllerVars /\ result' = result
      BY <1>4, <2>2 DEF Interrupt, nodeVars
    <3>2. at[c] \notin {"none", "starting"}
          /\ at'[c] \in {"finish", "terminal", "close"}
      BY <1>0, <1>4, <2>2 DEF Interrupt, InTry
    <3> QED  BY <1>0, <3>1, <3>2, LedgerMoves DEF InTry, Ending
  <2> QED  BY <2>1, <2>2
<1>5. CASE ControllerSpins
  BY <1>0, <1>5, LedgerSpins
<1>6. CASE Lives("plant") \/ Ends("plant") \/ Interrupt("plant") \/ PlantSpins
  <2>1. UNCHANGED controllerVars
    BY <1>6 DEF Lives, Build, StartFails, NodeFails, Report, Loop, Idle,
       CheckRefused, Fail, Dies, Ends, Finish, FinishPlant, Terminal,
       ExhaustedTerminal, Close, Interrupt, PlantSpins, OnCommand,
       OnCommandRefused, AnswerAtOnce, Submit, Tick, ClearAndFeed, Feed,
       TickRefused, ClearAndRefuse, TakeCertificate, nodeVars, controllerVars
  <2>2. at'[c] = at[c]
    <3>1. \E to : at' = [at EXCEPT !["plant"] = to]
      BY <1>6 DEF Lives, Build, StartFails, NodeFails, Report, Loop, Idle,
         CheckRefused, Exhausts, Fail, Dies, Ends, Finish, Terminal,
         ExhaustedTerminal, Close, Interrupt, PlantSpins, OnCommand,
         OnCommandRefused, AnswerAtOnce, Submit, Tick, ClearAndFeed, Feed,
         TickRefused, ClearAndRefuse, TakeCertificate, Goes, Spins
    <3> QED  BY <1>0, <3>1
  <2>3. result'[c] = result[c]
    BY <1>0, <1>6 DEF Lives, Build, StartFails, NodeFails, Report, Holding, Loop,
       Idle, CheckRefused, Exhausts, Fail, Dies, Ends, Finish, Terminal,
       ExhaustedTerminal, Close, Interrupt, PlantSpins, OnCommand,
       OnCommandRefused, AnswerAtOnce, Submit, Tick, ClearAndFeed, Feed,
       TickRefused, ClearAndRefuse, TakeCertificate, Spins
  <2> QED  BY <1>0, <2>1, <2>2, <2>3, LedgerMoves
<1> QED  BY <1>0, <1>2, <1>3, <1>4, <1>5, <1>6 DEF WorkerNext, Working

\* And of the supervisor: a start finds nothing begun, a kill is an end.
LEMMA WInvSupervisor ==
  ASSUME SInv, SInv', WInv, SupervisorStep
  PROVE  WInv'
<1>0. /\ WorkerTypeOK /\ WorkerTypeOK' /\ Unstarted
      /\ Answering /\ Ledger /\ Settlement /\ Reporting
      /\ at \in [Roles -> Places]
      /\ answered \in [Ids -> Nat]
      /\ First \in Roles
      /\ Roles = {"controller", "plant"}
  BY DEF SInv, RunTypeOK, WInv, WorkerTypeOK, LifeTypeOK, TopicTypeOK, Roles, First
<1>1. Grows /\ UNCHANGED <<answers, result>>
  <2>1. UNCHANGED <<topicVars, historyVars, result>>
    BY DEF SupervisorStep, SupervisorNext, TryNext, FinallyNext, Launch,
       SeesReady, Raises, StartupFails, PollAlive, LookOn, TimesOut,
       SeesExhausted, PlantLeft, ControllerEnds, ControllerFails, Settled,
       Request, Waited, SendInterrupt, Kill, Dies, WriteResult,
       SignalSupervisor, workerVars, lifeVars, nodeVars
  <2> QED  BY <1>0, <2>1 DEF topicVars, historyVars, Grows
<1>2. CASE Kill
  <2>1. outcome' = outcome
    BY <1>2 DEF Kill
  <2>2. inHand' \in {inHand, 0} /\ checking' \in {checking, 0}
    BY <1>2 DEF Kill, Dies, workerVars, nodeVars, plantVars
  <2>3. Answering'
    BY <1>0, <1>1, <2>2, AnsweringFrame
  <2>4. Ledger' /\ Settlement'
    <3>1. CASE UNCHANGED workerVars
      BY <1>0, <1>1, <3>1, LedgerMoves DEF workerVars, lifeVars, nodeVars
    <3>2. CASE Dies(First, "killed") /\ First = "controller"
      BY <1>0, <1>1, <3>2, LedgerDies
    <3>3. CASE Dies(First, "killed") /\ First = "plant"
      <4>1. UNCHANGED controllerVars /\ at'["controller"] = at["controller"]
        BY <1>0, <3>3 DEF Dies
      <4> QED  BY <1>0, <1>1, <4>1, LedgerMoves
    <3> QED  BY <1>0, <1>2, <3>1, <3>2, <3>3 DEF Kill
  <2>5. Reporting'
    <3>1. Gone("controller") => Gone("controller")'
      BY <1>0, <1>2 DEF Kill, Dies, Gone, workerVars, lifeVars
    <3> QED  BY <1>0, <1>1, <2>1, <3>1 DEF Reporting
  <2> QED  BY <2>3, <2>4, <2>5 DEF WInv
<1>3. CASE ~Kill
  <2>1. UNCHANGED nodeVars
    BY <1>3 DEF SupervisorStep, SupervisorNext, TryNext, FinallyNext, Launch,
       SeesReady, Raises, StartupFails, PollAlive, LookOn, TimesOut,
       SeesExhausted, PlantLeft, ControllerEnds, ControllerFails, Settled,
       Request, Waited, SendInterrupt, WriteResult, SignalSupervisor, workerVars
  <2>2. Answering'
    BY <1>0, <1>1, <2>1, AnsweringFrame DEF nodeVars, plantVars
  <2>3. \/ at'["controller"] = at["controller"]
        \/ at["controller"] = "none" /\ at'["controller"] = "starting"
    BY <1>0, <1>3 DEF Unstarted, Moves, SupervisorStep, SupervisorNext, TryNext,
       FinallyNext, Launch, SeesReady, Raises, StartupFails, PollAlive, LookOn,
       TimesOut, SeesExhausted, PlantLeft, ControllerEnds, ControllerFails,
       Settled, Request, Waited, SendInterrupt, WriteResult, SignalSupervisor,
       workerVars, lifeVars
  <2>4. Ledger' /\ Settlement'
    BY <1>0, <1>1, <2>1, <2>3, LedgerMoves DEF nodeVars, InTry, Ending
  <2>5. Reporting'
    <3>1. CASE ControllerEnds
      <4>1. /\ outcome' = result["controller"] /\ Gone("controller")
            /\ at' = at
        BY <3>1 DEF ControllerEnds, workerVars, lifeVars
      <4> QED  BY <1>1, <4>1 DEF Reporting, Gone
    <3>2. CASE ~ControllerEnds
      <4>1. outcome' \in {outcome, "fault", "timeout", "budget_exhausted"}
        BY <1>3, <3>2 DEF SupervisorStep, SupervisorNext, TryNext, FinallyNext,
           Launch, SeesReady, Raises, StartupFails, PollAlive, LookOn, TimesOut,
           SeesExhausted, PlantLeft, ControllerFails, Settled, Request, Waited,
           SendInterrupt, WriteResult, Override, SignalSupervisor
      <4>2. Gone("controller") => Gone("controller")'
        BY <2>3 DEF Gone
      <4> QED  BY <1>0, <1>1, <4>1, <4>2 DEF Reporting
    <3> QED  BY <3>1, <3>2
  <2> QED  BY <2>2, <2>4, <2>5 DEF WInv
<1> QED  BY <1>2, <1>3

LEMMA WInvInit ==
  ASSUME Init
  PROVE  WInv
<1> USE DEF Init, WorkerInit
<1>1. Answering
  BY DEF Answering
<1>2. Ledger
  BY FS_EmptySet DEF Ledger, InTry, One, Roles
<1>3. Settlement
  BY DEF Settlement, Roles
<1>4. Reporting
  BY DEF Reporting
<1> QED  BY <1>1, <1>2, <1>3, <1>4 DEF WInv

LEMMA WInvStep ==
  ASSUME SInv, SInv', WInv, [Next]_vars
  PROVE  WInv'
<1>1. CASE WorkerNext /\ UNCHANGED supervisorVars
  <2>1. Ledger' /\ Settlement'
    BY <1>1, LedgerStep
  <2>2. Answering'
    BY <1>1, AnsweringStep DEF SInv, RunTypeOK, WInv
  <2>3. Reporting'
    <3>1. outcome' = outcome
      BY <1>1 DEF supervisorVars
    <3>2. WorkerFrame("controller")
      BY <1>1, WorkersFrame DEF SInv, RunTypeOK, Roles
    <3> QED  BY <3>1, <3>2 DEF WInv, Reporting, WorkerFrame, Gone
  <2> QED  BY <2>1, <2>2, <2>3 DEF WInv
<1>2. CASE SupervisorStep
  BY <1>2, WInvSupervisor
<1>3. CASE UNCHANGED vars
  <2>1. UNCHANGED workerVars /\ UNCHANGED supervisorVars
    BY <1>3 DEF vars
  <2>2. UNCHANGED <<lifeVars, controllerVars, plantVars, topicVars, historyVars>>
    BY <2>1 DEF workerVars, nodeVars
  <2>3. Answering'
    BY <2>2 DEF WInv, Answering, Done, plantVars, topicVars, historyVars
  <2>4. Ledger'
    BY <2>2 DEF WInv, Ledger, Done, One, lifeVars, controllerVars, historyVars
  <2>5. Settlement'
    BY <2>2 DEF WInv, Settlement, Done, lifeVars, controllerVars, historyVars
  <2>6. Reporting'
    BY <2>1, <2>2 DEF WInv, Reporting, Gone, lifeVars, supervisorVars
  <2> QED  BY <2>3, <2>4, <2>5, <2>6 DEF WInv
<1> QED  BY <1>1, <1>2, <1>3 DEF Next, SupervisorStep

\* The controller's books are right in every state of a run.
THEOREM WInvHolds == Spec => []WInv
BY SInvHolds, WInvInit, WInvStep, PTL DEF Spec

\* A run reported as completed, or as paused for too long, is whole.
THEOREM CompletedWhole == Spec => []CompletedIsWhole
<1>1. WInv => CompletedIsWhole
  BY DEF WInv, Reporting, Settlement, Done, CompletedIsWhole
<1> QED  BY <1>1, WInvHolds, PTL

(***************************************************************************)
(* What the reserves hold                                                  *)
(***************************************************************************)

\* The records of a stream that a worker may still append before its next check.
Appending == InTry \cup {"finish"}

ControllerRest(s) ==
  IF at["controller"] \in Appending
  THEN IF s = "cycle" THEN Cardinality(open) + One(calculating)
       ELSE IF s \in {"candidate", "rejection", "failure"} THEN One(calculating)
       ELSE IF s = "transition" THEN 3
       ELSE One(s = "event")
  ELSE IF at["controller"] = "terminal"
  THEN IF s = "transition" THEN 1 + One(calculating) ELSE One(s = "event")
  ELSE 0

PlantRest(s) ==
  IF at["plant"] \in Appending
  THEN IF s = "admission" THEN One(checking # 0) + One(at["plant"] = "received")
       ELSE One(s = "event")
  ELSE IF at["plant"] = "terminal" THEN One(s = "event")
  ELSE 0

\* A check has just emptied the window before a callback, and what follows fits
\* the reserve.
Empty(r) == \A s \in Streams : written[r][s] = 0
Fresh(r) == at[r] \in {"none", "starting", "spin"} => Empty(r)

ControllerRoom ==
  /\ Fresh("controller")
  /\ at["controller"] = "spin" => Cardinality(open) <= PendingRoom
  /\ \A s \in Streams :
       written["controller"][s] + ControllerRest(s) <= Reserve("controller", s)

PlantRoom ==
  /\ Fresh("plant")
  /\ \A s \in Streams :
       written["plant"][s] + PlantRest(s) <= Reserve("plant", s)

RInv == ControllerRoom /\ PlantRoom

\* What is appended is counted at most as often as it is.
LEMMA AppendBound ==
  ASSUME NEW r \in Roles, NEW n \in Windows, RecorderTypeOK, Append(r, n)
  PROVE  /\ \A s \in Streams : written'[r][s] \in Nat
         /\ \A s \in Streams : written'[r][s] <= written[r][s] + n[s]
         /\ \A q \in Roles : q # r => written'[q] = written[q]
<1>1. written'[r] = With(written[r], Count(n))
  BY DEF Append, RecorderTypeOK
<1> QED  BY <1>1 DEF Append, RecorderTypeOK, With, Count, Windows

LEMMA AdmittedBound ==
  ASSUME NEW r \in Roles, NEW n \in Windows, NEW pending, RecorderTypeOK,
         Admitted(r, pending, n)
  PROVE  /\ \A s \in Streams : written'[r][s] \in Nat
         /\ \A s \in Streams : written'[r][s] <= n[s]
         /\ \A q \in Roles : q # r => written'[q] = written[q]
         /\ pending <= PendingRoom
<1>1. written'[r] = Count(n)
  BY DEF Admitted, RecorderTypeOK
<1> QED  BY <1>1 DEF Admitted, RecorderTypeOK, Count, Windows

LEMMA RefusedBound ==
  ASSUME NEW r \in Roles, NEW pending, RecorderTypeOK, Refused(r, pending)
  PROVE  /\ \A s \in Streams : written'[r][s] \in Nat
         /\ \A s \in Streams : written'[r][s] <= written[r][s]
         /\ \A q \in Roles : q # r => written'[q] = written[q]
<1>1. CASE written' = written
  BY <1>1 DEF RecorderTypeOK
<1>2. CASE written' = [written EXCEPT ![r] = Nothing]
  BY <1>2 DEF RecorderTypeOK, Nothing
<1> QED  BY <1>1, <1>2 DEF Refused

LEMMA WindowValues ==
  /\ \A S, s : s \in Streams => Some(S)[s] = One(s \in S)
  /\ \A s \in Streams : Nothing[s] = 0
  /\ \A w, n, s : s \in Streams => With(w, n)[s] = w[s] + n[s]
  /\ \A s \in Streams : Transition[s] <= One(s = "transition")
  /\ \A s \in Streams : Transition[s] \in Nat
BY DEF Some, Nothing, With, Transition, One

\* After a check that was admitted: only what has begun is still to come.
LEMMA RoomWhenEmpty ==
  ASSUME WorkerTypeOK', Cardinality(open)' <= PendingRoom,
         Empty("controller")'
  PROVE  ControllerRoom'
<1>1. Cardinality(open)' \in Nat
  <2>1. IsFiniteSet(Ids)
    BY FS_Interval DEF Ids
  <2>2. open' \in SUBSET Ids
    BY DEF WorkerTypeOK, ControllerTypeOK
  <2> QED  BY <2>1, <2>2, FS_Subset, FS_CardinalityType
<1> QED  BY <1>1 DEF ControllerRoom, Fresh, Empty, ControllerRest, One, Reserve

\* Nothing is appended, and the worker is no farther from its end.
LEMMA RoomShrinks ==
  ASSUME WorkerTypeOK, ControllerRoom,
         UNCHANGED <<open, calculating>>,
         \A s \in Streams : written'["controller"][s] \in Nat,
         \A s \in Streams :
           written'["controller"][s] <= written["controller"][s],
         \/ at["controller"] \in Appending
         \/ at["controller"] \in {"terminal", "close"}
            /\ at'["controller"] \in {"terminal", "close"}
            /\ (at'["controller"] = "terminal" => at["controller"] = "terminal"),
         at'["controller"] \in (Appending \cup {"terminal", "close"}) \ {"spin"}
  PROVE  ControllerRoom'
<1>1. Cardinality(open) \in Nat
  BY OpenType DEF WorkerTypeOK, ControllerTypeOK
<1>2. \A s \in Streams : written["controller"][s] \in Nat
  BY DEF WorkerTypeOK, RecorderTypeOK, Roles
<1>3. \A s \in Streams : ControllerRest(s)' <= ControllerRest(s)
  BY <1>1 DEF ControllerRest, One, Appending, InTry
<1>4. \A s \in Streams :
        ControllerRest(s) \in Nat /\ ControllerRest(s)' \in Nat
        /\ Reserve("controller", s) \in Nat
  BY <1>1 DEF ControllerRest, One, Reserve
<1>5. at'["controller"] \notin {"none", "starting", "spin"}
  BY DEF Appending, InTry
<1>6. ASSUME NEW s \in Streams
      PROVE  written'["controller"][s] + ControllerRest(s)' <= Reserve("controller", s)
  BY <1>2, <1>3, <1>4 DEF ControllerRoom
<1> QED  BY <1>5, <1>6 DEF ControllerRoom, Fresh

\* A process that has ended appends nothing.
LEMMA RoomDies ==
  ASSUME WorkerTypeOK, NEW r \in Roles, NEW how, Dies(r, how)
  PROVE  /\ r = "controller" => ControllerRoom'
         /\ r = "plant" => PlantRoom'
<1>1. at'[r] = "gone" /\ \A s \in Streams : written'[r][s] = 0
  BY DEF Dies, Nothing, WorkerTypeOK, LifeTypeOK, RecorderTypeOK
<1> QED
  BY <1>1 DEF ControllerRoom, PlantRoom, Fresh, ControllerRest, PlantRest, Reserve,
     Appending, InTry

\* A callback of the controller appends what the reserve holds.
LEMMA RoomSpins ==
  ASSUME WorkerTypeOK, WorkerTypeOK', ControllerRoom, ControllerSpins
  PROVE  ControllerRoom'
<1> DEFINE c == "controller"
<1>0. /\ RecorderTypeOK /\ c \in Roles /\ at \in [Roles -> Places]
      /\ IsFiniteSet(open) /\ Cardinality(open) \in Nat
      /\ Nothing \in Windows
      /\ \A s \in Streams : written[c][s] \in Nat
  BY OpenType, WindowTypes
  DEF WorkerTypeOK, LifeTypeOK, RecorderTypeOK, ControllerTypeOK, Roles
<1>1. at[c] = "spin" /\ at'[c] \in {"checks", "finish"}
  BY <1>0 DEF ControllerSpins, OnAdmission, Begin, TakeError, TakeFault,
     TakeNone, TakeCommand, TickController, ControllerRefused, Cut, Spins,
     Exhausts, Goes
<1>2. Cardinality(open) <= PendingRoom /\ \A s \in Streams : written[c][s] = 0
  BY <1>1 DEF ControllerRoom, Fresh, Empty
<1>3. ASSUME NEW n \in Windows, Admitted(c, Cardinality(open), n) \/ Append(c, n)
      PROVE  \A s \in Streams : written'[c][s] \in Nat /\ written'[c][s] <= n[s]
  BY <1>0, <1>2, <1>3, AdmittedBound, AppendBound DEF Windows
<1>4. \A s \in Streams : Nothing[s] = 0
  BY WindowValues
<1>5. ASSUME NEW m \in Ids, NEW accepted \in BOOLEAN, OnAdmission(m, accepted)
      PROVE  ControllerRoom'
  <2>1. PICK moved \in BOOLEAN :
          Append(c, With(Some({"admission", "cycle"}),
                         IF moved THEN Transition ELSE Nothing))
    BY <1>5 DEF OnAdmission
  <2>2. \A s \in Streams :
          /\ written'[c][s] \in Nat
          /\ written'[c][s] <= One(s \in {"admission", "cycle"})
                               + One(s = "transition")
    <3> DEFINE n == With(Some({"admission", "cycle"}),
                         IF moved THEN Transition ELSE Nothing)
    <3>1. n \in Windows /\ Append(c, n)
      BY <2>1, WindowTypes, TransitionType
    <3>2. \A s \in Streams : n[s] <= One(s \in {"admission", "cycle"})
                                     + One(s = "transition")
      BY WindowValues DEF One
    <3>3. \A s \in Streams : n[s] \in Nat
      BY <3>1 DEF Windows
    <3> HIDE DEF n
    <3> QED  BY <1>3, <3>1, <3>2, <3>3 DEF One
  <2>3. open' = open \ {m} /\ m \in open /\ calculating' = calculating
    BY <1>5 DEF OnAdmission, Remaining
  <2>4. Cardinality(open)' = Cardinality(open) - 1 /\ Cardinality(open)' \in Nat
    <3>1. Cardinality(open') = Cardinality(open) - 1
      BY <1>0, <2>3, FS_RemoveElement
    <3>2. IsFiniteSet(open') /\ Cardinality(open') \in Nat
      BY <1>0, <2>3, FS_RemoveElement, FS_CardinalityType
    <3> QED  BY <3>1, <3>2
  <2>5. written'[c]["cycle"] + ControllerRest("cycle")' <= Reserve(c, "cycle")
    <3>1. written'[c]["cycle"] \in Nat /\ written'[c]["cycle"] <= 1
      BY <2>2 DEF Streams, One
    <3>2. ControllerRest("cycle")' <= Cardinality(open) - 1 + 1
          /\ ControllerRest("cycle")' \in Int
      BY <1>0, <1>1, <2>3, <2>4 DEF ControllerRest, One
    <3>3. Reserve(c, "cycle") = 1 + PendingRoom
      BY DEF Reserve
    <3> QED  BY <1>0, <1>2, <3>1, <3>2, <3>3
  <2>6. \A s \in Streams : s # "cycle" =>
          written'[c][s] + ControllerRest(s)' <= Reserve(c, s)
    BY <1>1, <2>2, <2>3 DEF ControllerRest, One, Reserve
  <2> QED  BY <1>1, <2>5, <2>6 DEF ControllerRoom, Fresh
<1>6. CASE Begin \/ TickController \/ ControllerRefused
  <2>1. \A s \in Streams : written'[c][s] = 0
    <3>1. CASE Begin \/ TickController
      BY <1>0, <1>3, <1>4, <3>1 DEF Begin, TickController
    <3>2. CASE ControllerRefused
      BY <1>0, <1>2, <3>2, RefusedBound DEF ControllerRefused
    <3> QED  BY <1>6, <3>1, <3>2
  <2>2. Cardinality(open)' <= PendingRoom
    <3>1. open' \subseteq open
      BY <1>6 DEF Begin, TickController, ControllerRefused, nodeVars,
         controllerVars
    <3>2. Cardinality(open') <= Cardinality(open) /\ Cardinality(open') \in Nat
      BY <1>0, <3>1, FS_Subset, FS_CardinalityType
    <3> QED  BY <1>0, <1>2, <3>2
  <2> QED  BY <2>1, <2>2, RoomWhenEmpty DEF Empty
<1>7. ASSUME NEW S, NEW n \in Windows, n = Nothing \/ n = Transition,
             Admitted(c, Cardinality(open), With(Some(S), n))
      PROVE  \A s \in Streams :
               /\ written'[c][s] \in Nat
               /\ written'[c][s] <= One(s \in S) + One(s = "transition")
  <2>1. With(Some(S), n) \in Windows
    BY WindowTypes
  <2>2. \A s \in Streams : With(Some(S), n)[s] <= One(s \in S) + One(s = "transition")
    BY <1>7, WindowValues DEF One
  <2>3. \A s \in Streams : With(Some(S), n)[s] \in Nat
    BY <2>1 DEF Windows
  <2> QED  BY <1>3, <1>7, <2>1, <2>2, <2>3 DEF One
<1>8. CASE TakeError
  <2>1. PICK failure \in BOOLEAN, moved \in BOOLEAN :
          Admitted(c, Cardinality(open),
                   With(Some({"cycle"} \cup IF failure THEN {"failure"} ELSE {}),
                        IF moved THEN Transition ELSE Nothing))
    BY <1>8 DEF TakeError, TakesUp
  <2> DEFINE S == {"cycle"} \cup IF failure THEN {"failure"} ELSE {}
  <2>2. \A s \in Streams :
          /\ written'[c][s] \in Nat
          /\ written'[c][s] <= One(s \in {"cycle", "failure"})
                               + One(s = "transition")
    <3>1. \A s \in Streams :
            /\ written'[c][s] \in Nat
            /\ written'[c][s] <= One(s \in S) + One(s = "transition")
      <4> HIDE DEF S
      <4> QED  BY <1>0, <1>7, <2>1, TransitionType DEF S
    <3>2. \A s \in Streams : One(s \in S) <= One(s \in {"cycle", "failure"})
      BY DEF One
    <3> QED  BY <3>1, <3>2 DEF One
  <2>3. open' = open /\ calculating' = FALSE
    BY <1>8 DEF TakeError, TakesUp
  <2> QED  BY <1>0, <1>1, <1>2, <2>2, <2>3
           DEF ControllerRoom, Fresh, ControllerRest, One, Reserve
<1>9. CASE TakeFault
  <2>1. \A s \in Streams :
          /\ written'[c][s] \in Nat
          /\ written'[c][s] <= One(s \in {"candidate", "cycle"})
                               + One(s = "transition")
    BY <1>7, <1>9, TransitionType DEF TakeFault, TakesUp
  <2>2. open' = open /\ calculating' = FALSE
    BY <1>9 DEF TakeFault, TakesUp
  <2> QED  BY <1>0, <1>1, <1>2, <2>1, <2>2
           DEF ControllerRoom, Fresh, ControllerRest, One, Reserve
<1>10. CASE TakeNone
  <2>1. \A s \in Streams :
          /\ written'[c][s] \in Nat
          /\ written'[c][s] <= One(s \in {"candidate", "rejection", "cycle"})
                               + One(s = "transition")
    <3>1. PICK moved \in BOOLEAN :
            Admitted(c, Cardinality(open),
                     With(Some({"candidate", "rejection", "cycle"}),
                          IF moved THEN Transition ELSE Nothing))
      BY <1>10 DEF TakeNone, TakesUp
    <3> QED  BY <1>0, <1>7, <3>1, TransitionType
  <2>2. open' = open /\ calculating' = FALSE
    BY <1>10 DEF TakeNone, TakesUp
  <2> QED  BY <1>0, <1>1, <1>2, <2>1, <2>2
           DEF ControllerRoom, Fresh, ControllerRest, One, Reserve
<1>11. ASSUME NEW completes \in BOOLEAN, TakeCommand(completes)
       PROVE  ControllerRoom'
  <2>1. \A s \in Streams :
          /\ written'[c][s] \in Nat
          /\ written'[c][s] <= One(s \in {"candidate", "command"})
                               + One(s = "transition")
    <3>1. PICK moved \in BOOLEAN :
            Admitted(c, Cardinality(open),
                     With(Some({"candidate", "command"}),
                          IF moved THEN Transition ELSE Nothing))
      BY <1>11 DEF TakeCommand, TakesUp
    <3> QED  BY <1>0, <1>7, <3>1, TransitionType
  <2>2. open' = open \cup {sequence'} /\ calculating' = FALSE
    BY <1>11 DEF TakeCommand, TakesUp
  <2>3. /\ Cardinality(open)' <= Cardinality(open) + 1
        /\ Cardinality(open)' \in Nat
    <3>1. Cardinality(open') \in {Cardinality(open), Cardinality(open) + 1}
      BY <1>0, <2>2, FS_AddElement
    <3> QED  BY <1>0, <3>1
  <2>4. written'[c]["cycle"] + ControllerRest("cycle")' <= Reserve(c, "cycle")
    <3>1. written'[c]["cycle"] \in Nat /\ written'[c]["cycle"] <= 0
      BY <2>1 DEF Streams, One
    <3>2. ControllerRest("cycle")' <= Cardinality(open) + 1
          /\ ControllerRest("cycle")' \in Int
      BY <1>0, <1>1, <2>2, <2>3 DEF ControllerRest, One
    <3>3. Reserve(c, "cycle") = 1 + PendingRoom
      BY DEF Reserve
    <3> QED  BY <1>0, <1>2, <3>1, <3>2, <3>3
  <2>5. \A s \in Streams : s # "cycle" =>
          written'[c][s] + ControllerRest(s)' <= Reserve(c, s)
    BY <1>1, <2>1, <2>2 DEF ControllerRest, One, Reserve
  <2> QED  BY <1>1, <2>4, <2>5 DEF ControllerRoom, Fresh
<1>12. CASE Cut
  <2>1. PICK moved \in BOOLEAN :
          \/ /\ TakesUp(IF moved THEN Transition ELSE Nothing)
             /\ open' = open
          \/ /\ Append(c, IF moved THEN Transition ELSE Nothing)
             /\ open' \subseteq open
             /\ calculating' = calculating
    BY <1>12 DEF Cut
  <2>2. /\ Cardinality(open)' <= Cardinality(open)
        /\ Cardinality(open)' \in Nat
    <3>1. open' \subseteq open
      BY <2>1
    <3>2. Cardinality(open') <= Cardinality(open) /\ Cardinality(open') \in Nat
      BY <1>0, <3>1, FS_Subset, FS_CardinalityType
    <3> QED  BY <3>2
  <2>3. \A s \in Streams :
          written'[c][s] \in Nat /\ written'[c][s] <= One(s = "transition")
    <3> DEFINE n == IF moved THEN Transition ELSE Nothing
    <3>1. n \in Windows /\ (Admitted(c, Cardinality(open), n) \/ Append(c, n))
      BY <1>0, <2>1, TransitionType DEF TakesUp
    <3>2. \A s \in Streams : n[s] \in Nat /\ n[s] <= One(s = "transition")
      BY WindowValues DEF One
    <3> HIDE DEF n
    <3> QED  BY <1>3, <3>1, <3>2 DEF One
  <2> QED  BY <1>0, <1>1, <1>2, <2>2, <2>3
           DEF ControllerRoom, Fresh, ControllerRest, One, Reserve
<1> QED  BY <1>5, <1>6, <1>8, <1>9, <1>10, <1>11, <1>12 DEF ControllerSpins

\* What finish_recording appends is what was still to come.
LEMMA RoomFinish ==
  ASSUME WorkerTypeOK, WorkerTypeOK', ControllerRoom,
         at["controller"] = "finish", at'["controller"] = "terminal",
         FinishController
  PROVE  ControllerRoom'
<1> DEFINE c == "controller"
<1>0. /\ RecorderTypeOK /\ c \in Roles
      /\ IsFiniteSet(open) /\ Cardinality(open) \in Nat
      /\ Nothing \in Windows
      /\ \A s \in Streams : written[c][s] \in Nat
  BY OpenType, WindowTypes
  DEF WorkerTypeOK, RecorderTypeOK, ControllerTypeOK, Roles
<1>1. PICK found \in IF calculating THEN {"error", "candidate"} ELSE {"none"},
           failure \in BOOLEAN, moved \in BOOLEAN :
           FinishControllerWith(found, failure, moved)
  BY DEF FinishController
<1> DEFINE cycles == [Nothing EXCEPT !["cycle"] = Cardinality(open)]
           last == IF reason[c] # "none" \/ found = "error" THEN Transition
                   ELSE Nothing
           outcomes == Some(Outcome(found, failure, moved))
           n == With(With(outcomes, cycles), last)
<1>2. Append(c, n)
  BY <1>1 DEF FinishControllerWith
<1>3. /\ cycles \in Windows /\ outcomes \in Windows /\ last \in Windows
      /\ n \in Windows
  <2>1. cycles \in Windows
    BY <1>0 DEF Nothing, Windows, Streams
  <2> HIDE DEF cycles
  <2>2. outcomes \in Windows /\ last \in Windows
    BY WindowTypes, TransitionType
  <2> HIDE DEF outcomes, last
  <2> QED  BY <2>1, <2>2, WindowTypes
<1>4. \A s \in Streams :
        /\ cycles[s] = IF s = "cycle" THEN Cardinality(open) ELSE 0
        /\ last[s] <= One(s = "transition")
        /\ n[s] = outcomes[s] + cycles[s] + last[s]
  <2>1. \A s \in Streams : cycles[s] = IF s = "cycle" THEN Cardinality(open) ELSE 0
    BY DEF Nothing
  <2>2. \A s \in Streams : last[s] <= One(s = "transition")
    BY WindowValues DEF One
  <2> HIDE DEF cycles, last, outcomes
  <2>3. \A s \in Streams : n[s] = outcomes[s] + cycles[s] + last[s]
    BY WindowValues
  <2> QED  BY <2>1, <2>2, <2>3
<1>5. \A s \in Streams :
        outcomes[s] <= IF s \in {"cycle", "candidate", "rejection", "failure"}
                       THEN One(calculating)
                       ELSE One(s = "transition")
  BY WindowValues DEF Outcome, One
<1>6. \A s \in Streams : outcomes[s] \in Nat /\ cycles[s] \in Nat /\ last[s] \in Nat
  BY <1>3 DEF Windows
<1> HIDE DEF cycles, last, outcomes
<1>7. \A s \in Streams :
        /\ written'[c][s] \in Nat
        /\ written'[c][s] <= written[c][s] + n[s]
  BY <1>0, <1>2, <1>3, AppendBound
<1> HIDE DEF n
<1>8. \A s \in Streams :
        written[c][s] + ControllerRest(s) <= Reserve(c, s)
  BY DEF ControllerRoom
<1>9. \A s \in Streams : n[s] + ControllerRest(s)' <= ControllerRest(s)
  <2>1. \A s \in Streams : ControllerRest(s)' = One(s \in {"transition", "event"})
    BY <1>1 DEF ControllerRest, Appending, InTry, One, FinishControllerWith
  <2>2. n["cycle"] <= One(calculating) + Cardinality(open)
    BY <1>0, <1>4, <1>5, <1>6 DEF Streams, One
  <2>3. \A s \in Streams : s # "cycle" =>
          n[s] <= IF s \in {"candidate", "rejection", "failure"}
                  THEN One(calculating)
                  ELSE One(s = "transition") + One(s = "transition")
    BY <1>4, <1>5, <1>6 DEF One
  <2>4. \A s \in Streams :
          ControllerRest(s) = IF s = "cycle" THEN Cardinality(open) + One(calculating)
                              ELSE IF s \in {"candidate", "rejection", "failure"}
                              THEN One(calculating)
                              ELSE IF s = "transition" THEN 3
                              ELSE One(s = "event")
    BY DEF ControllerRest, Appending
  <2>5. n["cycle"] \in Nat /\ \A s \in Streams : n[s] \in Nat
    BY <1>4, <1>6 DEF Streams
  <2>6. ASSUME NEW s \in Streams, s # "cycle"
        PROVE  n[s] + ControllerRest(s)' <= ControllerRest(s)
    BY <2>1, <2>3, <2>4, <2>5, <2>6 DEF One
  <2>7. n["cycle"] + ControllerRest("cycle")' <= ControllerRest("cycle")
    BY <1>0, <2>1, <2>2, <2>4, <2>5 DEF One, Streams
  <2> QED  BY <2>6, <2>7
<1>10. \A s \in Streams :
         /\ n[s] \in Nat /\ ControllerRest(s) \in Nat /\ ControllerRest(s)' \in Nat
         /\ Reserve(c, s) \in Nat
  <2>1. \A s \in Streams : ControllerRest(s) \in Nat /\ Reserve(c, s) \in Nat
    BY <1>0 DEF ControllerRest, One, Reserve
  <2>2. \A s \in Streams : ControllerRest(s)' \in Nat
    BY DEF ControllerRest, One, Appending, InTry
  <2>3. \A s \in Streams : n[s] \in Nat
    BY <1>4, <1>6
  <2> QED  BY <2>1, <2>2, <2>3
<1>11. \A s \in Streams :
         written'[c][s] + ControllerRest(s)' <= Reserve(c, s)
  BY <1>0, <1>7, <1>8, <1>9, <1>10
<1> QED  BY <1>11 DEF ControllerRoom, Fresh

\* The rest of a controller's life.
LEMMA RoomLives ==
  ASSUME WorkerTypeOK, WorkerTypeOK', Ledger, ControllerRoom,
         Lives("controller")
  PROVE  ControllerRoom'
<1> DEFINE c == "controller"
<1>0. /\ RecorderTypeOK /\ c \in Roles /\ at \in [Roles -> Places]
      /\ Cardinality(open) \in Nat
      /\ Nothing \in Windows
      /\ \A s \in Streams : Nothing[s] = 0
      /\ \A s \in Streams : written[c][s] \in Nat
  BY OpenType, WindowTypes, WindowValues
  DEF WorkerTypeOK, LifeTypeOK, RecorderTypeOK, ControllerTypeOK, Roles
<1>1. ASSUME NEW pending, Admitted(c, pending, Nothing)
      PROVE  Empty(c)' /\ pending <= PendingRoom
  BY <1>0, <1>1, AdmittedBound DEF Empty
<1>2. at[c] = "starting" => open = {} /\ Cardinality(open) = 0
  BY FS_EmptySet DEF Ledger
<1>3. CASE StartFails(c)
  BY <1>0, <1>3, RoomDies DEF StartFails
<1>4. CASE Build(c) \/ Report(c) \/ Loop(c)
  <2>1. Empty(c)'
    BY <1>1, <1>4 DEF Build, Report, Loop
  <2>2. Cardinality(open)' <= PendingRoom
    <3>1. open' = open
      BY <1>4 DEF Build, Report, Loop, nodeVars, controllerVars
    <3>2. Cardinality(open) <= PendingRoom
      <4>1. CASE Build(c)
        BY <1>2, <4>1 DEF Build, Goes
      <4>2. CASE Report(c)
        BY <4>2, FS_EmptySet DEF Report, Holding
      <4>3. CASE Loop(c)
        BY <1>1, <4>3 DEF Loop, Pending
      <4> QED  BY <1>4, <4>1, <4>2, <4>3
    <3> QED  BY <3>1, <3>2
  <2> QED  BY <2>1, <2>2, RoomWhenEmpty
<1>5. CASE NodeFails(c) \/ Idle(c) \/ Fail(c)
  <2>1. Empty(c)'
    BY <1>5 DEF NodeFails, Idle, Fail, Goes, ControllerRoom, Fresh, Empty,
       recorderVars
  <2>2. Cardinality(open)' <= PendingRoom
    <3>1. open' = open
      BY <1>5 DEF NodeFails, Idle, Fail, nodeVars, controllerVars
    <3>2. Cardinality(open) <= PendingRoom
      BY <1>2, <1>5 DEF NodeFails, Idle, Fail, Goes, ControllerRoom
    <3> QED  BY <3>1, <3>2
  <2> QED  BY <2>1, <2>2, RoomWhenEmpty
<1>6. CASE CheckRefused(c)
  <2>1. UNCHANGED <<open, calculating>>
    BY <1>6 DEF CheckRefused, nodeVars, controllerVars
  <2>2. at'[c] = "finish" /\ at[c] \in {"starting", "checks"}
    BY <1>0, <1>6 DEF CheckRefused, Exhausts, Goes
  <2>3. \E pending : Refused(c, pending)
    BY <1>6 DEF CheckRefused
  <2>4. \A s \in Streams :
          written'[c][s] \in Nat /\ written'[c][s] <= written[c][s]
    BY <1>0, <2>3, RefusedBound
  <2>5. CASE at[c] = "checks"
    BY <2>1, <2>2, <2>4, <2>5, RoomShrinks DEF Appending, InTry
  <2>6. CASE at[c] = "starting"
    <3>1. Empty(c)'
      BY <1>0, <2>4, <2>6 DEF ControllerRoom, Fresh, Empty
    <3>2. Cardinality(open)' <= PendingRoom
      BY <1>2, <2>1, <2>6
    <3> QED  BY <3>1, <3>2, RoomWhenEmpty
  <2> QED  BY <2>2, <2>5, <2>6
<1> QED  BY <1>3, <1>4, <1>5, <1>6 DEF Lives

LEMMA RoomEnds ==
  ASSUME WorkerTypeOK, WorkerTypeOK', ControllerRoom,
         Ends("controller") \/ Interrupt("controller")
  PROVE  ControllerRoom'
<1> DEFINE c == "controller"
<1>0. /\ RecorderTypeOK /\ c \in Roles /\ at \in [Roles -> Places]
      /\ Nothing \in Windows
      /\ \A s \in Streams : written[c][s] \in Nat
      /\ Cardinality(open) \in Nat
  BY WindowTypes, OpenType
  DEF WorkerTypeOK, LifeTypeOK, RecorderTypeOK, ControllerTypeOK, Roles
<1>1. CASE Close(c)
  BY <1>0, <1>1, RoomDies DEF Close
<1>2. CASE Finish(c)
  <2>1. at[c] = "finish" /\ at'[c] = "terminal"
    BY <1>0, <1>2 DEF Finish, Goes
  <2>2. CASE c \notin ready
    <3>1. written' = written /\ UNCHANGED <<open, calculating>>
      BY <1>2, <2>2 DEF Finish, nodeVars, controllerVars
    <3> QED  BY <1>0, <2>1, <3>1, RoomShrinks DEF Appending
  <2>3. CASE c \in ready
    BY <1>2, <2>1, <2>3, RoomFinish DEF Finish
  <2> QED  BY <2>2, <2>3
<1>3. CASE Terminal(c)
  <2>1. at'[c] = "close"
    BY <1>0, <1>3 DEF Terminal, Goes
  <2>2. Admitted(c, 0, Some({"event"})) /\ Some({"event"}) \in Windows
    BY <1>3, WindowTypes DEF Terminal
  <2>3. \A s \in Streams :
          written'[c][s] \in Nat /\ written'[c][s] <= One(s \in {"event"})
    BY <1>0, <2>2, AdmittedBound, WindowValues
  <2> QED  BY <2>1, <2>3
           DEF ControllerRoom, Fresh, ControllerRest, Reserve, One, Appending, InTry
<1>4. CASE ExhaustedTerminal(c)
  <2>1. at[c] = "terminal" /\ at'[c] = "close"
    BY <1>0, <1>4 DEF ExhaustedTerminal, Goes
  <2> DEFINE rest(s) == IF s = "transition" THEN 1 + One(calculating)
                        ELSE One(s = "event")
  <2>2. PICK n \in Windows :
          /\ Append(c, n)
          /\ \A s \in Streams : n[s] <= rest(s)
    <3>1. CASE c \in ready
      <4>1. PICK moved \in BOOLEAN :
              /\ moved => calculating
              /\ Append(c, With(With(Some({"event"}), Transition),
                                IF moved THEN Transition ELSE Nothing))
        BY <1>4, <3>1 DEF ExhaustedTerminal
      <4> DEFINE first == With(Some({"event"}), Transition)
                 second == IF moved THEN Transition ELSE Nothing
      <4>2. first \in Windows /\ second \in Windows
        BY <1>0, WindowTypes, TransitionType
      <4>3. \A s \in Streams :
              /\ first[s] <= One(s \in {"transition", "event"})
              /\ second[s] <= IF s = "transition" THEN One(calculating) ELSE 0
        BY <4>1, WindowValues DEF One
      <4> HIDE DEF first, second
      <4>4. With(first, second) \in Windows
        BY <4>2, WindowTypes
      <4>5. \A s \in Streams : first[s] \in Nat /\ second[s] \in Nat
        BY <4>2 DEF Windows
      <4>6. \A s \in Streams : With(first, second)[s] <= rest(s)
        BY <4>3, <4>5, WindowValues DEF One
      <4> QED  BY <4>1, <4>4, <4>6 DEF first, second
    <3>2. CASE c \notin ready
      <4>1. Append(c, Some({"event"})) /\ Some({"event"}) \in Windows
        BY <1>4, <3>2, WindowTypes DEF ExhaustedTerminal
      <4>2. \A s \in Streams : Some({"event"})[s] <= rest(s)
        BY WindowValues DEF One
      <4> QED  BY <4>1, <4>2
    <3> QED  BY <3>1, <3>2
  <2>3. \A s \in Streams :
          /\ written'[c][s] \in Nat /\ n[s] \in Nat
          /\ written'[c][s] <= written[c][s] + n[s]
    BY <1>0, <2>2, AppendBound DEF Windows
  <2>4. \A s \in Streams :
          written[c][s] + rest(s) <= Reserve(c, s)
    BY <2>1 DEF ControllerRoom, ControllerRest, Appending, InTry
  <2>5. \A s \in Streams : written'[c][s] <= Reserve(c, s)
    BY <1>0, <2>2, <2>3, <2>4 DEF One, Reserve
  <2> QED  BY <2>1, <2>3, <2>5
           DEF ControllerRoom, Fresh, ControllerRest, Appending, InTry
<1>5. CASE Interrupt(c)
  <2>1. CASE at[c] = "starting"
    BY <1>0, <1>5, <2>1, RoomDies DEF Interrupt, InTry
  <2>2. CASE at[c] # "starting"
    <3>1. written' = written /\ UNCHANGED <<open, calculating>>
      BY <1>5, <2>2 DEF Interrupt, recorderVars, nodeVars, controllerVars
    <3>2. \/ at[c] \in InTry /\ at'[c] = "finish"
          \/ at[c] = "finish" /\ at'[c] = "terminal"
          \/ at[c] \in {"terminal", "close"} /\ at'[c] = "close"
      BY <1>0, <1>5, <2>2 DEF Interrupt
    <3>3. \A s \in Streams : written'[c][s] \in Nat /\ written'[c][s] <= written[c][s]
      BY <1>0, <3>1
    <3>4. \/ at[c] \in Appending
          \/ at[c] \in {"terminal", "close"} /\ at'[c] \in {"terminal", "close"}
             /\ (at'[c] = "terminal" => at[c] = "terminal")
      BY <3>2 DEF Appending
    <3>5. at'[c] \in (Appending \cup {"terminal", "close"}) \ {"spin"}
      BY <3>2 DEF Appending
    <3> QED  BY <3>1, <3>3, <3>4, <3>5, RoomShrinks
  <2> QED  BY <2>1, <2>2
<1> QED  BY <1>1, <1>2, <1>3, <1>4, <1>5 DEF Ends

(* The plant *)

LEMMA PlantSpinsRoom ==
  ASSUME WorkerTypeOK, PlantRoom, PlantSpins
  PROVE  PlantRoom'
<1> DEFINE p == "plant"
<1>0. /\ RecorderTypeOK /\ p \in Roles /\ at \in [Roles -> Places]
      /\ Nothing \in Windows
      /\ \A s \in Streams : written[p][s] \in Nat
  BY WindowTypes DEF WorkerTypeOK, LifeTypeOK, RecorderTypeOK, Roles
<1> USE DEF Spins, Goes, Exhausts
<1>1. ASSUME NEW S, Admitted(p, 0, Some(S))
      PROVE  \A s \in Streams :
               written'[p][s] \in Nat /\ written'[p][s] <= One(s \in S)
  BY <1>0, <1>1, AdmittedBound, WindowTypes, WindowValues
<1>2. ASSUME NEW m \in Ids, OnCommand(m)
      PROVE  PlantRoom'
  <2>1. at[p] = "spin" /\ at'[p] = "received" /\ checking' = checking
    BY <1>0, <1>2 DEF OnCommand
  <2>2. \A s \in Streams :
          written'[p][s] \in Nat /\ written'[p][s] <= One(s \in {"received_command"})
    BY <1>1, <1>2 DEF OnCommand
  <2> QED  BY <2>1, <2>2
           DEF PlantRoom, Fresh, PlantRest, Reserve, One, Appending, InTry
<1>3. CASE AnswerAtOnce
  <2>1. at[p] = "received" /\ at'[p] = "checks" /\ checking' = checking
    BY <1>0, <1>3 DEF AnswerAtOnce
  <2>2. \A s \in Streams :
          /\ written'[p][s] \in Nat
          /\ written'[p][s] <= written[p][s] + One(s \in {"admission"})
    BY <1>0, <1>3, AppendBound, WindowTypes, WindowValues DEF AnswerAtOnce
  <2>3. \A s \in Streams :
          One(s \in {"admission"}) + PlantRest(s)' <= PlantRest(s)
          /\ PlantRest(s) \in Nat /\ PlantRest(s)' \in Nat
          /\ One(s \in {"admission"}) \in Nat /\ Reserve(p, s) \in Nat
    BY <2>1 DEF PlantRest, One, Appending, InTry, Reserve
  <2>4. \A s \in Streams : written'[p][s] + PlantRest(s)' <= Reserve(p, s)
    BY <1>0, <2>2, <2>3 DEF PlantRoom
  <2> QED  BY <2>1, <2>4 DEF PlantRoom, Fresh
<1>4. CASE Submit
  <2>1. /\ at[p] = "received" /\ at'[p] = "checks" /\ checking = 0
        /\ written' = written
    BY <1>0, <1>4 DEF Submit, Busy, recorderVars
  <2>2. \A s \in Streams :
          PlantRest(s)' <= PlantRest(s)
          /\ PlantRest(s) \in Nat /\ PlantRest(s)' \in Nat /\ Reserve(p, s) \in Nat
    BY <2>1 DEF PlantRest, One, Appending, InTry, Reserve
  <2>3. \A s \in Streams : written'[p][s] + PlantRest(s)' <= Reserve(p, s)
    BY <1>0, <2>1, <2>2 DEF PlantRoom
  <2> QED  BY <2>1, <2>3 DEF PlantRoom, Fresh
<1>5. ASSUME NEW delayed \in BOOLEAN, Tick(delayed) \/ ClearAndFeed(delayed)
      PROVE  PlantRoom'
  <2>1. at'[p] = "checks"
    BY <1>0, <1>5 DEF Tick, ClearAndFeed, Feed
  <2>2. Admitted(p, 0, Some({"feedback"} \cup
                            IF delayed THEN {"recording_delay"} ELSE {}))
    BY <1>5 DEF Tick, ClearAndFeed, Feed
  <2>3. \A s \in Streams :
          /\ written'[p][s] \in Nat
          /\ written'[p][s] <= One(s \in {"feedback", "recording_delay"})
    BY <1>1, <2>2 DEF One
  <2> QED  BY <2>1, <2>3
           DEF PlantRoom, Fresh, PlantRest, Reserve, One, Appending, InTry
<1>6. CASE (\E m \in Ids : OnCommandRefused(m)) \/ TickRefused \/ ClearAndRefuse
  <2>1. /\ at[p] \in {"spin", "answered"} /\ at'[p] = "finish"
        /\ checking' \in {checking, 0}
        /\ Refused(p, 0)
    BY <1>0, <1>6 DEF OnCommandRefused, TickRefused, ClearAndRefuse, nodeVars,
       plantVars
  <2>2. \A s \in Streams :
          written'[p][s] \in Nat /\ written'[p][s] <= written[p][s]
    BY <1>0, <2>1, RefusedBound
  <2>3. \A s \in Streams :
          PlantRest(s)' <= PlantRest(s)
          /\ PlantRest(s) \in Nat /\ PlantRest(s)' \in Nat /\ Reserve(p, s) \in Nat
    BY <2>1 DEF PlantRest, One, Appending, InTry, Reserve
  <2>4. \A s \in Streams : written'[p][s] + PlantRest(s)' <= Reserve(p, s)
    BY <1>0, <2>2, <2>3 DEF PlantRoom
  <2> QED  BY <2>1, <2>4 DEF PlantRoom, Fresh
<1>7. ASSUME NEW accepted \in BOOLEAN, TakeCertificate(accepted)
      PROVE  PlantRoom'
  <2>1. at'[p] = "answered" /\ checking' = checking
    BY <1>0, <1>7 DEF TakeCertificate
  <2>2. \A s \in Streams :
          written'[p][s] \in Nat /\ written'[p][s] <= One(s \in {"admission"})
    BY <1>1, <1>7 DEF TakeCertificate
  <2> QED  BY <2>1, <2>2
           DEF PlantRoom, Fresh, PlantRest, Reserve, One, Appending, InTry
<1> QED  BY <1>2, <1>3, <1>4, <1>5, <1>6, <1>7 DEF PlantSpins

\* Nothing is appended by the plant, and it is no farther from its end.
LEMMA PlantShrinks ==
  ASSUME WorkerTypeOK, PlantRoom,
         checking' \in {checking, 0},
         \A s \in Streams : written'["plant"][s] \in Nat,
         \A s \in Streams : written'["plant"][s] <= written["plant"][s],
         \/ at["plant"] \in Appending
         \/ at["plant"] \in {"terminal", "close"} /\ at'["plant"] = "close",
         at'["plant"] \in {"checks", "spin", "finish", "terminal", "close"},
         at'["plant"] = "spin" => Empty("plant")'
  PROVE  PlantRoom'
<1>1. \A s \in Streams : written["plant"][s] \in Nat
  BY DEF WorkerTypeOK, RecorderTypeOK, Roles
<1>2. \A s \in Streams :
        /\ PlantRest(s)' <= PlantRest(s)
        /\ PlantRest(s) \in Nat /\ PlantRest(s)' \in Nat
        /\ Reserve("plant", s) \in Nat
  BY DEF PlantRest, One, Appending, InTry, Reserve
<1>3. \A s \in Streams : written'["plant"][s] + PlantRest(s)' <= Reserve("plant", s)
  BY <1>1, <1>2 DEF PlantRoom
<1> QED  BY <1>3 DEF PlantRoom, Fresh

LEMMA PlantLivesRoom ==
  ASSUME WorkerTypeOK, WorkerTypeOK', PlantRoom, Lives("plant")
  PROVE  PlantRoom'
<1> DEFINE p == "plant"
<1>0. /\ RecorderTypeOK /\ p \in Roles /\ at \in [Roles -> Places]
      /\ Nothing \in Windows
      /\ \A s \in Streams : Nothing[s] = 0
      /\ \A s \in Streams : written[p][s] \in Nat
  BY WindowTypes, WindowValues
  DEF WorkerTypeOK, LifeTypeOK, RecorderTypeOK, Roles
<1>1. CASE StartFails(p)
  BY <1>0, <1>1, RoomDies DEF StartFails
<1>2. ASSUME Empty(p)', at'[p] \in {"checks", "spin", "finish"}
      PROVE  PlantRoom'
  BY <1>2 DEF PlantRoom, Fresh, Empty, PlantRest, One, Reserve
<1>3. CASE Build(p) \/ Report(p) \/ Loop(p)
  <2>1. Empty(p)'
    <3>1. \E pending : Admitted(p, pending, Nothing)
      BY <1>3 DEF Build, Report, Loop
    <3> QED  BY <1>0, <3>1, AdmittedBound DEF Empty
  <2>2. at'[p] \in {"checks", "spin", "finish"}
    BY <1>0, <1>3 DEF Build, Report, Loop, Goes
  <2> QED  BY <1>2, <2>1, <2>2
<1>4. CASE NodeFails(p) \/ Idle(p) \/ Fail(p)
  <2>1. Empty(p)'
    BY <1>4 DEF NodeFails, Idle, Fail, Goes, PlantRoom, Fresh, Empty, recorderVars
  <2>2. at'[p] \in {"checks", "spin", "finish"}
    BY <1>0, <1>4 DEF NodeFails, Idle, Fail, Goes
  <2> QED  BY <1>2, <2>1, <2>2
<1>5. CASE CheckRefused(p)
  <2>1. checking' = checking
    BY <1>5 DEF CheckRefused, nodeVars, plantVars
  <2>2. at'[p] = "finish" /\ at[p] \in {"starting", "checks"}
    BY <1>0, <1>5 DEF CheckRefused, Exhausts, Goes
  <2>3. \E pending : Refused(p, pending)
    BY <1>5 DEF CheckRefused
  <2>4. \A s \in Streams : written'[p][s] \in Nat /\ written'[p][s] <= written[p][s]
    BY <1>0, <2>3, RefusedBound
  <2>5. CASE at[p] = "checks"
    BY <2>1, <2>2, <2>4, <2>5, PlantShrinks DEF Appending, InTry
  <2>6. CASE at[p] = "starting"
    <3>1. Empty(p)'
      BY <1>0, <2>4, <2>6 DEF PlantRoom, Fresh, Empty
    <3> QED  BY <1>2, <2>2, <3>1
  <2> QED  BY <2>2, <2>5, <2>6
<1> QED  BY <1>1, <1>3, <1>4, <1>5 DEF Lives

LEMMA PlantEndsRoom ==
  ASSUME WorkerTypeOK, WorkerTypeOK', PlantRoom, Ends("plant") \/ Interrupt("plant")
  PROVE  PlantRoom'
<1> DEFINE p == "plant"
<1>0. /\ RecorderTypeOK /\ p \in Roles /\ at \in [Roles -> Places]
      /\ Nothing \in Windows
      /\ \A s \in Streams : written[p][s] \in Nat
  BY WindowTypes DEF WorkerTypeOK, LifeTypeOK, RecorderTypeOK, Roles
<1>1. CASE Close(p)
  BY <1>0, <1>1, RoomDies DEF Close
<1>2. CASE Finish(p)
  <2>1. at[p] = "finish" /\ at'[p] = "terminal"
    BY <1>0, <1>2 DEF Finish, Goes
  <2>2. CASE written' = written /\ checking' \in {checking, 0}
    BY <1>0, <2>1, <2>2, PlantShrinks DEF Appending
  <2>3. CASE p \notin ready \/ checking = 0
    BY <1>2, <2>2, <2>3 DEF Finish, FinishPlant, nodeVars, plantVars
  <2>4. CASE p \in ready /\ checking # 0
    <3>1. FinishPlant
      BY <1>2, <2>4 DEF Finish
    <3>2. Append(p, Some({"admission"})) /\ checking' = 0
      BY <2>4, <3>1 DEF FinishPlant
    <3>3. \A s \in Streams :
            /\ written'[p][s] \in Nat
            /\ written'[p][s] <= written[p][s] + One(s \in {"admission"})
      BY <1>0, <3>2, AppendBound, WindowTypes, WindowValues
    <3>4. \A s \in Streams :
            /\ One(s \in {"admission"}) + PlantRest(s)' <= PlantRest(s)
            /\ PlantRest(s) \in Nat /\ PlantRest(s)' \in Nat
            /\ One(s \in {"admission"}) \in Nat /\ Reserve(p, s) \in Nat
      BY <2>1, <2>4, <3>2 DEF PlantRest, One, Appending, InTry, Reserve
    <3>5. \A s \in Streams : written'[p][s] + PlantRest(s)' <= Reserve(p, s)
      BY <1>0, <3>3, <3>4 DEF PlantRoom
    <3> QED  BY <2>1, <3>5 DEF PlantRoom, Fresh
  <2> QED  BY <2>3, <2>4
<1>3. CASE Terminal(p)
  <2>1. at'[p] = "close"
    BY <1>0, <1>3 DEF Terminal, Goes
  <2>2. Admitted(p, 0, Some({"event"})) /\ Some({"event"}) \in Windows
    BY <1>3, WindowTypes DEF Terminal
  <2>3. \A s \in Streams :
          written'[p][s] \in Nat /\ written'[p][s] <= One(s \in {"event"})
    BY <1>0, <2>2, AdmittedBound, WindowValues
  <2> QED  BY <2>1, <2>3
           DEF PlantRoom, Fresh, PlantRest, Reserve, One, Appending, InTry
<1>4. CASE ExhaustedTerminal(p)
  <2>1. at[p] = "terminal" /\ at'[p] = "close"
    BY <1>0, <1>4 DEF ExhaustedTerminal, Goes
  <2>2. Append(p, Some({"event"})) /\ Some({"event"}) \in Windows
    BY <1>4, WindowTypes DEF ExhaustedTerminal
  <2>3. \A s \in Streams :
          /\ written'[p][s] \in Nat
          /\ written'[p][s] <= written[p][s] + One(s \in {"event"})
    BY <1>0, <2>2, AppendBound, WindowValues
  <2>4. \A s \in Streams : PlantRest(s) = One(s = "event") /\ PlantRest(s)' = 0
    BY <2>1 DEF PlantRest, Appending, InTry
  <2>5. \A s \in Streams : written'[p][s] + PlantRest(s)' <= Reserve(p, s)
    BY <1>0, <2>3, <2>4 DEF PlantRoom, One, Reserve
  <2> QED  BY <2>1, <2>5 DEF PlantRoom, Fresh
<1>5. CASE Interrupt(p)
  <2>1. CASE at[p] = "starting"
    BY <1>0, <1>5, <2>1, RoomDies DEF Interrupt, InTry
  <2>2. CASE at[p] # "starting"
    <3>1. written' = written /\ checking' = checking
      BY <1>5, <2>2 DEF Interrupt, recorderVars, nodeVars, plantVars
    <3>2. \/ at[p] \in InTry /\ at'[p] = "finish"
          \/ at[p] = "finish" /\ at'[p] = "terminal"
          \/ at[p] \in {"terminal", "close"} /\ at'[p] = "close"
      BY <1>0, <1>5, <2>2 DEF Interrupt
    <3> QED  BY <1>0, <3>1, <3>2, PlantShrinks DEF Appending
  <2> QED  BY <2>1, <2>2
<1> QED  BY <1>1, <1>2, <1>3, <1>4, <1>5 DEF Ends

(* Both *)

\* A step that concerns the other worker, or none.
LEMMA ControllerRoomStays ==
  ASSUME ControllerRoom, UNCHANGED <<open, calculating>>,
         \/ at'["controller"] = at["controller"]
         \/ at["controller"] = "none" /\ at'["controller"] = "starting",
         written'["controller"] = written["controller"]
  PROVE  ControllerRoom'
<1>1. CASE at'["controller"] = at["controller"]
  BY <1>1 DEF ControllerRoom, Fresh, Empty, ControllerRest, One, Reserve
<1>2. CASE at["controller"] = "none" /\ at'["controller"] = "starting"
  BY <1>2 DEF ControllerRoom, Fresh, Empty, ControllerRest, One, Reserve,
     Appending, InTry
<1> QED  BY <1>1, <1>2

LEMMA PlantRoomStays ==
  ASSUME PlantRoom, checking' = checking,
         \/ at'["plant"] = at["plant"]
         \/ at["plant"] = "none" /\ at'["plant"] = "starting",
         written'["plant"] = written["plant"]
  PROVE  PlantRoom'
<1>1. CASE at'["plant"] = at["plant"]
  BY <1>1 DEF PlantRoom, Fresh, Empty, PlantRest, One, Reserve
<1>2. CASE at["plant"] = "none" /\ at'["plant"] = "starting"
  BY <1>2 DEF PlantRoom, Fresh, Empty, PlantRest, One, Reserve, Appending, InTry
<1> QED  BY <1>1, <1>2

\* The controller's steps leave the plant's window, and the other way round.
OthersWindow(r, q) ==
  /\ at'[q] = at[q]
  /\ written'[q] = written[q]
  /\ r = "controller" => checking' = checking
  /\ r = "plant" => UNCHANGED <<open, calculating>>

LEMMA OthersStay ==
  ASSUME WorkerTypeOK, NEW r \in Roles, NEW q \in Roles, q # r,
         Working(r) \/ (r = "controller" /\ ControllerSpins)
         \/ (r = "plant" /\ PlantSpins)
  PROVE  OthersWindow(r, q)
<1>0. at \in [Roles -> Places] /\ written \in [Roles -> [Streams -> Nat]]
      /\ r \in {"controller", "plant"}
  BY DEF WorkerTypeOK, LifeTypeOK, RecorderTypeOK, Roles
<1> USE DEF Working, Lives, Build, StartFails, NodeFails, Report, Loop, Idle,
            CheckRefused, Exhausts, Fail, Ends, Finish, Terminal,
            ExhaustedTerminal, Close, Interrupt, Dies, ControllerSpins,
            OnAdmission, Begin, TakeError, TakeFault, TakeNone, TakeCommand,
            TickController, ControllerRefused, Cut, PlantSpins, OnCommand,
            OnCommandRefused, AnswerAtOnce, Submit, Tick, ClearAndFeed, Feed,
            TickRefused, ClearAndRefuse, TakeCertificate, Spins, Goes
<1>1. at'[q] = at[q]
  <2>1. \E to : at' = [at EXCEPT ![r] = to]
    OBVIOUS
  <2> QED  BY <1>0, <2>1
<1>2. written'[q] = written[q]
  <2>0. written' = written => \E w : written' = [written EXCEPT ![r] = w]
    BY <1>0
  <2>1. \E w : written' = [written EXCEPT ![r] = w]
    <3> USE DEF Admitted, Refused, Append, recorderVars
    <3>1. CASE Lives(r)
      BY <1>0, <2>0, <3>1
    <3>2. CASE Ends(r)
      BY <1>0, <2>0, <3>2 DEF FinishController, FinishControllerWith, FinishPlant
    <3>3. CASE Interrupt(r)
      BY <1>0, <2>0, <3>3
    <3>4. CASE ControllerSpins /\ r = "controller"
      BY <1>0, <2>0, <3>4 DEF TakesUp
    <3>5. CASE PlantSpins /\ r = "plant"
      BY <1>0, <2>0, <3>5
    <3> QED  BY <3>1, <3>2, <3>3, <3>4, <3>5
  <2> QED  BY <1>0, <2>1
<1>3. r = "controller" => checking' = checking
  BY DEF nodeVars, plantVars, FinishController, FinishControllerWith
<1>4. r = "plant" => UNCHANGED <<open, calculating>>
  BY DEF nodeVars, controllerVars, FinishPlant
<1> QED  BY <1>1, <1>2, <1>3, <1>4 DEF OthersWindow

LEMMA RInvWorkers ==
  ASSUME WorkerTypeOK, WorkerTypeOK', Ledger, RInv, WorkerNext
  PROVE  RInv'
<1>0. Roles = {"controller", "plant"}
  BY DEF Roles
<1>1. CASE Working("controller") \/ ControllerSpins
  <2>1. ControllerRoom'
    BY <1>1, RoomLives, RoomEnds, RoomSpins DEF RInv, Working
  <2>2. OthersWindow("controller", "plant")
    BY <1>0, <1>1, OthersStay
  <2> QED  BY <2>1, <2>2, PlantRoomStays DEF RInv, OthersWindow
<1>2. CASE Working("plant") \/ PlantSpins
  <2>1. PlantRoom'
    BY <1>2, PlantLivesRoom, PlantEndsRoom, PlantSpinsRoom DEF RInv, Working
  <2>2. OthersWindow("plant", "controller")
    BY <1>0, <1>2, OthersStay
  <2> QED  BY <2>1, <2>2, ControllerRoomStays DEF RInv, OthersWindow
<1> QED  BY <1>0, <1>1, <1>2 DEF WorkerNext

LEMMA RInvSupervisor ==
  ASSUME SInv, RInv, SupervisorStep
  PROVE  RInv'
<1>0. /\ WorkerTypeOK /\ Unstarted
      /\ at \in [Roles -> Places] /\ written \in [Roles -> [Streams -> Nat]]
      /\ First \in Roles
      /\ Roles = {"controller", "plant"}
  BY DEF SInv, RunTypeOK, WorkerTypeOK, LifeTypeOK, RecorderTypeOK, Roles, First
<1>1. CASE Kill
  <2>1. CASE UNCHANGED workerVars
    BY <2>1, ControllerRoomStays, PlantRoomStays
    DEF RInv, workerVars, recorderVars, lifeVars, nodeVars, controllerVars,
        plantVars
  <2>2. CASE Dies(First, "killed") /\ First = "controller"
    <3>1. ControllerRoom'
      BY <1>0, <2>2, RoomDies
    <3>2. /\ at'["plant"] = at["plant"] /\ written'["plant"] = written["plant"]
          /\ checking' = checking
      BY <1>0, <2>2 DEF Dies, plantVars
    <3> QED  BY <3>1, <3>2, PlantRoomStays DEF RInv
  <2>3. CASE Dies(First, "killed") /\ First = "plant"
    <3>1. PlantRoom'
      BY <1>0, <2>3, RoomDies
    <3>2. /\ at'["controller"] = at["controller"]
          /\ written'["controller"] = written["controller"]
          /\ UNCHANGED <<open, calculating>>
      BY <1>0, <2>3 DEF Dies, controllerVars
    <3> QED  BY <3>1, <3>2, ControllerRoomStays DEF RInv
  <2> QED  BY <1>0, <1>1, <2>1, <2>2, <2>3 DEF Kill
<1>2. CASE ~Kill
  <2>1. UNCHANGED <<written, nodeVars>>
    BY <1>2 DEF SupervisorStep, SupervisorNext, TryNext, FinallyNext, Launch,
       SeesReady, Raises, StartupFails, PollAlive, LookOn, TimesOut,
       SeesExhausted, PlantLeft, ControllerEnds, ControllerFails, Settled,
       Request, Waited, SendInterrupt, WriteResult, SignalSupervisor, workerVars,
       recorderVars
  <2>2. \A r \in Roles : at'[r] = at[r] \/ (at[r] = "none" /\ at'[r] = "starting")
    BY <1>0, <1>2 DEF Unstarted, Moves, SupervisorStep, SupervisorNext, TryNext,
       FinallyNext, Launch, SeesReady, Raises, StartupFails, PollAlive, LookOn,
       TimesOut, SeesExhausted, PlantLeft, ControllerEnds, ControllerFails,
       Settled, Request, Waited, SendInterrupt, WriteResult, SignalSupervisor,
       workerVars, lifeVars
  <2> QED  BY <1>0, <2>1, <2>2, ControllerRoomStays, PlantRoomStays
           DEF RInv, nodeVars, controllerVars, plantVars
<1> QED  BY <1>1, <1>2

LEMMA RInvInit ==
  ASSUME Init
  PROVE  RInv
<1>1. \A r \in Roles : at[r] = "none" /\ Empty(r)
  BY DEF Init, WorkerInit, RecorderInit, Empty, Nothing
<1> QED  BY <1>1 DEF RInv, ControllerRoom, PlantRoom, Fresh, Empty,
   ControllerRest, PlantRest, Reserve, Appending, InTry, Roles

LEMMA RInvStep ==
  ASSUME SInv, SInv', WInv, RInv, [Next]_vars
  PROVE  RInv'
<1>1. CASE WorkerNext
  BY <1>1, RInvWorkers DEF SInv, RunTypeOK, WInv
<1>2. CASE SupervisorStep
  BY <1>2, RInvSupervisor
<1>3. CASE UNCHANGED vars
  BY <1>3, ControllerRoomStays, PlantRoomStays
  DEF RInv, vars, workerVars, recorderVars, lifeVars, nodeVars, controllerVars,
      plantVars
<1> QED  BY <1>1, <1>2, <1>3 DEF Next, SupervisorStep

\* The windows of the recorders stay within their bounds.
THEOREM RInvHolds == Spec => []RInv
BY SInvHolds, WInvHolds, RInvInit, RInvStep, PTL DEF Spec

\* The reserve that a check keeps is large enough for all that may follow it.
THEOREM ReservesSuffice == Spec => []ReserveSuffices
<1>1. SInv /\ RInv => ReserveSuffices
  <2> SUFFICES ASSUME SInv, RInv, NEW r \in Roles, NEW s \in Counted
               PROVE  written[r][s] <= Reserve(r, s)
    BY DEF ReserveSuffices
  <2>1. /\ s \in Streams /\ written[r][s] \in Nat /\ r \in {"controller", "plant"}
        /\ Cardinality(open) \in Nat
    BY OpenType DEF SInv, RunTypeOK, WorkerTypeOK, RecorderTypeOK,
       ControllerTypeOK, Roles
  <2>2. ControllerRest(s) \in Nat /\ PlantRest(s) \in Nat
    BY <2>1 DEF ControllerRest, PlantRest, One
  <2>3. Reserve(r, s) \in Nat
    BY <2>1 DEF Reserve
  <2> QED  BY <2>1, <2>2, <2>3 DEF RInv, ControllerRoom, PlantRoom
<1> QED  BY <1>1, SInvHolds, RInvHolds, PTL

(***************************************************************************)
(* The end of a run.  The supervisor's way has thirteen stretches, from    *)
(* the start of the controller to the end.  No step of anyone leads back,  *)
(* and every step of the supervisor leads on, except in its loop, which    *)
(* the deadline ends.                                                      *)
(***************************************************************************)

\* How far the supervisor is: its try block, the loop as one stretch, then two
\* stretches for each worker that _stop_processes has still to wait for.
Progress ==
  CASE sup = "launch_controller" -> 0
    [] sup = "await_controller" -> 1
    [] sup = "launch_plant" -> 2
    [] sup = "await_plant" -> 3
    [] sup \in {"poll", "look"} -> 4
    [] sup = "settle" -> 5
    [] sup = "request" -> 6
    [] sup \in {"wait", "interrupted"} ->
         (IF stopping = Roles THEN 7 ELSE IF stopping # {} THEN 9 ELSE 11)
           + (IF sup = "interrupted" THEN 1 ELSE 0)
    [] OTHER -> 13

\* A worker is interrupted only while it is waited for.
InterruptsOne == sup = "interrupted" => stopping # {}

Stretches == SInv /\ InterruptsOne

\* SendInterrupt is the only way there, Waited and Kill the ways from there.
LEMMA StretchesHold == Spec => []Stretches
<1>1. Init => InterruptsOne
  BY DEF Init, InterruptsOne
<1>2. SInv /\ InterruptsOne /\ [Next]_vars => InterruptsOne'
  BY DEF InterruptsOne, Next, vars, supervisorVars, SupervisorNext, TryNext,
     FinallyNext, Launch, SeesReady, Raises, StartupFails, PollAlive, LookOn,
     TimesOut, SeesExhausted, PlantLeft, ControllerEnds, ControllerFails, Settled,
     Request, Waited, SendInterrupt, Kill, WriteResult, SignalSupervisor, Moves,
     Supervising, Cleaning
<1> QED  BY <1>1, <1>2, SInvHolds, PTL DEF Spec, Stretches

\* First is one of the workers waited for.
LEMMA FirstIsWaitedFor ==
  ASSUME SInv, stopping # {}
  PROVE  /\ First \in stopping
         /\ stopping = Roles => stopping \ {First} # {} /\ stopping \ {First} # Roles
         /\ stopping # Roles => stopping \ {First} = {}
<1>1. stopping \subseteq {"controller", "plant"}
  BY DEF SInv, RunTypeOK, Roles
<1> QED  BY <1>1 DEF First, Roles

\* The stretches are numbered from 0, and only the end has the number 13.
LEMMA ProgressType ==
  ASSUME SInv
  PROVE  Progress \in 0 .. 13 /\ (Progress = 13 <=> sup = "ended")
<1>1. sup \in Supervising \cup Cleaning \cup {"ended"}
  BY DEF SInv, RunTypeOK
<1> QED  BY <1>1 DEF Progress, Supervising, Cleaning

\* Every step of the supervisor leads on, or stays in the loop.
LEMMA SupervisorLeadsOn ==
  ASSUME Stretches, SInv', SupervisorNext, vars' # vars
  PROVE  Progress' > Progress \/ (Progress = 4 /\ Progress' = 4)
<1>0. SInv /\ InterruptsOne
  BY DEF Stretches
<1>1. CASE TryNext
  BY <1>1 DEF Progress, Moves, TryNext, Launch, SeesReady, Raises, StartupFails,
     PollAlive, LookOn, TimesOut, SeesExhausted, PlantLeft, ControllerEnds,
     ControllerFails, Settled
<1>2. CASE Request
  BY <1>2 DEF Progress, Moves, Request
<1>3. CASE Waited \/ Kill
  <2>1. /\ sup \in {"wait", "interrupted"} /\ sup' = "wait" /\ stopping # {}
        /\ stopping' = stopping \ {First}
    BY <1>3 DEF Waited, Kill, Moves
  <2>2. CASE stopping = Roles
    <3>1. stopping' # {} /\ stopping' # Roles
      BY <1>0, <2>1, <2>2, FirstIsWaitedFor
    <3>2. Progress' = 9
      BY <2>1, <3>1 DEF Progress
    <3> QED  BY <2>1, <2>2, <3>2 DEF Progress
  <2>3. CASE stopping # Roles
    <3>1. stopping' = {} /\ Roles # {}
      BY <1>0, <2>1, <2>3, FirstIsWaitedFor DEF Roles
    <3>2. Progress' = 11
      BY <2>1, <3>1 DEF Progress
    <3> QED  BY <2>1, <2>3, <3>2 DEF Progress
  <2> QED  BY <2>2, <2>3
<1>4. CASE SendInterrupt
  BY <1>4 DEF Progress, Moves, SendInterrupt
<1>5. CASE WriteResult
  BY <1>5 DEF Progress, Moves, WriteResult, Roles
<1> QED  BY <1>1, <1>2, <1>3, <1>4, <1>5 DEF SupervisorNext, FinallyNext

\* Nobody leads back: a worker leaves the supervisor where it is, and a signal
\* sends it on to its finally block or out of it.
LEMMA NobodyLeadsBack ==
  ASSUME Stretches, SInv', [Next]_vars
  PROVE  Progress' >= Progress
<1>0. SInv /\ Progress \in 0 .. 13 /\ Progress' \in 0 .. 13
  <2>1. SInv' => Progress' \in 0 .. 13
    <3>1. SInv' => sup' \in Supervising \cup Cleaning \cup {"ended"}
      BY DEF SInv, RunTypeOK
    <3> QED  BY <3>1 DEF Progress, Supervising, Cleaning
  <2> QED  BY <2>1, ProgressType DEF Stretches
<1>1. CASE UNCHANGED supervisorVars
  BY <1>0, <1>1 DEF supervisorVars, Progress
<1>2. CASE SupervisorNext
  <2>1. CASE vars' # vars
    BY <1>0, <1>2, <2>1, SupervisorLeadsOn
  <2>2. CASE vars' = vars
    BY <1>0, <2>2 DEF vars, supervisorVars, Progress
  <2> QED  BY <2>1, <2>2
<1>3. CASE \E others \in {{}, Roles} : SignalSupervisor(others)
  <2>1. \/ sup \in Supervising /\ sup' = "request"
        \/ sup \in Cleaning /\ sup' = "ended"
    BY <1>3 DEF SignalSupervisor
  <2>2. CASE sup \in Supervising /\ sup' = "request"
    BY <2>2 DEF Supervising, Progress
  <2>3. CASE sup \in Cleaning /\ sup' = "ended"
    BY <1>0, <2>3 DEF Progress
  <2> QED  BY <2>1, <2>2, <2>3
<1> QED  BY <1>1, <1>2, <1>3 DEF Next, vars

\* The supervisor never goes back: no signal, failure or report brings it from
\* its finally block to its loop, or to a worker it has done with.
THEOREM SupervisorGoesOn == Spec => [][Progress' >= Progress]_vars
<1>1. SInv' /\ Stretches /\ [Next]_vars => [Progress' >= Progress]_vars
  BY NobodyLeadsBack
<1> QED  BY <1>1, SInvHolds, StretchesHold, PTL DEF Spec

\* In the loop, the supervisor looks after it has polled.
LEMMA LoopLooks ==
  ASSUME SupervisorNext, vars' # vars, sup = "poll"
  PROVE  sup' = "look" \/ Progress' > 4
BY DEF SupervisorNext, TryNext, FinallyNext, Launch, SeesReady, Raises,
   StartupFails, PollAlive, LookOn, TimesOut, SeesExhausted, PlantLeft,
   ControllerEnds, ControllerFails, Settled, Request, Waited, SendInterrupt,
   Kill, WriteResult, Moves, Progress

\* The guard of TimesOut.
Overdue == sup = "look" /\ ~SomeExhausted /\ ~Gone("plant")

\* When the plant is gone or a budget exhausted, the look leaves the loop.
LEMMA LoopLeaves ==
  ASSUME SupervisorNext, vars' # vars, sup = "look", ~Overdue
  PROVE  Progress' > 4
BY DEF SupervisorNext, TryNext, FinallyNext, Launch, SeesReady, Raises,
   StartupFails, PollAlive, LookOn, TimesOut, SeesExhausted, PlantLeft,
   ControllerEnds, ControllerFails, Settled, Request, Waited, SendInterrupt,
   Kill, WriteResult, Moves, Progress, Overdue

\* So does the deadline.
LEMMA LoopEnds ==
  ASSUME TimesOut
  PROVE  Progress' > 4
BY DEF TimesOut, Moves, Progress

\* Whoever moves, the supervisor looks until it itself moves.
LEMMA LookStays ==
  ASSUME Stretches, [Next]_vars, sup = "look"
  PROVE  sup' = "look" \/ SupervisorNext \/ Progress' > 4
BY DEF Next, vars, supervisorVars, SignalSupervisor, Supervising, Cleaning, Progress

\* The supervisor's guards: it can always move until it has ended.
MayGoOn == sup # "ended" /\ InterruptsOne

\* ENABLED is beyond the provers: that an action whose guard holds can be taken
\* is a hypothesis.
GuardsSuffice ==
  [](/\ MayGoOn => ENABLED <<SupervisorNext>>_vars
     /\ Overdue => ENABLED <<TimesOut>>_vars)

\* The supervisor is on stretch k or past it.
Reached(k) == Progress >= k

\* What is reached stays reached.
LEMMA ReachedStays ==
  ASSUME Stretches, Stretches', [Next]_vars, NEW k \in 0 .. 13, Reached(k)
  PROVE  Reached(k)'
<1>1. Progress' >= Progress /\ Progress \in 0 .. 13
  BY NobodyLeadsBack, ProgressType DEF Stretches
<1>2. Progress' \in 0 .. 13
  BY DEF Stretches, SInv, RunTypeOK, Progress, Supervising, Cleaning
<1> QED  BY <1>1, <1>2 DEF Reached

\* Outside the loop, each of its steps reaches the next stretch.
LEMMA ReachedGrows ==
  ASSUME Stretches, Stretches', SupervisorNext, vars' # vars,
         NEW k \in 0 .. 12, k # 4, Reached(k)
  PROVE  Reached(k + 1)'
<1>1. Progress' > Progress \/ (Progress = 4 /\ Progress' = 4)
  BY SupervisorLeadsOn DEF Stretches
<1>2. Progress' \in 0 .. 13 /\ Progress \in 0 .. 13
  BY ProgressType DEF Stretches, SInv, RunTypeOK, Progress, Supervising, Cleaning
<1>3. Progress' >= k + 1
  BY <1>1, <1>2 DEF Reached
<1> QED  BY <1>3 DEF Reached

\* RunEnds, for every number of commands and signals, wherever workers hang.
THEOREM RunIsEnded == FairSpec /\ GuardsSuffice => RunEnds
<1>1. /\ Stretches /\ Stretches' /\ [Next]_vars
      => /\ (Reached(0) => Reached(0)') /\ (Reached(1) => Reached(1)')
         /\ (Reached(2) => Reached(2)') /\ (Reached(3) => Reached(3)')
         /\ (Reached(4) => Reached(4)') /\ (Reached(5) => Reached(5)')
         /\ (Reached(6) => Reached(6)') /\ (Reached(7) => Reached(7)')
         /\ (Reached(8) => Reached(8)') /\ (Reached(9) => Reached(9)')
         /\ (Reached(10) => Reached(10)') /\ (Reached(11) => Reached(11)')
         /\ (Reached(12) => Reached(12)') /\ (Reached(13) => Reached(13)')
  BY ReachedStays
<1>2. /\ Stretches /\ Stretches' /\ <<SupervisorNext>>_vars
      => /\ (Reached(0) => Reached(1)') /\ (Reached(1) => Reached(2)')
         /\ (Reached(2) => Reached(3)') /\ (Reached(3) => Reached(4)')
         /\ (Reached(5) => Reached(6)') /\ (Reached(6) => Reached(7)')
         /\ (Reached(7) => Reached(8)') /\ (Reached(8) => Reached(9)')
         /\ (Reached(9) => Reached(10)') /\ (Reached(10) => Reached(11)')
         /\ (Reached(11) => Reached(12)') /\ (Reached(12) => Reached(13)')
  <2> SUFFICES ASSUME Stretches, Stretches', <<SupervisorNext>>_vars
               PROVE  \A k \in 0 .. 12 : k # 4 /\ Reached(k) => Reached(k + 1)'
    OBVIOUS
  <2> QED  BY ReachedGrows
<1>3. Stretches' => (Progress' > 4 => Reached(5)')
  BY DEF Reached, Progress, Stretches, SInv, RunTypeOK, Supervising, Cleaning
<1> DEFINE Polls == sup = "poll"
           Looks == sup = "look"
<1>4. Stretches /\ Reached(4) => Reached(5) \/ Looks \/ Polls
  BY DEF Reached, Progress, Stretches, SInv, RunTypeOK, Supervising, Cleaning
<1>5. Polls /\ Stretches' /\ <<SupervisorNext>>_vars => Looks' \/ Reached(5)'
  BY LoopLooks, <1>3
<1>6. Looks /\ ~Overdue /\ Stretches' /\ <<SupervisorNext>>_vars => Reached(5)'
  BY LoopLeaves, <1>3
<1>7. Stretches' /\ <<TimesOut>>_vars => Reached(5)'
  BY LoopEnds, <1>3
<1>8. /\ Looks /\ Stretches /\ Stretches' /\ [Next]_vars
      => Looks' \/ <<SupervisorNext>>_vars \/ Reached(5)'
  <2> SUFFICES ASSUME sup = "look", Stretches, Stretches', [Next]_vars, sup' # "look"
               PROVE  <<SupervisorNext>>_vars \/ Reached(5)'
    OBVIOUS
  <2>1. vars' # vars
    BY DEF vars, supervisorVars
  <2> QED  BY <2>1, <1>3, LookStays
<1>9. Stretches => Reached(0) /\ (MayGoOn \/ (Reached(4) /\ Reached(5) /\ Reached(13)))
  BY ProgressType DEF Stretches, MayGoOn, Reached
<1>10. Stretches => (Reached(13) => sup = "ended")
  BY ProgressType DEF Stretches, Reached
<1> HIDE DEF Polls, Looks
<1>12. FairSpec /\ GuardsSuffice => <>Reached(4)
  BY <1>1, <1>2, <1>9, StretchesHold, PTL DEF FairSpec, Spec, GuardsSuffice
<1>13. FairSpec /\ GuardsSuffice => (Reached(4) ~> Reached(5))
  BY <1>1, <1>4, <1>5, <1>6, <1>7, <1>8, <1>9, <1>10, StretchesHold, PTL
  DEF FairSpec, Spec, GuardsSuffice
<1>14. FairSpec /\ GuardsSuffice => (Reached(5) ~> Reached(13))
  BY <1>1, <1>2, <1>9, StretchesHold, PTL DEF FairSpec, Spec, GuardsSuffice
<1> QED  BY <1>10, <1>12, <1>13, <1>14, StretchesHold, PTL
         DEF RunEnds, FairSpec

(***************************************************************************)
(* The control cycle of a run                                              *)
(***************************************************************************)

\* The command whose certificate is awaited; after the answer the plant has
\* still to clear it.
Checked == IF at["plant"] = "answered" THEN 0 ELSE checking

\* While the plant takes commands there is one outstanding at most, the last one
\* that was sent, and it is not the active motion.
OneOutstanding ==
  /\ commands \subseteq {sequence}
  /\ inHand \in {0, sequence}
  /\ Checked \in {0, sequence}
  /\ queued \in {0, sequence}
  /\ inHand # 0 => at["plant"] = "received"
  /\ commands # {} => inHand = 0 /\ Checked = 0 /\ queued = 0
  /\ inHand # 0 => Checked = 0 /\ queued = 0
  /\ Checked # 0 => queued = 0
  /\ active <= sequence
  /\ Outstanding # "over" => active # sequence

\* An answer is to a command that is decided, a rejection to one that is neither
\* queued nor active.
AnswersDecide ==
  \A m \in Ids, accepted \in BOOLEAN :
    <<m, accepted>> \in answers =>
      /\ m <= sequence
      /\ m = sequence => Outstanding \in {"accepted", "over"}
      /\ ~accepted => m # active /\ (m = sequence => Outstanding = "over")

\* The controller waits for what is outstanding, and a rejection finds it
\* waiting for the command that was rejected.
WaitsForIt ==
  /\ waiting \in {0, sequence}
  /\ waiting = 0 \/ calculating => Outstanding = "over"
  /\ \A m \in open : <<m, FALSE>> \in answers => waiting = m /\ ~calculating

NothingSent ==
  at["controller"] \in {"none", "starting"} =>
    sequence = 0 /\ waiting = 0 /\ ~calculating

CInv ==
  /\ NothingSent
  /\ Takes =>
       /\ OneOutstanding
       /\ AnswersDecide
       /\ at["controller"] \in InTry => WaitsForIt

\* A step of the control cycle, or none.
cycleNext == [Cycle!Next]_(Cycle!cycleVars)

\* What the steps of a run may rely on.
LEMMA CycleTypes ==
  ASSUME WorkerTypeOK
  PROVE  /\ at \in [Roles -> Places]
         /\ "controller" \in Roles /\ "plant" \in Roles
         /\ sequence \in Nat /\ waiting \in Nat /\ owed \in Int
         /\ calculating \in BOOLEAN
         /\ inHand \in Nat /\ checking \in Nat /\ queued \in Nat /\ active \in Nat
         /\ commands \subseteq Ids /\ open \subseteq Ids /\ 0 \notin Ids
         /\ answers \subseteq Ids \X BOOLEAN
         /\ Ids \subseteq Nat
BY MaxCommandsAssumption DEF WorkerTypeOK, LifeTypeOK, ControllerTypeOK,
   PlantTypeOK, TopicTypeOK, FlagTypeOK, Roles, Ids

\* The place of what is outstanding, in the terms of the invariant.
LEMMA OutstandingPlaces ==
  Outstanding = IF ~Takes THEN "over"
                ELSE IF commands # {} THEN "sent"
                ELSE IF inHand # 0 \/ Checked # 0 THEN "taken"
                ELSE IF queued # 0 THEN "accepted"
                ELSE "over"
BY DEF Outstanding, Checked

\* Before the controller runs there is nothing to wait for.
LEMMA NothingToWaitFor ==
  ASSUME WorkerTypeOK, CInv, Takes, at["controller"] \in {"none", "starting"}
  PROVE  WaitsForIt
<1>1. sequence = 0 /\ waiting = 0 /\ ~calculating
  BY DEF CInv, NothingSent
<1>2. commands = {} /\ inHand = 0 /\ Checked = 0 /\ queued = 0
  BY <1>1, CycleTypes DEF CInv, OneOutstanding
<1>3. Outstanding = "over"
  BY <1>2, OutstandingPlaces
<1>4. \A m \in open : <<m, FALSE>> \notin answers
  BY <1>1, CycleTypes DEF CInv, AnswersDecide
<1> QED  BY <1>1, <1>3, <1>4 DEF WaitsForIt

\* The plant leaves its loop, or its process ends.
LEMMA PlantEndsCycle ==
  ASSUME CInv, ~Takes', UNCHANGED <<active, controllerVars>>,
         at'["controller"] \in {"none", "starting"} =>
           at["controller"] \in {"none", "starting"}
  PROVE  CInv' /\ cycleNext
<1>1. UNCHANGED <<sequence, waiting, calculating, open, owed>>
  BY DEF controllerVars
<1>2. CInv'
  BY <1>1 DEF CInv, NothingSent
<1>3. Outstanding' = "over"
  BY DEF Outstanding
<1>4. Cycle!PlantEnds
  BY <1>1, <1>3 DEF Cycle!PlantEnds
<1> QED  BY <1>2, <1>4 DEF cycleNext, Cycle!Next

\* The controller leaves its loop, or its process ends.
LEMMA ControllerEndsCycle ==
  ASSUME CInv, UNCHANGED <<sequence, owed, plantVars, commands>>,
         answers' \subseteq answers, at'["plant"] = at["plant"],
         at'["controller"] \notin InTry \cup {"none", "starting"},
         open' \subseteq open, calculating' => calculating
  PROVE  CInv' /\ cycleNext
<1>1. /\ Takes' = Takes /\ Checked' = Checked
      /\ UNCHANGED <<inHand, queued, active, checking>>
  BY DEF Takes, Checked, plantVars
<1>2. Outstanding' = Outstanding
  BY <1>1 DEF Outstanding
<1>3. CInv'
  BY <1>1, <1>2 DEF CInv, NothingSent, OneOutstanding, AnswersDecide
<1>4. Cycle!Forget
  BY <1>1, <1>2 DEF Cycle!Forget
<1> QED  BY <1>3, <1>4 DEF cycleNext, Cycle!Next

\* A step that changes nothing a node keeps.
LEMMA RestKeepsCycle ==
  ASSUME WorkerTypeOK, CInv, UNCHANGED nodeVars,
         Takes' => /\ Takes
                   /\ \/ at'["plant"] = at["plant"]
                      \/ {at["plant"], at'["plant"]} \cap {"received", "answered"} = {},
         at'["controller"] \in InTry \cup {"none", "starting"} =>
           at["controller"] \in InTry \cup {"none", "starting"},
         at'["controller"] \in {"none", "starting"} =>
           at["controller"] \in {"none", "starting"}
  PROVE  CInv' /\ cycleNext
<1>0. /\ UNCHANGED <<sequence, open, waiting, calculating, owed, inHand, checking,
                     queued, active, commands, answers>>
      /\ UNCHANGED controllerVars
  BY DEF nodeVars, controllerVars, plantVars, topicVars
<1>1. CASE Takes'
  <2>1. Takes /\ Checked' = Checked
        /\ (at["plant"] = "received" => at'["plant"] = "received")
    BY <1>0, <1>1 DEF Checked
  <2>2. Outstanding' = Outstanding
    BY <1>0, <1>1, <2>1 DEF Outstanding, Checked
  <2>3. OneOutstanding'
    BY <1>0, <2>1, <2>2, <1>1 DEF CInv, OneOutstanding
  <2>4. AnswersDecide'
    BY <1>0, <2>1, <2>2 DEF CInv, AnswersDecide
  <2>5. WaitsForIt => WaitsForIt'
    BY <1>0, <2>2 DEF WaitsForIt
  <2>6. at'["controller"] \in InTry => WaitsForIt'
    BY <2>1, <2>5, NothingToWaitFor DEF CInv
  <2>7. NothingSent'
    BY <1>0 DEF CInv, NothingSent
  <2>8. CInv'
    BY <2>3, <2>4, <2>6, <2>7 DEF CInv
  <2>9. UNCHANGED Cycle!cycleVars
    BY <1>0, <1>1, <2>1, <2>2 DEF Cycle!cycleVars
  <2> QED  BY <2>8, <2>9 DEF cycleNext
<1>2. CASE ~Takes'
  BY <1>0, <1>2, PlantEndsCycle
<1> QED  BY <1>1, <1>2

-----------------------------------------------------------------------------

\* The loop of a worker.
LEMMA LivesKeepsCycle ==
  ASSUME WorkerTypeOK, CInv, NEW r \in Roles, Lives(r)
  PROVE  CInv' /\ cycleNext
<1>0. at \in [Roles -> Places] /\ Roles = {"controller", "plant"}
  BY DEF WorkerTypeOK, LifeTypeOK, Roles
<1>1. CASE StartFails(r)
  <2>1. at[r] = "starting" /\ at' = [at EXCEPT ![r] = "gone"]
    BY <1>1 DEF StartFails, Dies
  <2>2. CASE r = "controller"
    <3>1. /\ UNCHANGED <<sequence, owed, plantVars, commands, answers>>
          /\ open' = {} /\ calculating' = FALSE
      BY <1>1, <2>2 DEF StartFails, Dies, topicVars
    <3> QED  BY <1>0, <2>1, <2>2, <3>1, ControllerEndsCycle DEF InTry
  <2>3. CASE r = "plant"
    <3>1. UNCHANGED <<active, controllerVars>>
      BY <1>1, <2>3 DEF StartFails, Dies
    <3> QED  BY <1>0, <2>1, <2>3, <3>1, PlantEndsCycle DEF InTry, Takes
  <2> QED  BY <1>0, <2>2, <2>3
<1>2. CASE ~StartFails(r)
  <2>1. UNCHANGED nodeVars
    BY <1>2 DEF Lives, Build, NodeFails, Report, Loop, Idle, CheckRefused, Fail
  <2>2. /\ at[r] \in {"starting", "checks", "spin"}
        /\ \/ at' = [at EXCEPT ![r] = "checks"]
           \/ at' = [at EXCEPT ![r] = "spin"]
           \/ at' = [at EXCEPT ![r] = "finish"]
    BY <1>2 DEF Lives, Build, NodeFails, Report, Loop, Idle, CheckRefused, Fail,
       Goes, Exhausts
  <2>3. CASE r = "controller"
    BY <1>0, <2>1, <2>2, <2>3, RestKeepsCycle DEF InTry, Takes
  <2>4. CASE r = "plant"
    BY <1>0, <2>1, <2>2, <2>4, RestKeepsCycle DEF InTry, Takes
  <2> QED  BY <1>0, <2>3, <2>4
<1> QED  BY <1>1, <1>2

\* The end of a worker.
LEMMA EndsKeepsCycle ==
  ASSUME WorkerTypeOK, CInv, NEW r \in Roles, Ends(r)
  PROVE  CInv' /\ cycleNext
<1>0. at \in [Roles -> Places] /\ Roles = {"controller", "plant"}
  BY DEF WorkerTypeOK, LifeTypeOK, Roles
<1>1. CASE Close(r)
  <2>1. at[r] = "close" /\ at' = [at EXCEPT ![r] = "gone"]
    BY <1>1 DEF Close, Dies
  <2>2. CASE r = "controller"
    <3>1. /\ UNCHANGED <<sequence, owed, plantVars, commands, answers>>
          /\ open' = {} /\ calculating' = FALSE
      BY <1>1, <2>2 DEF Close, Dies, topicVars
    <3> QED  BY <1>0, <2>1, <2>2, <3>1, ControllerEndsCycle DEF InTry
  <2>3. CASE r = "plant"
    <3>1. UNCHANGED <<active, controllerVars>>
      BY <1>1, <2>3 DEF Close, Dies
    <3> QED  BY <1>0, <2>1, <2>3, <3>1, PlantEndsCycle DEF InTry, Takes
  <2> QED  BY <1>0, <2>2, <2>3
<1>2. CASE Terminal(r) \/ ExhaustedTerminal(r)
  <2>1. at[r] = "terminal" /\ at' = [at EXCEPT ![r] = "close"]
    BY <1>2 DEF Terminal, ExhaustedTerminal, Goes
  <2>2. UNCHANGED <<sequence, open, waiting, calculating, owed, plantVars, topicVars>>
    BY <1>2 DEF Terminal, ExhaustedTerminal, nodeVars, controllerVars
  <2>3. CASE r = "controller"
    BY <1>0, <2>1, <2>2, <2>3, ControllerEndsCycle DEF InTry, topicVars
  <2>4. CASE r = "plant"
    <3>1. UNCHANGED <<active, controllerVars>>
      BY <1>2, <2>2, <2>4 DEF Terminal, ExhaustedTerminal, nodeVars,
         controllerVars, plantVars
    <3> QED  BY <1>0, <2>1, <2>4, <3>1, PlantEndsCycle DEF InTry, Takes
  <2> QED  BY <1>0, <2>3, <2>4
<1>3. CASE Finish(r)
  <2>1. at[r] = "finish" /\ at' = [at EXCEPT ![r] = "terminal"]
    BY <1>3 DEF Finish, Goes
  <2>2. CASE r = "plant"
    <3>1. UNCHANGED <<active, controllerVars>>
      BY <1>3, <2>2 DEF Finish, FinishPlant, nodeVars, plantVars
    <3> QED  BY <1>0, <2>1, <2>2, <3>1, PlantEndsCycle DEF InTry, Takes
  <2>3. CASE r = "controller" /\ r \notin ready
    BY <1>0, <1>3, <2>1, <2>3, RestKeepsCycle DEF InTry, Takes, Finish
  <2>4. CASE r = "controller" /\ r \in ready
    <3>1. /\ owed' = owed - Cardinality(open) - IF calculating THEN 1 ELSE 0
          /\ open' = {} /\ calculating' = FALSE
          /\ UNCHANGED <<sequence, waiting, plantVars, topicVars>>
      BY <1>3, <2>4 DEF Finish, FinishController, FinishControllerWith
    <3>2. /\ at'["plant"] = at["plant"]
          /\ at'["controller"] = "terminal"
      BY <1>0, <2>1, <2>4
    <3>3. /\ Takes' = Takes /\ Checked' = Checked
          /\ UNCHANGED <<inHand, queued, active, checking, commands, answers>>
      BY <3>1, <3>2 DEF Takes, Checked, plantVars, topicVars
    <3>4. Outstanding' = Outstanding
      BY <3>3, OutstandingPlaces DEF Outstanding, Checked
    <3>5. CInv'
      BY <3>1, <3>2, <3>3, <3>4
      DEF CInv, NothingSent, OneOutstanding, AnswersDecide, InTry
    <3>6. Cycle!Cardinality(open) = Cardinality(open)
      BY DEF Cycle!Cardinality, Cardinality
    <3>7. Cycle!Finish
      BY <3>1, <3>3, <3>4, <3>6 DEF Cycle!Finish
    <3> QED  BY <3>5, <3>7 DEF cycleNext, Cycle!Next
  <2> QED  BY <1>0, <2>2, <2>3, <2>4
<1> QED  BY <1>1, <1>2, <1>3 DEF Ends

\* A SIGINT is delivered.
LEMMA InterruptKeepsCycle ==
  ASSUME WorkerTypeOK, CInv, NEW r \in Roles, Interrupt(r)
  PROVE  CInv' /\ cycleNext
<1>0. at \in [Roles -> Places] /\ Roles = {"controller", "plant"}
  BY DEF WorkerTypeOK, LifeTypeOK, Roles
<1>1. CASE at[r] = "starting"
  <2>1. at' = [at EXCEPT ![r] = "gone"] /\ Dies(r, "error")
    BY <1>1 DEF Interrupt, Dies, InTry
  <2>2. CASE r = "controller"
    <3>1. /\ UNCHANGED <<sequence, owed, plantVars, commands, answers>>
          /\ open' = {} /\ calculating' = FALSE
      BY <2>1, <2>2 DEF Dies, topicVars
    <3> QED  BY <1>0, <2>1, <2>2, <3>1, ControllerEndsCycle DEF InTry
  <2>3. CASE r = "plant"
    <3>1. UNCHANGED <<active, controllerVars>>
      BY <2>1, <2>3 DEF Dies
    <3> QED  BY <1>0, <2>1, <2>3, <3>1, PlantEndsCycle DEF InTry, Takes
  <2> QED  BY <1>0, <2>2, <2>3
<1>2. CASE at[r] # "starting"
  <2>1. /\ UNCHANGED nodeVars
        /\ \/ at[r] \in InTry /\ at' = [at EXCEPT ![r] = "finish"]
           \/ /\ at[r] \in {"finish", "terminal", "close"}
              /\ \/ at' = [at EXCEPT ![r] = "terminal"]
                 \/ at' = [at EXCEPT ![r] = "close"]
    BY <1>0, <1>2 DEF Interrupt
  <2>2. CASE r = "controller"
    BY <1>0, <2>1, <2>2, RestKeepsCycle DEF InTry, Takes
  <2>3. CASE r = "plant"
    BY <1>0, <2>1, <2>3, RestKeepsCycle DEF InTry, Takes
  <2> QED  BY <1>0, <2>2, <2>3
<1> QED  BY <1>1, <1>2

\* A callback of the controller.
LEMMA ControllerSpinsKeepsCycle ==
  ASSUME WorkerTypeOK, CInv, ControllerSpins
  PROVE  CInv' /\ cycleNext
<1>0. /\ at["controller"] = "spin" /\ at'["plant"] = at["plant"]
      /\ at'["controller"] \in {"checks", "finish"}
      /\ UNCHANGED plantVars
  BY CycleTypes DEF ControllerSpins, OnAdmission, Begin, TakeError, TakeFault,
     TakeNone, TakeCommand, TickController, ControllerRefused, Cut, Spins, Goes,
     Exhausts, nodeVars
<1>1. /\ UNCHANGED <<inHand, checking, queued, active>>
      /\ Takes' = Takes /\ Checked' = Checked
      /\ commands' = commands => Outstanding' = Outstanding
      /\ at["controller"] \in InTry
  BY <1>0 DEF plantVars, Takes, Checked, Outstanding, InTry
<1>2. Takes => OneOutstanding /\ AnswersDecide /\ WaitsForIt
  BY <1>1 DEF CInv
<1>3. NothingSent'
  BY <1>0 DEF NothingSent
<1>4. ASSUME UNCHANGED <<sequence, commands>>, answers' \subseteq answers
      PROVE  Takes' => OneOutstanding' /\ AnswersDecide'
  BY <1>0, <1>1, <1>2, <1>4 DEF OneOutstanding, AnswersDecide
<1>5. ASSUME NEW m \in Ids, NEW accepted \in BOOLEAN, OnAdmission(m, accepted)
      PROVE  CInv' /\ cycleNext
  <2>1. /\ <<m, accepted>> \in answers /\ answers' = answers \ {<<m, accepted>>}
        /\ m \in open /\ open' = open \ {m} /\ owed' = owed - 1
        /\ waiting' = IF accepted THEN waiting ELSE 0
        /\ UNCHANGED <<sequence, calculating, commands>>
    BY <1>5 DEF OnAdmission, Remaining
  <2>2. Takes => WaitsForIt'
    <3>1. ASSUME Takes, ~accepted
          PROVE  Outstanding = "over" /\ m = waiting
      <4>1. m = waiting /\ m # 0 /\ waiting \in {0, sequence}
        BY <1>2, <2>1, <3>1, CycleTypes DEF WaitsForIt
      <4> QED  BY <1>2, <2>1, <3>1, <4>1 DEF AnswersDecide
    <3> QED  BY <1>1, <1>2, <2>1, <3>1 DEF WaitsForIt
  <2>3. CInv'
    BY <1>1, <1>3, <1>4, <2>1, <2>2 DEF CInv
  <2>4. m = sequence => Outstanding \in {"accepted", "over"}
    <3>1. CASE Takes
      BY <1>2, <2>1, <3>1 DEF AnswersDecide
    <3> QED  BY <3>1, OutstandingPlaces
  <2>5. Cycle!Record(m)
    BY <1>1, <2>1, <2>4 DEF Cycle!Record
  <2> QED  BY <2>1, <2>3, <2>5 DEF cycleNext, Cycle!Next
<1>6. CASE Begin
  <2>1. /\ ~calculating /\ calculating' = TRUE /\ owed' = owed + 1
        /\ waiting # 0 => waiting = active
        /\ waiting' = 0
        /\ UNCHANGED <<sequence, open, commands, answers>>
    BY <1>6 DEF Begin, WaitIsOver, topicVars
  <2>2. Outstanding = "over"
    <3>1. CASE Takes
      BY <1>2, <2>1, <3>1 DEF WaitsForIt, OneOutstanding
    <3> QED  BY <3>1, OutstandingPlaces
  <2>3. Takes => \A m \in open : <<m, FALSE>> \notin answers
    BY <1>2, <2>1, CycleTypes DEF WaitsForIt, AnswersDecide
  <2>4. Takes => WaitsForIt'
    BY <1>1, <2>1, <2>2, <2>3 DEF WaitsForIt
  <2>5. CInv'
    BY <1>1, <1>3, <1>4, <2>1, <2>4 DEF CInv
  <2>6. Cycle!Begin
    BY <1>1, <2>1, <2>2 DEF Cycle!Begin
  <2> QED  BY <2>5, <2>6 DEF cycleNext, Cycle!Next
<1>7. CASE TakeError \/ TakeFault \/ TakeNone
  <2>1. /\ calculating /\ calculating' = FALSE /\ owed' = owed - 1
        /\ UNCHANGED <<sequence, open, waiting, commands, answers>>
    BY <1>7 DEF TakeError, TakeFault, TakeNone, TakesUp, topicVars
  <2>2. Takes => WaitsForIt'
    BY <1>1, <1>2, <2>1 DEF WaitsForIt
  <2>3. CInv'
    BY <1>1, <1>3, <1>4, <2>1, <2>2 DEF CInv
  <2>4. Cycle!Discard
    BY <1>1, <2>1 DEF Cycle!Discard
  <2> QED  BY <2>3, <2>4 DEF cycleNext, Cycle!Next
<1>8. ASSUME NEW completes \in BOOLEAN, TakeCommand(completes)
      PROVE  CInv' /\ cycleNext
  <2>1. /\ calculating /\ calculating' = FALSE
        /\ sequence' = sequence + 1
        /\ open' = open \cup {sequence'} /\ waiting' = sequence'
        /\ commands' = commands \cup {sequence'}
        /\ UNCHANGED <<owed, answers>>
    BY <1>8 DEF TakeCommand, TakesUp
  <2>2. Outstanding = "over"
    <3>1. CASE Takes
      BY <1>2, <2>1, <3>1 DEF WaitsForIt
    <3> QED  BY <3>1, OutstandingPlaces
  <2>3. Outstanding' = IF Takes THEN "sent" ELSE "over"
    BY <1>1, <2>1 DEF Outstanding
  <2>4. ASSUME Takes
        PROVE  OneOutstanding' /\ AnswersDecide' /\ WaitsForIt'
    <3>1. /\ commands = {} /\ inHand = 0 /\ Checked = 0 /\ queued = 0
          /\ commands' = {sequence'} /\ sequence' > sequence
          /\ active <= sequence
      BY <1>2, <2>1, <2>2, <2>4, OutstandingPlaces, CycleTypes DEF OneOutstanding
    <3>2. OneOutstanding'
      BY <1>0, <1>1, <2>1, <3>1, CycleTypes DEF OneOutstanding
    <3>3. \A m \in Ids, accepted \in BOOLEAN :
            <<m, accepted>> \in answers => m <= sequence /\ m # sequence'
      BY <1>2, <2>1, <2>4, CycleTypes DEF AnswersDecide
    <3>4. AnswersDecide'
      BY <1>1, <1>2, <2>1, <2>4, <3>3, CycleTypes DEF AnswersDecide
    <3>5. \A m \in open : <<m, FALSE>> \notin answers
      BY <1>2, <2>1, <2>4 DEF WaitsForIt
    <3>6. sequence' # 0 /\ <<sequence', FALSE>> \notin answers
      BY <2>1, <3>3, CycleTypes
    <3>7. WaitsForIt'
      BY <2>1, <3>5, <3>6 DEF WaitsForIt
    <3> QED  BY <3>2, <3>4, <3>7
  <2>5. CInv'
    BY <1>1, <1>3, <2>4 DEF CInv
  <2>6. Cycle!Send
    BY <1>1, <2>1, <2>2, <2>3 DEF Cycle!Send
  <2> QED  BY <2>5, <2>6 DEF cycleNext, Cycle!Next
<1>9. CASE TickController \/ ControllerRefused
  <2>1. UNCHANGED nodeVars
    BY <1>9 DEF TickController, ControllerRefused
  <2> QED  BY <1>0, <1>1, <2>1, RestKeepsCycle
<1>10. CASE Cut
  <2>1. /\ UNCHANGED <<sequence, owed, commands>>
        /\ answers' \subseteq answers /\ open' \subseteq open
        /\ calculating' => calculating
        /\ at'["controller"] = "finish"
    BY <1>10, CycleTypes DEF Cut, TakesUp, Goes
  <2> QED  BY <1>0, <2>1, ControllerEndsCycle DEF InTry
<1> QED  BY <1>5, <1>6, <1>7, <1>8, <1>9, <1>10 DEF ControllerSpins

\* What the controller expects stays true when nothing of it changes and nothing
\* becomes outstanding, and a rejection is one of what was outstanding.
LEMMA WaitsOnForIt ==
  ASSUME WorkerTypeOK, WaitsForIt, UNCHANGED controllerVars,
         Outstanding' \in {Outstanding, "over"} \/ Outstanding # "over",
         \A m \in Ids : <<m, FALSE>> \in answers' =>
           \/ <<m, FALSE>> \in answers
           \/ m = sequence /\ m # 0 /\ Outstanding # "over"
  PROVE  WaitsForIt'
<1>1. UNCHANGED <<sequence, open, waiting, calculating>>
  BY DEF controllerVars
<1>2. waiting \in {0, sequence} /\ (waiting = 0 \/ calculating => Outstanding = "over")
  BY DEF WaitsForIt
<1>3. waiting' = 0 \/ calculating' => Outstanding' = "over"
  BY <1>1, <1>2
<1>4. ASSUME NEW m \in open, <<m, FALSE>> \in answers'
      PROVE  waiting = m /\ ~calculating
  BY <1>2, <1>4, CycleTypes DEF WaitsForIt
<1> QED  BY <1>1, <1>2, <1>3, <1>4 DEF WaitsForIt

\* A callback of the plant.
LEMMA PlantSpinsKeepsCycle ==
  ASSUME WorkerTypeOK, HandHeld, CInv, PlantSpins
  PROVE  CInv' /\ cycleNext
<1>0. /\ at["plant"] \in {"spin", "received", "answered"}
      /\ at'["controller"] = at["controller"]
      /\ at'["plant"] \in {"checks", "received", "answered", "finish"}
      /\ UNCHANGED controllerVars
      /\ UNCHANGED <<sequence, open, waiting, calculating, owed>>
      /\ Takes
  BY CycleTypes DEF PlantSpins, OnCommand, OnCommandRefused, AnswerAtOnce, Submit,
     Tick, Feed, TickRefused, TakeCertificate, ClearAndFeed, ClearAndRefuse,
     Spins, Goes, Exhausts, nodeVars, controllerVars, Takes, InTry
<1>1. /\ OneOutstanding /\ AnswersDecide
      /\ at["controller"] \in InTry => WaitsForIt
      /\ Takes' => NothingSent'
  BY <1>0 DEF CInv, NothingSent, controllerVars
<1>2. ASSUME NEW m \in commands, OnCommand(m)
      PROVE  CInv' /\ cycleNext
  <2>1. /\ m = sequence /\ commands = {m} /\ commands' = {}
        /\ inHand = 0 /\ inHand' = m /\ m # 0
        /\ Checked = 0 /\ queued = 0
        /\ active # sequence
        /\ at["plant"] = "spin" /\ at'["plant"] = "received"
        /\ UNCHANGED <<checking, queued, active, answers>>
    BY <1>1, <1>2, CycleTypes, OutstandingPlaces, <1>0
    DEF OnCommand, OneOutstanding, Spins, Goes
  <2>2. Takes' /\ Checked' = Checked
    BY <2>1 DEF Takes, InTry, Checked
  <2>3. Outstanding = "sent" /\ Outstanding' = "taken"
    BY <1>0, <2>1, <2>2 DEF Outstanding
  <2>4. OneOutstanding'
    BY <1>0, <1>1, <2>1, <2>2 DEF OneOutstanding
  <2>5. AnswersDecide'
    BY <1>0, <1>1, <2>1, <2>3 DEF AnswersDecide
  <2>6. at["controller"] \in InTry => WaitsForIt'
    BY <1>0, <1>1, <2>1, <2>3, WaitsOnForIt
  <2>7. CInv'
    BY <1>0, <1>1, <2>2, <2>4, <2>5, <2>6 DEF CInv
  <2>8. Cycle!Take
    BY <1>0, <2>1, <2>2, <2>3 DEF Cycle!Take
  <2> QED  BY <2>7, <2>8 DEF cycleNext, Cycle!Next
<1>3. CASE AnswerAtOnce
  <2>1. /\ inHand = sequence /\ inHand # 0 /\ inHand' = 0
        /\ commands = {} /\ Checked = 0 /\ queued = 0 /\ active # sequence
        /\ at["plant"] = "received" /\ at'["plant"] = "checks"
        /\ answers' = answers \cup {<<sequence, FALSE>>}
        /\ UNCHANGED <<checking, queued, active, commands>>
    BY <1>0, <1>1, <1>3, CycleTypes, OutstandingPlaces
    DEF AnswerAtOnce, OneOutstanding, Spins, Goes, HandHeld
  <2>2. Takes' /\ Checked' = Checked
    BY <2>1 DEF Takes, InTry, Checked
  <2>3. Outstanding = "taken" /\ Outstanding' = "over"
    BY <1>0, <2>1, <2>2, OutstandingPlaces DEF Outstanding, Checked
  <2>4. OneOutstanding'
    BY <1>0, <1>1, <2>1, <2>2, <2>3 DEF OneOutstanding
  <2>5. AnswersDecide'
    <3> SUFFICES ASSUME NEW m \in Ids, NEW accepted \in BOOLEAN,
                        <<m, accepted>> \in answers'
                 PROVE  /\ m <= sequence
                        /\ ~accepted => m # active
      BY <1>0, <2>1, <2>3 DEF AnswersDecide
    <3>1. CASE <<m, accepted>> \in answers
      BY <1>1, <3>1 DEF AnswersDecide
    <3>2. CASE <<m, accepted>> = <<sequence, FALSE>>
      BY <2>1, <3>2, CycleTypes
    <3> QED  BY <2>1, <3>1, <3>2
  <2>6. at["controller"] \in InTry => WaitsForIt'
    BY <1>0, <1>1, <2>1, <2>3, WaitsOnForIt
  <2>7. CInv'
    BY <1>0, <1>1, <2>2, <2>4, <2>5, <2>6 DEF CInv
  <2>8. Cycle!Vanish
    BY <1>0, <2>1, <2>2, <2>3 DEF Cycle!Vanish
  <2> QED  BY <2>7, <2>8 DEF cycleNext, Cycle!Next
<1>4. CASE Submit
  <2>1. /\ inHand = sequence /\ inHand # 0 /\ inHand' = 0
        /\ commands = {} /\ Checked = 0 /\ queued = 0 /\ checking' = sequence
        /\ active # sequence
        /\ at["plant"] = "received" /\ at'["plant"] = "checks"
        /\ UNCHANGED <<queued, active, commands, answers>>
    BY <1>0, <1>1, <1>4, CycleTypes, OutstandingPlaces
    DEF Submit, OneOutstanding, Spins, Goes, HandHeld, topicVars
  <2>2. Takes' /\ Checked' = sequence
    BY <2>1 DEF Takes, InTry, Checked
  <2>3. Outstanding = "taken" /\ Outstanding' = "taken"
    BY <1>0, <2>1, <2>2, OutstandingPlaces DEF Outstanding, Checked
  <2>4. OneOutstanding'
    BY <1>0, <1>1, <2>1, <2>2 DEF OneOutstanding
  <2>5. AnswersDecide'
    BY <1>0, <1>1, <2>1, <2>3 DEF AnswersDecide
  <2>6. at["controller"] \in InTry => WaitsForIt'
    BY <1>0, <1>1, <2>1, <2>3, WaitsOnForIt
  <2>7. CInv'
    BY <1>0, <1>1, <2>2, <2>4, <2>5, <2>6 DEF CInv
  <2>8. UNCHANGED Cycle!cycleVars
    BY <1>0, <2>1, <2>2, <2>3 DEF Cycle!cycleVars
  <2> QED  BY <2>7, <2>8 DEF cycleNext
<1>5. ASSUME NEW delayed \in BOOLEAN, Tick(delayed) \/ ClearAndFeed(delayed)
      PROVE  CInv' /\ cycleNext
  <2>1. /\ inHand = 0 /\ inHand' = 0
        /\ at["plant"] \in {"spin", "answered"} /\ at'["plant"] = "checks"
        /\ checking' = Checked
        /\ Advances
        /\ UNCHANGED <<commands, answers>>
    BY <1>0, <1>1, <1>5, CycleTypes
    DEF Tick, ClearAndFeed, Feed, OneOutstanding, Spins, Goes, topicVars, Checked
  <2>2. Takes' /\ Checked' = Checked
    BY <2>1 DEF Takes, InTry, Checked
  <2>3. CASE queued # 0 /\ active' = queued /\ queued' = 0
    <3>1. commands = {} /\ Checked = 0 /\ queued = sequence /\ active' = sequence
      BY <1>1, <2>3 DEF OneOutstanding
    <3>2. Outstanding = "accepted" /\ Outstanding' = "over"
      BY <1>0, <2>1, <2>2, <2>3, <3>1, OutstandingPlaces DEF Outstanding, Checked
    <3>3. OneOutstanding'
      BY <1>0, <1>1, <2>1, <2>2, <2>3, <3>1, <3>2, CycleTypes DEF OneOutstanding
    <3>4. AnswersDecide'
      BY <1>0, <1>1, <2>1, <3>1, <3>2 DEF AnswersDecide
    <3>5. at["controller"] \in InTry => WaitsForIt'
      BY <1>0, <1>1, <2>1, <3>2, WaitsOnForIt
    <3>6. CInv'
      BY <1>0, <1>1, <2>2, <3>3, <3>4, <3>5 DEF CInv
    <3>7. Cycle!Start
      BY <1>0, <2>2, <3>1, <3>2 DEF Cycle!Start
    <3> QED  BY <3>6, <3>7 DEF cycleNext, Cycle!Next
  <2>4. CASE UNCHANGED <<active, queued>>
    <3>1. Outstanding' = Outstanding
      BY <1>0, <2>1, <2>2, <2>4 DEF Outstanding, Checked
    <3>2. OneOutstanding'
      BY <1>0, <1>1, <2>1, <2>2, <2>4, <3>1 DEF OneOutstanding
    <3>3. AnswersDecide'
      BY <1>0, <1>1, <2>1, <2>4, <3>1 DEF AnswersDecide
    <3>4. at["controller"] \in InTry => WaitsForIt'
      BY <1>0, <1>1, <2>1, <3>1, WaitsOnForIt
    <3>5. CInv'
      BY <1>0, <1>1, <2>2, <3>2, <3>3, <3>4 DEF CInv
    <3>6. UNCHANGED Cycle!cycleVars
      BY <1>0, <2>2, <2>4, <3>1 DEF Cycle!cycleVars
    <3> QED  BY <3>5, <3>6 DEF cycleNext
  <2> QED  BY <2>1, <2>3, <2>4 DEF Advances
<1>6. ASSUME NEW accepted \in BOOLEAN, TakeCertificate(accepted)
      PROVE  CInv' /\ cycleNext
  <2>1. /\ checking # 0 /\ at["plant"] = "spin" /\ at'["plant"] = "answered"
        /\ queued' = IF accepted THEN checking ELSE queued
        /\ answers' = answers \cup {<<checking, accepted>>}
        /\ UNCHANGED <<inHand, checking, active, commands>>
    BY <1>6, CycleTypes DEF TakeCertificate, Spins, Goes
  <2>2. /\ checking = sequence /\ commands = {} /\ inHand = 0 /\ queued = 0
        /\ Checked = sequence /\ active # sequence /\ Checked # 0
    BY <1>0, <1>1, <2>1, OutstandingPlaces DEF OneOutstanding, Checked
  <2>3. Takes' /\ Checked' = 0
    BY <2>1 DEF Takes, InTry, Checked
  <2>4. /\ Outstanding = "taken"
        /\ Outstanding' = IF accepted THEN "accepted" ELSE "over"
    BY <1>0, <2>1, <2>2, <2>3, OutstandingPlaces DEF Outstanding
  <2>5. OneOutstanding'
    BY <1>0, <1>1, <2>1, <2>2, <2>3, <2>4 DEF OneOutstanding
  <2>6. AnswersDecide'
    <3> SUFFICES ASSUME NEW m \in Ids, NEW answer \in BOOLEAN,
                        <<m, answer>> \in answers'
                 PROVE  /\ m <= sequence
                        /\ ~answer =>
                             m # active /\ (m = sequence => ~accepted)
      BY <1>0, <2>1, <2>4 DEF AnswersDecide
    <3>1. CASE <<m, answer>> \in answers
      BY <1>1, <2>4, <3>1 DEF AnswersDecide
    <3>2. CASE <<m, answer>> = <<sequence, accepted>>
      BY <2>2, <3>2, CycleTypes
    <3> QED  BY <2>1, <2>2, <3>1, <3>2
  <2>7. at["controller"] \in InTry => WaitsForIt'
    BY <1>0, <1>1, <2>1, <2>2, <2>4, WaitsOnForIt
  <2>8. CInv'
    BY <1>0, <1>1, <2>3, <2>5, <2>6, <2>7 DEF CInv
  <2>9. Cycle!Accept \/ Cycle!Vanish
    BY <1>0, <2>1, <2>3, <2>4 DEF Cycle!Accept, Cycle!Vanish
  <2> QED  BY <2>8, <2>9 DEF cycleNext, Cycle!Next
<1>7. CASE TickRefused \/ ClearAndRefuse \/ \E m \in Ids : OnCommandRefused(m)
  <2>1. at'["plant"] = "finish" /\ UNCHANGED active
    BY <1>7, CycleTypes DEF TickRefused, ClearAndRefuse, OnCommandRefused,
       Exhausts, Goes, nodeVars, plantVars
  <2> QED  BY <1>0, <2>1, PlantEndsCycle DEF Takes, InTry
<1> QED
  BY <1>2, <1>3, <1>4, <1>5, <1>6, <1>7 DEF PlantSpins, OnCommand

-----------------------------------------------------------------------------

\* A step of the supervisor, or a signal it gets.
LEMMA SupervisorKeepsCycle ==
  ASSUME SInv, CInv, SupervisorStep
  PROVE  CInv' /\ cycleNext
<1>0. /\ at \in [Roles -> Places] /\ Roles = {"controller", "plant"}
      /\ WorkerTypeOK /\ Unstarted /\ First \in Roles
  BY DEF SInv, RunTypeOK, WorkerTypeOK, LifeTypeOK, Roles, First
<1>1. CASE Kill /\ ~Gone(First)
  <2>1. at' = [at EXCEPT ![First] = "gone"] /\ Dies(First, "killed")
    BY <1>1 DEF Kill, Dies
  <2>2. CASE First = "controller"
    <3>1. /\ UNCHANGED <<sequence, owed, plantVars, commands, answers>>
          /\ open' = {} /\ calculating' = FALSE
      BY <2>1, <2>2 DEF Dies, topicVars
    <3> QED  BY <1>0, <2>1, <2>2, <3>1, ControllerEndsCycle DEF InTry
  <2>3. CASE First = "plant"
    <3>1. UNCHANGED <<active, controllerVars>>
      BY <2>1, <2>3 DEF Dies
    <3> QED  BY <1>0, <2>1, <2>3, <3>1, PlantEndsCycle DEF InTry, Takes
  <2> QED  BY <1>0, <2>2, <2>3
<1>2. CASE ~(Kill /\ ~Gone(First))
  <2>1. UNCHANGED nodeVars
    BY <1>2 DEF SupervisorStep, SupervisorNext, TryNext, FinallyNext, Launch,
       SeesReady, Raises, StartupFails, PollAlive, LookOn, TimesOut,
       SeesExhausted, PlantLeft, ControllerEnds, ControllerFails, Settled,
       Request, Waited, SendInterrupt, Kill, WriteResult, SignalSupervisor,
       workerVars
  <2>2. \/ at' = at
        \/ \E r \in Roles : at[r] = "none" /\ at' = [at EXCEPT ![r] = "starting"]
    BY <1>0, <1>2 DEF SupervisorStep, SupervisorNext, TryNext, FinallyNext, Launch,
       SeesReady, Raises, StartupFails, PollAlive, LookOn, TimesOut,
       SeesExhausted, PlantLeft, ControllerEnds, ControllerFails, Settled,
       Request, Waited, SendInterrupt, Kill, WriteResult, SignalSupervisor,
       workerVars, lifeVars, Unstarted, Moves
  <2>3. CASE at' = at
    BY <1>0, <2>1, <2>3, RestKeepsCycle DEF Takes
  <2>4. ASSUME NEW r \in Roles, at[r] = "none", at' = [at EXCEPT ![r] = "starting"]
        PROVE  CInv' /\ cycleNext
    BY <1>0, <2>1, <2>4, RestKeepsCycle DEF Takes, InTry
  <2> QED  BY <2>2, <2>3, <2>4
<1> QED  BY <1>1, <1>2

\* The invariant holds at the start, and no step breaks it or the cycle.
LEMMA RunCycleInit == Init => CInv /\ Cycle!Init
BY DEF Init, WorkerInit, Cycle!Init, Outstanding, Takes, InTry, CInv, NothingSent,
   OneOutstanding, AnswersDecide, WaitsForIt, Checked, Roles

LEMMA RunCycleStep ==
  ASSUME SInv, CInv, [Next]_vars
  PROVE  CInv' /\ cycleNext
<1>1. WorkerTypeOK /\ HandHeld
  BY DEF SInv, RunTypeOK
<1>2. CASE UNCHANGED vars
  BY <1>1, <1>2, RestKeepsCycle DEF vars, workerVars, lifeVars, Takes
<1>3. CASE WorkerNext
  BY <1>1, <1>3, LivesKeepsCycle, EndsKeepsCycle, InterruptKeepsCycle,
     ControllerSpinsKeepsCycle, PlantSpinsKeepsCycle DEF WorkerNext, Working
<1>4. CASE SupervisorStep
  BY <1>4, SupervisorKeepsCycle
<1> QED  BY <1>2, <1>3, <1>4 DEF Next, SupervisorStep

\* One command at most is outstanding at a plant that takes commands, and the
\* controller waits for it until it is active or rejected.
THEOREM CInvHolds == Spec => []CInv
BY RunCycleInit, RunCycleStep, SInvHolds, PTL DEF Spec

\* The run keeps the control cycle, whatever is lost and however its workers end.
THEOREM RunKeepsCycle == Spec => ImplementsCycle
BY RunCycleInit, RunCycleStep, CInvHolds, SInvHolds, PTL
DEF Spec, ImplementsCycle, Cycle!Spec, cycleNext

=============================================================================
