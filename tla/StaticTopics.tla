---------------------------- MODULE StaticTopics ----------------------------
(***************************************************************************)
(* What the controller and the plant of the static experiment exchange:    *)
(* motions, answers and snapshots, over three best-effort topics.  Module  *)
(* StaticPlant says how the plant uses them, StaticController the          *)
(* controller.                                                             *)
(*                                                                         *)
(* Time is the plant's integration step of 2 ms.  A motion is one control  *)
(* period of tracking followed by a stop.  Its joint values are not        *)
(* computed: the state of a motion is a name for it, <<id, steps since its *)
(* start>>, and two names are never taken for the same joint state.        *)
(***************************************************************************)
EXTENDS Integers, FiniteSets

CONSTANTS
  MaxStep,    \* bound: the plant integrates no further
  Ticks,      \* steps in a control period
  StopTicks,  \* steps in the stop at the end of a motion
  Length,     \* the length of the path
  MaxFeed,    \* the greatest feed of the path profile, per step
  Lossy,      \* may a message be lost?
  NoMotion,   \* None, for a motion
  NoSample    \* None, for a snapshot

ASSUME TopicsAssumption ==
  /\ MaxStep \in Nat
  /\ Ticks \in Nat \ {0}
  /\ StopTicks \in Nat
  /\ Length \in Nat
  /\ MaxFeed \in Nat
  /\ Lossy \in BOOLEAN

\* A name for a joint state: position, velocity and acceleration.
States == Nat \X Nat

\* ScheduledMotion: "from" is reference_start_m, "initial" motion.initial.
Motions == [id : Nat, start : Nat, initial : States, from : Nat, feed : Nat]

ASSUME NoneAssumption == NoMotion \notin Motions

\* state_at_step: before its start a motion is in its initial state, and after
\* the stop it stays where it is.
StateAt(m, s) ==
  IF s <= m.start THEN m.initial
  ELSE <<m.id, IF s - m.start < Ticks + StopTicks
               THEN s - m.start ELSE Ticks + StopTicks>>

\* reference_at_step: the reference moves during the control period only.
EarlySteps(m, s) ==  \* mutant: the reference moves one step ahead
  IF s < m.start THEN 0
  ELSE IF s - m.start < Ticks THEN s - m.start + 1 ELSE Ticks
EffectiveSteps(m, s) ==
  IF s <= m.start THEN 0
  ELSE IF s - m.start < Ticks THEN s - m.start ELSE Ticks
ReferenceAt(m, s) == m.from + m.feed * EffectiveSteps(m, s)

\* The first motion of the plant stays at the initial state.
FirstMotion ==
  [id |-> 0, start |-> 0, initial |-> <<0, 0>>, from |-> 0, feed |-> 0]

Reasons == {"accepted", "admission_busy", "path_interval", "repeated_command",
            "uncertified", "late_command", "pending_command",
            "state_mismatch", "reference_mismatch"}
Answers == [id : Nat, reason : Reasons, step : Nat]
Snapshots == [step : Nat, active : Motions, pending : Nat]  \* 0: none pending

ASSUME NoSampleAssumption == NoSample \notin Snapshots

VARIABLES
  commands,    \* COMMAND_TOPIC: commands on their way to the plant
  admissions,  \* ADMISSION_TOPIC: answers on their way to the controller
  sample       \* STATE_TOPIC, of depth 1: the snapshot not yet received

topics == <<commands, admissions, sample>>

TopicsTypeOK ==
  /\ commands \in SUBSET Motions
  /\ admissions \in SUBSET Answers
  /\ sample \in Snapshots \cup {NoSample}

TopicsInit ==
  /\ commands = {}
  /\ admissions = {}
  /\ sample = NoSample

\* Best effort: a message is dropped, by the network or by a full queue.
Lose ==
  /\ Lossy
  /\ \/ /\ \E c \in commands : commands' = commands \ {c}
        /\ UNCHANGED <<admissions, sample>>
     \/ /\ \E a \in admissions : admissions' = admissions \ {a}
        /\ UNCHANGED <<commands, sample>>
     \/ /\ sample # NoSample
        /\ sample' = NoSample
        /\ UNCHANGED <<commands, admissions>>

=============================================================================
