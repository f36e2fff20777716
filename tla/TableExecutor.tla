---------------------------- MODULE TableExecutor ----------------------------
(***************************************************************************)
(* JointTableExecutor, which decides from complete readings where the arm   *)
(* is in its table, and PositioningOperator, which reads the terminal.      *)
(* For a single joint the executor stands for SingleJointMonitor.           *)
(***************************************************************************)
EXTENDS DriveLink

CONSTANT
  MaxTyped  \* bound: the lines that wait to be read

ASSUME TerminalAssumption == MaxTyped \in Nat

VARIABLES
  phase,
  index,      \* the row of the table
  settled,    \* settled_since_s is set
  returning,  \* return_to_zero_attempt is set
  report,     \* termination["stop_result"]
  typed,      \* the lines that wait, each with the prompt it was typed after
  prompted,   \* prompt_identity
  started,    \* first_started
  immediate   \* start_immediately: a session without a table starts by itself

position == <<phase, index, settled, returning>>
executor == <<position, report>>
terminal == <<typed, prompted, started, immediate>>

Stopped == {"ready", "holding_position", "holding_zero"}
Phases == Stopped \cup {"initializing", "moving", "awaiting_measurement",
                        "positioning_completed", "completed", "aborted"}
Reports == {"none", "no_motion_command_attempted", "hold_observed",
            "external_stop_required", "all_joint_feedback_stationary"}
Keys == {"enter", "r", "q", "other"}
Prompts == {<<>>} \cup (Stopped \X (1 .. Rows))

ExecutorTypeOK ==
  /\ phase \in Phases
  /\ index \in 1 .. Rows
  /\ settled \in BOOLEAN
  /\ returning \in BOOLEAN
  /\ report \in Reports
  /\ typed \in SUBSET (Keys \X Prompts)
  /\ prompted \in Prompts
  /\ started \in BOOLEAN
  /\ immediate \in BOOLEAN

ExecutorInit ==
  /\ phase = "initializing" /\ index = 1
  /\ settled = FALSE /\ returning = FALSE
  /\ report = "none"
  /\ typed = {} /\ prompted = <<>> /\ started = FALSE /\ immediate = FALSE

\* Nothing of it is looked at any more.
Leave(as) ==
  /\ phase' = as /\ index' = 1
  /\ settled' = FALSE /\ returning' = FALSE
  /\ typed' = {} /\ prompted' = <<>> /\ started' = FALSE /\ immediate' = FALSE

-----------------------------------------------------------------------------
(* JointTableExecutor *)

Stationary(group) == \A j \in group : seen[j] >= 1

\* settle_s has passed since settled_since_s, which took at least one more
\* reading; a single joint may start at the first.
Arrived(mode) ==
  phase' = IF phase = "initializing" THEN "ready"
           ELSE IF phase # "moving" THEN phase
           ELSE IF mode = "single" THEN "completed"
           ELSE IF mode = "commissioning" THEN "awaiting_measurement"
           ELSE IF returning THEN "holding_zero" ELSE "holding_position"

Observe(group, mode) ==
  /\ \/ /\ ~Stationary(group)
        /\ phase \notin Stopped \cup {"awaiting_measurement"}
        /\ settled' = FALSE
        /\ UNCHANGED phase
     \/ /\ Stationary(group)
        /\ settled' = TRUE
        /\ \/ UNCHANGED phase
           \/ settled /\ Arrived(mode)
           \/ mode = "single" /\ phase = "initializing" /\ Arrived(mode)
  /\ UNCHANGED <<index, returning, report>>

LeavesTheRest == settled' = settled  \* mutant: the rest before still counts
StartsOver == settled' = FALSE

\* _begin_motion
BeginMotion(row, zero) ==
  /\ phase' = "moving"
  /\ StartsOver
  /\ index' = row
  /\ returning' = zero
  /\ UNCHANGED report

Target == IF returning THEN Zero ELSE Row(index)

-----------------------------------------------------------------------------
(* PositioningOperator *)

Asked == <<phase, index>>

Type(key) ==
  /\ Cardinality(typed) < MaxTyped
  /\ typed' = typed \cup {<<key, prompted>>}
  /\ UNCHANGED <<prompted, started, immediate>>

Automatic == phase = "ready" /\ immediate /\ ~started
Prompting ==
  phase \in Stopped /\ ~Automatic /\ prompted # Asked

\* _begin_prompt drops what was typed before it, but for q and what is invalid.
Everything == {l[1] : l \in typed}  \* mutant: nothing is dropped
Commands ==
  {l[1] : l \in typed} \ IF Prompting THEN {"enter", "r"} ELSE {}

Reads ==
  /\ typed' = {}
  /\ prompted' = IF Prompting THEN Asked ELSE prompted
  /\ UNCHANGED immediate

Obeys ==
  /\ Commands \cap {"q", "other"} = {}
  /\ Reads

\* step: q when the arm stands.
FinishPositioning ==
  /\ "q" \in Commands /\ "other" \notin Commands
  /\ phase \in Stopped
  /\ phase' = "completed"
  /\ report' = "all_joint_feedback_stationary"
  /\ Reads
  /\ UNCHANGED <<index, settled, returning, started>>

\* q while it moves is an interrupt, and what is neither Enter, r nor q an error.
Refuses ==
  \/ "other" \in Commands
  \/ "q" \in Commands /\ phase \notin Stopped

StartItself ==
  /\ Automatic
  /\ Obeys
  /\ started' = TRUE
  /\ BeginMotion(index, FALSE)

ReturnToZero ==
  /\ ~Automatic /\ Obeys
  /\ "r" \in Commands
  /\ phase \in {"ready", "holding_position"}
  /\ BeginMotion(index, TRUE)
  /\ UNCHANGED started

StartsBeyond ==  \* mutant: Enter after the last row
  /\ ~Automatic /\ Obeys
  /\ "enter" \in Commands /\ "r" \notin Commands
  /\ \/ phase = "ready" /\ BeginMotion(index, FALSE)
     \/ phase = "holding_position" /\ BeginMotion(index + 1, FALSE)
  /\ started' = TRUE
StartGroup ==
  /\ ~Automatic /\ Obeys
  /\ "enter" \in Commands /\ "r" \notin Commands
  /\ \/ phase = "ready" /\ BeginMotion(index, FALSE)
     \/ /\ phase = "holding_position" /\ index < Rows
        /\ BeginMotion(index + 1, FALSE)
  /\ started' = TRUE

StayPut ==
  /\ ~Automatic /\ Obeys
  /\ phase \in {"ready", "holding_position"} =>
       /\ "r" \notin Commands
       /\ "enter" \in Commands =>
            phase = "holding_position" /\ index = Rows
  /\ UNCHANGED <<executor, started>>
=============================================================================
