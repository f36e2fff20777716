----------------------------- MODULE StaticCycle -----------------------------
(***************************************************************************)
(* The control cycle that controller and plant of the static experiment    *)
(* promise each other.  A cycle is begun, calculates, and ends without a   *)
(* command or sends one.  One command at a time is on its way to the       *)
(* plant, checked there or waiting for its start, and no other cycle is    *)
(* begun meanwhile: the controller sees the plant through old snapshots    *)
(* and lost answers only, the promise is about the plant itself.  Every    *)
(* cycle gets one record, one with a command not before the command is     *)
(* decided, or lost.                                                       *)
(***************************************************************************)
EXTENDS Integers, FiniteSets

CONSTANT Fallible  \* may a process lose what it has in memory?

VARIABLES
  sent,         \* the commands sent; the last of them has this number
  stage,        \* where that one is, "over" when nothing will come of it any more
  active,       \* the command the plant executed last, 0 before the first
  calculating,  \* is a cycle being calculated?
  open,         \* the commands whose cycle has no record yet
  owed,         \* how many cycles have no record yet
  takes         \* does the plant take commands?

cycleVars == <<sent, stage, active, calculating, open, owed, takes>>

Init ==
  /\ sent = 0
  /\ stage = "over"
  /\ active = 0
  /\ calculating = FALSE
  /\ open = {}
  /\ owed = 0
  /\ takes = TRUE

Begin ==
  /\ ~calculating
  /\ stage = "over"
  /\ calculating' = TRUE
  /\ owed' = owed + 1
  /\ UNCHANGED <<sent, stage, active, open, takes>>

\* The cycle ends without a command.
Discard ==
  /\ calculating
  /\ calculating' = FALSE
  /\ owed' = owed - 1
  /\ UNCHANGED <<sent, stage, active, open, takes>>

Send ==
  /\ calculating
  /\ stage = "over"
  /\ calculating' = FALSE
  /\ sent' = sent + 1
  /\ stage' = IF takes THEN "sent" ELSE "over"
  /\ open' = open \cup {sent'}
  /\ UNCHANGED <<active, owed, takes>>

\* The plant takes the command, and may accept it.
Take ==
  /\ stage = "sent"
  /\ stage' = "taken"
  /\ UNCHANGED <<sent, active, calculating, open, owed, takes>>

Accept ==
  /\ stage = "taken"
  /\ stage' = "accepted"
  /\ UNCHANGED <<sent, active, calculating, open, owed, takes>>

\* It is lost, or refused.
Vanish ==
  /\ stage \in {"sent", "taken"}
  /\ stage' = "over"
  /\ UNCHANGED <<sent, active, calculating, open, owed, takes>>

\* The accepted motion is due, at the earliest when it is accepted.
Start ==
  /\ stage \in {"taken", "accepted"}
  /\ active' = sent
  /\ stage' = "over"
  /\ UNCHANGED <<sent, calculating, open, owed, takes>>

\* An answer has come, and the cycle is recorded.
Record(m) ==
  /\ m \in open
  /\ m = sent => stage \in {"accepted", "over"}
  /\ open' = open \ {m}
  /\ owed' = owed - 1
  /\ UNCHANGED <<sent, stage, active, calculating, takes>>

\* The recording is finished: every cycle is recorded.
Finish ==
  /\ open' = {}
  /\ calculating' = FALSE
  /\ owed' = owed - Cardinality(open) - IF calculating THEN 1 ELSE 0
  /\ UNCHANGED <<sent, stage, active, takes>>

\* The controller is killed, or interrupted in the middle of a callback.
Forget ==
  /\ Fallible
  /\ open' \subseteq open
  /\ calculating' => calculating
  /\ UNCHANGED <<sent, stage, active, owed, takes>>

\* The plant ends, or is killed.
PlantEnds ==
  /\ Fallible
  /\ takes' = FALSE
  /\ stage' = "over"
  /\ UNCHANGED <<sent, active, calculating, open, owed>>

Next ==
  \/ Begin \/ Discard \/ Send
  \/ Take \/ Accept \/ Vanish \/ Start
  \/ \E m \in open : Record(m)
  \/ Finish
  \/ Forget \/ PlantEnds

Spec == Init /\ [][Next]_cycleVars

=============================================================================
