----------------------------- MODULE TrackingRun -----------------------------
(***************************************************************************)
(* The tracking controller, started anew for each run: TrackingRun with the  *)
(* node around it, and the writer that replaces the three files of a report  *)
(* in the background.                                                       *)
(***************************************************************************)
EXTENDS OscbfPlant

CONSTANT
  MaxRuns  \* bound: how often the controller is started

ASSUME RunsAssumption == MaxRuns \in Nat

VARIABLES
  run,          \* which start of the controller this is
  state,        \* execution_state, or how the process ended
  begun,        \* there is an evaluator: a control step was taken
  termination,  \* what ended the run
  report,       \* status of the background writer
  writing,      \* the files it has yet to replace
  disk          \* the run each file on disk is of; 0 is none

reporting == <<report, writing, disk>>
tracking == <<run, state, begun, termination, reporting>>

Files == {"samples", "report", "summary"}
Up == state \in {"waiting", "tracking", "holding", "closed"}

TrackingTypeOK ==
  /\ run \in 0 .. MaxRuns
  /\ state \in {"down", "crashed", "waiting", "tracking", "holding", "closed"}
  /\ begun \in BOOLEAN
  /\ termination \in {"none", "held", "completed", "interrupted"}
  /\ report \in {"idle", "writing", "saved", "failed"}
  /\ writing \in SUBSET Files
  /\ disk \in [Files -> 0 .. MaxRuns]

TrackingInit ==
  /\ run = 0
  /\ state = "down"
  /\ begun = FALSE
  /\ termination = "none"
  /\ report = "idle"
  /\ writing = {}
  /\ disk = [f \in Files |-> 0]

\* wait_for_start: the node waits for the service.
Launch ==
  /\ ~Up /\ run < MaxRuns
  /\ run' = run + 1
  /\ state' = "waiting"
  /\ begun' = FALSE
  /\ termination' = "none"
  /\ report' = "idle"
  /\ writing' = {}
  /\ UNCHANGED disk

\* start: TRACKING_STARTED once, then ALREADY_TRACKING or TRACKING_CLOSED.
Start ==
  /\ Up
  /\ state' = IF state = "waiting" THEN "tracking" ELSE state
  /\ UNCHANGED <<run, begun, termination, reporting>>

\* finish: the first reason stays, and a run that was sampled is reported.
Finish(reason) ==
  IF termination # "none" THEN UNCHANGED <<termination, report, writing>>
  ELSE /\ termination' = reason
       /\ IF begun THEN report' = "writing" /\ writing' = Files
          ELSE UNCHANGED <<report, writing>>

\* tick, with the state it consumes: a command, or one that is discarded.
Step ==
  /\ state = "tracking"
  /\ begun' = TRUE
  /\ \/ Publish(0)
     \/ UNCHANGED inbox
  /\ UNCHANGED <<run, state, termination, reporting, stands, heads, moved>>

\* A stall, or the end of the path, that lasted since an earlier step.
Hold(reason) ==
  /\ state = "tracking" /\ begun
  /\ state' = "holding"
  /\ Publish(0)
  /\ Finish(reason)
  /\ UNCHANGED <<run, begun, disk, stands, heads, moved>>

HoldAgain ==
  /\ state = "holding"
  /\ Publish(0)
  /\ UNCHANGED <<tracking, stands, heads, moved>>

\* destroy_node: Ctrl+C, or an exception in a callback.
Close ==
  /\ Up /\ state # "closed"
  /\ state' = "closed"
  /\ Finish("interrupted")
  /\ UNCHANGED <<run, begun, disk>>

\* TrackingReportWriter.close waits for the report.
Exit ==
  /\ state = "closed" /\ report # "writing"
  /\ state' = "down"
  /\ UNCHANGED <<run, begun, termination, reporting>>

Crash ==
  /\ Up
  /\ state' = "crashed"
  /\ UNCHANGED <<run, begun, termination, reporting>>

\* write_tracking_bundle: one file after the other, the summary last.
ReportLast(f) ==  \* mutant: the summary goes before the report
  [samples |-> {}, summary |-> {"samples"}, report |-> {"samples", "summary"}][f]
Before(f) ==
  [samples |-> {}, report |-> {"samples"}, summary |-> {"samples", "report"}][f]

ReplaceFile(f) ==
  /\ Up /\ report = "writing"
  /\ f \in writing
  /\ Before(f) \cap writing = {}
  /\ disk' = [disk EXCEPT ![f] = run]
  /\ writing' = writing \ {f}
  /\ report' = IF writing = {f} THEN "saved" ELSE "writing"
  /\ UNCHANGED <<run, state, begun, termination>>

\* Rendering fails, or the file system.
WriteFails ==
  /\ Up /\ report = "writing"
  /\ report' = "failed"
  /\ UNCHANGED <<run, state, begun, termination, writing, disk>>
=============================================================================
