---------------------------- MODULE StaticWorker ----------------------------
(***************************************************************************)
(* The worker processes of a run: _worker around a node, callback by       *)
(* callback, the records each callback appends, and the way a worker ends. *)
(* What the nodes compute is the subject of StaticLoop; here a command is a*)
(* number, a certificate accepts or does not, and a motion lasts as long as*)
(* it likes.  A command or an answer nobody takes is one that was lost.    *)
(***************************************************************************)
EXTENDS StaticRecorder

CONSTANT
  MaxCommands  \* bound: the controller sends no more

ASSUME MaxCommandsAssumption == MaxCommands \in Nat

Ids == 1 .. MaxCommands

VARIABLES
  at,         \* where each worker is
  reason,     \* stop_reason
  raising,    \* the workers that end with an exception
  exit,       \* how they ended
  ready,      \* the <role>.ready files
  result,     \* the <role>_result.json files
  stop,       \* the stop file
  signalled,  \* the workers with a SIGINT not yet delivered
  execution,  \* controller: _execution_state
  termination,\* controller: _termination
  sequence,   \* controller: _sequence
  open,       \* controller: the keys of _cycle_started
  waiting,    \* controller: _waiting_id, 0 for None
  calculating,\* controller: _calculation
  faulted,    \* controller: recovery.phase is FAULT
  owed,       \* history: the cycles begun and not recorded
  inHand,     \* plant: the command _on_command handles, 0 for none
  checking,   \* plant: _pending_check, 0 for None
  queued,     \* plant: schedule.pending, 0 for None
  active,     \* plant: the active motion, as the last snapshot shows it
  moving,     \* plant: velocity or acceleration is not zero
  commands,   \* COMMAND_TOPIC
  answers,    \* ADMISSION_TOPIC: <<command, accepted>>
  received,   \* history: the received_command records
  answered    \* history: the number of admission records of each command

lifeVars == <<at, reason, raising, exit, ready, result, stop, signalled>>
controllerVars == <<execution, termination, sequence, open, waiting,
                    calculating, faulted, owed>>
plantVars == <<inHand, checking, queued, active, moving>>
topicVars == <<commands, answers>>
historyVars == <<received, answered>>
nodeVars == <<controllerVars, plantVars, topicVars, historyVars>>
workerVars == <<recorderVars, lifeVars, nodeVars>>

InTry == {"checks", "spin", "received", "answered"}
Places == InTry \cup {"none", "starting", "finish", "terminal", "close", "gone"}
Terminations == {"none", "completed", "pause_timeout"}

LifeTypeOK ==
  /\ at \in [Roles -> Places]
  /\ reason \in [Roles -> {"none", "budget_exhausted", "interrupted", "fault"}]
  /\ raising \in SUBSET Roles
  /\ exit \in [Roles -> {"none", "clean", "error", "killed"}]
  /\ ready \in SUBSET Roles
  /\ result \in [Roles -> Terminations \cup {"budget_exhausted"}]
  /\ signalled \in SUBSET Roles

ControllerTypeOK ==
  /\ execution \in {"tracking", "holding"}
  /\ termination \in Terminations
  /\ sequence \in 0 .. MaxCommands
  /\ open \in SUBSET Ids
  /\ waiting \in 0 .. MaxCommands
  /\ owed \in Int

PlantTypeOK ==
  /\ inHand \in 0 .. MaxCommands
  /\ checking \in 0 .. MaxCommands
  /\ queued \in 0 .. MaxCommands
  /\ active \in 0 .. MaxCommands

TopicTypeOK ==
  /\ commands \in SUBSET Ids
  /\ answers \in SUBSET (Ids \X BOOLEAN)
  /\ received \in SUBSET Ids
  /\ answered \in [Ids -> Nat]

FlagTypeOK ==
  /\ stop \in BOOLEAN
  /\ calculating \in BOOLEAN
  /\ faulted \in BOOLEAN
  /\ moving \in BOOLEAN

WorkerTypeOK ==
  /\ RecorderTypeOK
  /\ LifeTypeOK
  /\ ControllerTypeOK
  /\ PlantTypeOK
  /\ TopicTypeOK
  /\ FlagTypeOK

WorkerInit ==
  /\ RecorderInit
  /\ at = [r \in Roles |-> "none"]
  /\ reason = [r \in Roles |-> "none"]
  /\ raising = {}
  /\ exit = [r \in Roles |-> "none"]
  /\ ready = {}
  /\ result = [r \in Roles |-> "none"]
  /\ stop = FALSE
  /\ signalled = {}
  /\ execution = "tracking"
  /\ termination = "none"
  /\ sequence = 0
  /\ open = {}
  /\ waiting = 0
  /\ calculating = FALSE
  /\ faulted = FALSE
  /\ owed = 0
  /\ inHand = 0
  /\ checking = 0
  /\ queued = 0
  /\ active = 0
  /\ moving = FALSE
  /\ commands = {}
  /\ answers = {}
  /\ received = {}
  /\ answered = [m \in Ids |-> 0]

Alive(r) == at[r] \notin {"none", "gone"}
Goes(r, from, to) == at[r] = from /\ at' = [at EXCEPT ![r] = to]

\* The end of a process: what it kept in memory is gone, and so is a signal on
\* its way.  Files, messages, the last snapshot among them, and histories stay.
Dies(r, how) ==
  /\ at' = [at EXCEPT ![r] = "gone"]
  /\ exit' = [exit EXCEPT ![r] = how]
  /\ reason' = [reason EXCEPT ![r] = "none"]
  /\ raising' = raising \ {r}
  /\ signalled' = signalled \ {r}
  /\ written' = [written EXCEPT ![r] = Nothing]
  /\ IF r = "controller"
     THEN /\ execution' = "tracking"
          /\ termination' = "none"
          /\ open' = {}
          /\ waiting' = 0
          /\ calculating' = FALSE
          /\ faulted' = FALSE
          /\ UNCHANGED <<sequence, owed, plantVars>>
     ELSE /\ inHand' = 0
          /\ checking' = 0
          /\ queued' = 0
          /\ moving' = FALSE
          /\ UNCHANGED <<active, controllerVars>>
  /\ UNCHANGED <<topicVars, historyVars>>

-----------------------------------------------------------------------------
(* The loop of a worker *)

\* The database is opened, the node made, the ready file renamed into place.
Build(r) ==
  /\ Goes(r, "starting", "checks")
  /\ Admitted(r, 0, Nothing)
  /\ ready' = ready \cup {r}
  /\ UNCHANGED <<reason, raising, exit, result, stop, signalled, nodeVars>>

\* A failure before there is a handler, and one of the node.
StartFails(r) ==
  /\ at[r] = "starting"
  /\ Dies(r, "error")
  /\ UNCHANGED <<full, ready, result, stop>>

NodeFails(r) ==
  /\ Goes(r, "starting", "finish")
  /\ reason' = [reason EXCEPT ![r] = "fault"]
  /\ raising' = raising \cup {r}
  /\ UNCHANGED <<recorderVars, exit, ready, result, stop, signalled, nodeVars>>

\* The checks after a callback and before the next: the recorder's, for no
\* cycle, then the budget's, for those begun.
Pending(r) == IF r = "controller" THEN Cardinality(open) ELSE 0

\* In between, a controller that holds reports why, as soon as every cycle it
\* began is recorded.
HoldsAtOnce(r) ==  \* mutant: open cycles are not awaited
  r = "controller" /\ execution = "holding"
Holding(r) == r = "controller" /\ execution = "holding" /\ open = {}

\* The plant does not stop while it moves or owes an answer.
Stopped == queued = 0 /\ checking = 0 /\ ~moving
MayStop(r) == stop /\ (r = "plant" => Stopped)

Report(r) ==
  /\ Goes(r, "checks", "finish")
  /\ Admitted(r, 0, Nothing)
  /\ Holding(r)
  /\ result' = [result EXCEPT ![r] = termination]
  /\ UNCHANGED <<reason, raising, exit, ready, stop, signalled, nodeVars>>

Loop(r) ==
  /\ Goes(r, "checks", IF MayStop(r) THEN "finish" ELSE "spin")
  /\ Admitted(r, Pending(r), Nothing)
  /\ ~Holding(r)
  /\ UNCHANGED <<reason, raising, exit, ready, result, stop, signalled,
                 nodeVars>>

\* spin_once with nothing to do.
Idle(r) ==
  /\ Goes(r, "spin", "checks")
  /\ UNCHANGED <<recorderVars, reason, raising, exit, ready, result, stop,
                 signalled, nodeVars>>

\* RecordingBudgetExhausted is reported, and the loop ends.
Exhausts(r, from) ==
  /\ Goes(r, from, "finish")
  /\ reason' = [reason EXCEPT ![r] = "budget_exhausted"]
  /\ result' = [result EXCEPT ![r] = "budget_exhausted"]
  /\ UNCHANGED <<raising, exit, ready, stop, signalled>>

CheckRefused(r) ==
  /\ \/ Exhausts(r, "starting") /\ Refused(r, 0)
     \/ Exhausts(r, "checks") /\ Refused(r, Pending(r))
  /\ UNCHANGED nodeVars

\* Any other exception: feedback or an answer is overdue, a message is wrong.
Fail(r) ==
  /\ Goes(r, "spin", "finish")
  /\ reason' = [reason EXCEPT ![r] = "fault"]
  /\ raising' = raising \cup {r}
  /\ UNCHANGED <<recorderVars, exit, ready, result, stop, signalled, nodeVars>>

-----------------------------------------------------------------------------
(* finish_worker_recording *)

Transition == IF faulted THEN Nothing ELSE Some({"transition"})

\* What is recorded of the outcome of a calculation that a closing controller
\* finds: an error, perhaps of a kind with a record of its own, or a candidate,
\* which is rejected.
Outcome(found, failure, moved) ==
  {s \in Streams :
     \/ s = "cycle" /\ found # "none"
     \/ s = "failure" /\ found = "error" /\ failure
     \/ s \in {"candidate", "rejection"} /\ found = "candidate"
     \/ s = "transition" /\ found # "none" /\ moved /\ ~faulted}

\* The controller waits for its calculation, whose outcome is recorded with the
\* cycle, then every open cycle, then the fault, if there is one.
FinishControllerWith(found, failure, moved) ==
  LET cycles == [Nothing EXCEPT !["cycle"] = Cardinality(open)]
      faults == reason["controller"] # "none" \/ found = "error"
  IN /\ Append("controller",
               With(With(Some(Outcome(found, failure, moved)), cycles),
                    IF faults THEN Transition ELSE Nothing))
     /\ faulted' = (faulted \/ faults)
     /\ raising' = IF found = "error" THEN raising \cup {"controller"}
                   ELSE raising
     /\ owed' = owed - Cardinality(open) - IF calculating THEN 1 ELSE 0
     /\ open' = {}
     /\ calculating' = FALSE
     /\ UNCHANGED <<execution, termination, sequence, waiting, plantVars,
                    topicVars, historyVars>>

FinishController ==
  \E found \in IF calculating THEN {"error", "candidate"} ELSE {"none"},
     failure, moved \in BOOLEAN : FinishControllerWith(found, failure, moved)

\* The plant waits for its certificate and answers the command.
FinishPlant ==
  IF checking = 0 THEN UNCHANGED <<written, raising, nodeVars>>
  ELSE \E fails \in BOOLEAN :
    /\ Append("plant", Some({"admission"}))
    /\ answers' = answers \cup {<<checking, FALSE>>}
    /\ answered' = [answered EXCEPT ![checking] = @ + 1]
    /\ checking' = 0
    /\ raising' = IF fails THEN raising \cup {"plant"} ELSE raising
    /\ UNCHANGED <<controllerVars, inHand, queued, active, moving,
                   commands, received>>

Finish(r) ==
  /\ Goes(r, "finish", "terminal")
  /\ IF r \notin ready THEN UNCHANGED <<written, raising, nodeVars>>
     ELSE IF r = "controller" THEN FinishController ELSE FinishPlant
  /\ UNCHANGED <<full, reason, exit, ready, result, stop, signalled>>

\* write_statistics may find that its file is too large.
Statistics(r) ==
  \/ UNCHANGED raising
  \/ raising' = raising \cup {r}

\* check_terminal_capacity, the event, the statistics.  A refusal is reported,
\* over what the worker may have reported before, and recorded as a fault, with
\* the move of a calculation that an interrupted end has left behind.
Terminal(r) ==
  /\ Goes(r, "terminal", "close")
  /\ Admitted(r, 0, Some({"event"}))
  /\ Statistics(r)
  /\ UNCHANGED <<reason, exit, ready, result, stop, signalled, nodeVars>>

ExhaustedTerminal(r) ==
  /\ Goes(r, "terminal", "close")
  /\ full' = full \cup {r}
  /\ IF r = "controller" /\ r \in ready
     THEN /\ \E moved \in BOOLEAN :
               /\ moved => calculating
               /\ Append(r, With(With(Some({"event"}), Transition),
                                 IF moved THEN Transition ELSE Nothing))
          /\ faulted' = TRUE
     ELSE Append(r, Some({"event"})) /\ UNCHANGED faulted
  /\ result' = [result EXCEPT ![r] = "budget_exhausted"]
  /\ Statistics(r)
  /\ UNCHANGED <<reason, exit, ready, stop, signalled, execution, termination,
                 sequence, open, waiting, calculating, owed, plantVars,
                 topicVars, historyVars>>

\* The checkpoint, and the end of the process.
Close(r) ==
  /\ at[r] = "close"
  /\ Dies(r, IF r \in raising THEN "error" ELSE "clean")
  /\ UNCHANGED <<full, ready, result, stop>>

\* A SIGINT is delivered.  The loop ends and the exception is swallowed;
\* anywhere else it goes on, and finish_recording is not repeated: what it has
\* not recorded yet is lost.
Interrupt(r) ==
  /\ r \in signalled
  /\ \/ /\ at[r] \in InTry
        /\ at' = [at EXCEPT ![r] = "finish"]
        /\ reason' = [reason EXCEPT ![r] = "interrupted"]
        /\ signalled' = signalled \ {r}
        /\ UNCHANGED <<recorderVars, raising, exit, nodeVars>>
     \/ /\ at[r] \in {"finish", "terminal", "close"}
        /\ at' = [at EXCEPT ![r] = IF @ = "finish" THEN "terminal" ELSE "close"]
        /\ raising' = raising \cup {r}
        /\ signalled' = signalled \ {r}
        /\ UNCHANGED <<recorderVars, reason, exit, nodeVars>>
     \/ /\ at[r] = "starting"
        /\ Dies(r, "error")
        /\ UNCHANGED full
  /\ UNCHANGED <<ready, result, stop>>

Ends(r) ==
  \/ Finish(r)
  \/ Terminal(r) \/ ExhaustedTerminal(r)
  \/ Close(r)

Lives(r) ==
  \/ Build(r) \/ StartFails(r) \/ NodeFails(r)
  \/ Report(r) \/ Loop(r) \/ Idle(r)
  \/ CheckRefused(r)
  \/ Fail(r)

=============================================================================
