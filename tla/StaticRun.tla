------------------------------ MODULE StaticRun ------------------------------
(***************************************************************************)
(* run_experiment: a supervisor starts the controller and the plant, waits *)
(* for the end of the run, stops both and writes result.json.              *)
(***************************************************************************)
EXTENDS StaticCallbacks

CONSTANT
  MaxSignals  \* bound: the SIGINTs the supervisor gets from outside

ASSUME MaxSignalsAssumption == MaxSignals \in Nat

VARIABLES
  sup,      \* where the supervisor is
  outcome,  \* outcome["termination"]
  known,    \* the keys of processes
  stopping, \* the processes _stop_processes has not waited for yet
  codes,    \* outcome["worker_exit_codes"]
  filed,    \* result.json is written
  signals   \* the SIGINTs from outside so far

supervisorVars == <<sup, outcome, known, stopping, codes, filed, signals>>
vars == <<workerVars, supervisorVars>>

Supervising == {"launch_controller", "await_controller", "launch_plant",
                "await_plant", "poll", "look", "settle"}
Cleaning == {"request", "wait", "interrupted"}
Outcomes == Terminations \cup {"interrupted", "fault", "timeout",
                               "budget_exhausted"}

RunTypeOK ==
  /\ WorkerTypeOK
  /\ sup \in Supervising \cup Cleaning \cup {"ended"}
  /\ outcome \in Outcomes
  /\ known \in SUBSET Roles
  /\ stopping \in SUBSET Roles
  /\ codes \in SUBSET (Roles \X {"clean", "error", "killed"})
  /\ filed \in BOOLEAN
  /\ signals \in 0 .. MaxSignals

Init ==
  /\ WorkerInit
  /\ sup = "launch_controller"
  /\ outcome = "interrupted"
  /\ known = {}
  /\ stopping = {}
  /\ codes = {}
  /\ filed = FALSE
  /\ signals = 0

Moves(from, to) == sup = from /\ sup' = to
Gone(r) == at[r] = "gone"

-----------------------------------------------------------------------------
(* The try block *)

\* Popen, and the entry in processes.
Launch(r) ==
  /\ Moves(IF r = "controller" THEN "launch_controller" ELSE "launch_plant",
           IF r = "controller" THEN "await_controller" ELSE "await_plant")
  /\ at' = [at EXCEPT ![r] = "starting"]
  /\ known' = known \cup {r}
  /\ UNCHANGED <<recorderVars, reason, raising, exit, ready, result, stop,
                 signalled, nodeVars, outcome, stopping, codes, filed, signals>>

SeesReady(r) ==
  /\ Moves(IF r = "controller" THEN "await_controller" ELSE "await_plant",
           IF r = "controller" THEN "launch_plant" ELSE "poll")
  /\ r \in ready
  /\ UNCHANGED <<workerVars, outcome, known, stopping, codes, filed, signals>>

\* An exception in the try block: the start fails or takes too long, the plant
\* or the controller ends as it should not.
Raises(from) ==
  /\ Moves(from, "request")
  /\ outcome' = "fault"
  /\ UNCHANGED <<workerVars, known, stopping, codes, filed, signals>>

StartupFails(r) ==
  /\ r \notin ready
  /\ Raises(IF r = "controller" THEN "await_controller" ELSE "await_plant")

\* One turn of the loop: is the controller still there? Then, a little later,
\* the reports, the plant and the clock.
PollAlive ==
  /\ Moves("poll", "look")
  /\ ~Gone("controller")
  /\ UNCHANGED <<workerVars, outcome, known, stopping, codes, filed, signals>>

SomeExhausted == \E r \in Roles : result[r] = "budget_exhausted"

LookOn ==
  /\ ~SomeExhausted
  /\ ~Gone("plant")
  /\ Moves("look", "poll")
  /\ UNCHANGED <<workerVars, outcome, known, stopping, codes, filed, signals>>

TimesOut ==
  /\ ~SomeExhausted
  /\ ~Gone("plant")
  /\ Moves("look", "request")
  /\ outcome' = "timeout"
  /\ UNCHANGED <<workerVars, known, stopping, codes, filed, signals>>

SeesExhausted ==
  /\ SomeExhausted
  /\ Moves("look", "request")
  /\ outcome' = "budget_exhausted"
  /\ UNCHANGED <<workerVars, known, stopping, codes, filed, signals>>

PlantLeft ==
  /\ ~SomeExhausted
  /\ Gone("plant")
  /\ Raises("look")

\* The controller has ended: its report is the outcome, and the plant has
\* settle_s to finish its motion.
ControllerEnds ==
  /\ Moves("poll", "settle")
  /\ Gone("controller")
  /\ exit["controller"] = "clean"
  /\ result["controller"] # "none"
  /\ outcome' = result["controller"]
  /\ UNCHANGED <<workerVars, known, stopping, codes, filed, signals>>

ControllerFails ==
  /\ Gone("controller")
  /\ exit["controller"] # "clean" \/ result["controller"] = "none"
  /\ Raises("poll")

Settled ==
  /\ Moves("settle", "request")
  /\ UNCHANGED <<workerVars, outcome, known, stopping, codes, filed, signals>>

-----------------------------------------------------------------------------
(* The finally block: _stop_processes *)

Request ==
  /\ Moves("request", "wait")
  /\ stop' = TRUE
  /\ stopping' = known
  /\ UNCHANGED <<recorderVars, at, reason, raising, exit, ready, result,
                 signalled, nodeVars, outcome, known, codes, filed, signals>>

\* processes keeps the order of the start.
First == IF "controller" \in stopping THEN "controller" ELSE "plant"

Waited ==
  /\ sup \in {"wait", "interrupted"}
  /\ stopping # {}
  /\ Gone(First)
  /\ sup' = "wait"
  /\ stopping' = stopping \ {First}
  /\ UNCHANGED <<workerVars, outcome, known, codes, filed, signals>>

\* It does not end in WORKER_STOP_TIMEOUT_S ...
SendInterrupt ==
  /\ Moves("wait", "interrupted")
  /\ stopping # {}
  /\ signalled' = IF Gone(First) THEN signalled ELSE signalled \cup {First}
  /\ UNCHANGED <<recorderVars, at, reason, raising, exit, ready, result, stop,
                 nodeVars, outcome, known, stopping, codes, filed, signals>>

\* ... nor in WORKER_INTERRUPT_TIMEOUT_S: it is killed, and waited for.
GivesUp ==  \* mutant: a worker that does not end is left behind
  /\ Moves("interrupted", "wait")
  /\ stopping # {}
  /\ stopping' = stopping \ {First}
  /\ UNCHANGED <<workerVars, outcome, known, codes, filed, signals>>
WaitsOn ==  \* mutant: the worker is sent a signal and waited for
  /\ Moves("interrupted", "wait")
  /\ stopping # {}
  /\ Gone(First)
  /\ stopping' = stopping \ {First}
  /\ UNCHANGED <<workerVars, outcome, known, codes, filed, signals>>
Kill ==
  /\ Moves("interrupted", "wait")
  /\ stopping # {}
  /\ stopping' = stopping \ {First}
  /\ IF Gone(First) THEN UNCHANGED workerVars
     ELSE Dies(First, "killed") /\ UNCHANGED <<full, ready, result, stop>>
  /\ UNCHANGED <<outcome, known, codes, filed, signals>>

\* The exit codes, and the reports once more, since a worker may have reported
\* after the loop was left.  What comes then, the databases checked and the
\* run evaluated, changes nothing any more.
AsItWas == outcome  \* mutant: the reports are not read again
Override == IF SomeExhausted THEN "budget_exhausted" ELSE outcome

WriteResult ==
  /\ Moves("wait", "ended")
  /\ stopping = {}
  /\ codes' = {<<r, exit[r]>> : r \in known}
  /\ outcome' = Override
  /\ filed' = TRUE
  /\ UNCHANGED <<workerVars, known, stopping, signals>>

-----------------------------------------------------------------------------
\* A SIGINT from outside, to the supervisor alone or to the whole group.  In the
\* try block it is an exception like others, but it may come after Popen and
\* before the entry in processes; in the finally block it ends the supervisor.
SignalSupervisor(others) ==
  /\ signals < MaxSignals
  /\ sup # "ended"
  /\ signals' = signals + 1
  /\ \/ /\ sup \in Supervising
        /\ sup' = "request"
        /\ outcome' = "fault"
     \/ /\ sup \in Cleaning
        /\ sup' = "ended"
        /\ UNCHANGED outcome
  /\ \/ UNCHANGED at
     \/ sup = "launch_controller" /\ at' = [at EXCEPT !["controller"] = "starting"]
     \/ sup = "launch_plant" /\ at' = [at EXCEPT !["plant"] = "starting"]
  /\ signalled' = signalled \cup {r \in others : Alive(r)}
  /\ UNCHANGED <<recorderVars, reason, raising, exit, ready, result, stop,
                 nodeVars, known, stopping, codes, filed>>

TryNext ==
  \/ \E r \in Roles : Launch(r) \/ SeesReady(r) \/ StartupFails(r)
  \/ PollAlive
  \/ LookOn \/ TimesOut \/ SeesExhausted \/ PlantLeft
  \/ ControllerEnds \/ ControllerFails
  \/ Settled

FinallyNext ==
  \/ Request
  \/ Waited \/ SendInterrupt \/ Kill
  \/ WriteResult

SupervisorNext == TryNext \/ FinallyNext

Next ==
  \/ WorkerNext /\ UNCHANGED supervisorVars
  \/ SupervisorNext
  \/ \E others \in {{}, Roles} : SignalSupervisor(others)

Spec == Init /\ [][Next]_vars

\* The supervisor goes on, and its clock passes the deadline.  Of the workers
\* nothing is asked: they may hang.
FairSpec ==
  /\ Spec
  /\ WF_vars(SupervisorNext)
  /\ SF_vars(TimesOut)

-----------------------------------------------------------------------------
(* Properties *)

\* completion_record_counts: whatever a worker still records after the last
\* check that was admitted fits the reserve that check kept, however the worker
\* ends.
ReserveSuffices ==
  \A r \in Roles, s \in Counted : written[r][s] <= Reserve(r, s)

\* A run that is reported as completed, or as a pause that lasted too long, is
\* whole: every command was received and answered, and every cycle recorded,
\* whatever was lost on the way and however the workers were stopped.
CompletedIsWhole ==
  filed /\ outcome \in {"completed", "pause_timeout"} =>
    /\ owed = 0
    /\ \A m \in 1 .. sequence : m \in received /\ answered[m] >= 1

\* finish_worker_recording and run_experiment: a recording whose guard refused
\* is never the recording of a run with another outcome, if its worker ended
\* with exit code 0; a report made at the very end of a worker is the outcome of
\* the run, and nothing else is.
ExhaustionIsReported ==
  filed =>
    /\ \A r \in known :
         \/ result[r] = "budget_exhausted"
         \/ r \in full /\ <<r, "clean">> \in codes
         => outcome = "budget_exhausted"
    /\ outcome = "budget_exhausted" => SomeExhausted

\* _stop_processes: when result.json is written, every worker has ended, unless
\* a signal came between Popen and the entry in processes.
NobodyOutlivesTheResult ==
  filed => \A r \in Roles : Alive(r) => r \notin known /\ signals > 0

\* Every wait of the supervisor has an end: the run ends although a worker
\* hangs.
RunEnds == <>(sup = "ended")

\* Where the last command is while the plant is there to take it.
Takes == at["plant"] \in InTry \cup {"none", "starting"}
Outstanding ==
  IF ~Takes THEN "over"
  ELSE IF commands # {} THEN "sent"
  ELSE IF inHand # 0 \/ (checking # 0 /\ at["plant"] # "answered") THEN "taken"
  ELSE IF queued # 0 THEN "accepted"
  ELSE "over"

\* However workers fail, are interrupted or killed, controller and plant keep
\* the control cycle of module StaticCycle, which StaticLoop keeps as well.
Cycle ==
  INSTANCE StaticCycle
    WITH Fallible <- TRUE, sent <- sequence, stage <- Outstanding, takes <- Takes

ImplementsCycle == Cycle!Spec

=============================================================================
