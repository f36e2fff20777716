--------------------------- MODULE StaticCallbacks ---------------------------
(***************************************************************************)
(* What spin_once may run in a worker: the callbacks of the two nodes.     *)
(***************************************************************************)
EXTENDS StaticWorker

\* Between two callbacks; nothing else of the worker's life changes.
Spins(r, from, to) ==
  /\ Goes(r, from, to)
  /\ UNCHANGED <<reason, raising, exit, ready, result, stop, signalled>>

-----------------------------------------------------------------------------
(* The controller *)

\* The cycles that stay open when an answer to m comes.
AllRemain(m) == open  \* mutant: the cycle is looked up and not taken out
Remaining(m) == open \ {m}

\* _on_admission.  An answer nobody waits for raises, which Fail covers.
OnAdmission(m, accepted) ==
  /\ <<m, accepted>> \in answers
  /\ m \in open
  /\ Spins("controller", "spin", "checks")
  /\ answers' = answers \ {<<m, accepted>>}
  /\ open' = Remaining(m)
  /\ owed' = owed - 1
  /\ waiting' = IF accepted THEN waiting ELSE 0
  /\ \E moved \in BOOLEAN :
       /\ moved => ~accepted
       /\ Append("controller", With(Some({"admission", "cycle"}),
                                    IF moved THEN Transition ELSE Nothing))
  /\ UNCHANGED <<full, execution, termination, sequence, calculating, faulted,
                 plantVars, commands, historyVars>>

\* The command that is waited for must have become active.
NoWait == TRUE  \* mutant: nothing is waited for
WaitIsOver == waiting # 0 => waiting = active

\* _tick that begins a calculation.
Begin ==
  /\ Spins("controller", "spin", "checks")
  /\ Admitted("controller", Cardinality(open), Nothing)
  /\ execution = "tracking"
  /\ "plant" \in ready
  /\ ~calculating
  /\ WaitIsOver
  /\ waiting' = 0
  /\ calculating' = TRUE
  /\ owed' = owed + 1
  /\ UNCHANGED <<execution, termination, sequence, open, faulted, plantVars,
                 topicVars, historyVars>>

\* _tick that finds the calculation done: _finish_calculation.
TakesUp(n) ==
  /\ Admitted("controller", Cardinality(open), n)
  /\ execution = "tracking"
  /\ calculating
  /\ calculating' = FALSE

\* The calculation failed, perhaps after recovery had moved: record_fault appends
\* that move with its own, and it is counted here.
TakeError ==
  /\ Goes("controller", "spin", "finish")
  /\ \E failure, moved \in BOOLEAN :
       TakesUp(With(Some({"cycle"} \cup IF failure THEN {"failure"} ELSE {}),
                    IF moved THEN Transition ELSE Nothing))
  /\ owed' = owed - 1
  /\ reason' = [reason EXCEPT !["controller"] = "fault"]
  /\ raising' = raising \cup {"controller"}
  /\ UNCHANGED <<exit, ready, result, stop, signalled, execution, termination,
                 sequence, open, waiting, faulted, plantVars, topicVars,
                 historyVars>>

\* The pause has lasted too long.
TakeFault ==
  /\ Spins("controller", "spin", "checks")
  /\ TakesUp(With(Some({"candidate", "cycle"}), Transition))
  /\ owed' = owed - 1
  /\ faulted' = TRUE
  /\ execution' = "holding"
  /\ termination' = "pause_timeout"
  /\ UNCHANGED <<sequence, open, waiting, plantVars, topicVars, historyVars>>

TakeNone ==
  /\ Spins("controller", "spin", "checks")
  /\ \E moved \in BOOLEAN :
       TakesUp(With(Some({"candidate", "rejection", "cycle"}),
                    IF moved THEN Transition ELSE Nothing))
  /\ owed' = owed - 1
  /\ UNCHANGED <<execution, termination, sequence, open, waiting, faulted,
                 plantVars, topicVars, historyVars>>

\* A command is sent; the last one may also end the tracking.
TakeCommand(completes) ==
  /\ Spins("controller", "spin", "checks")
  /\ \E moved \in BOOLEAN :
       TakesUp(With(Some({"candidate", "command"}),
                    IF moved THEN Transition ELSE Nothing))
  /\ sequence < MaxCommands
  /\ sequence' = sequence + 1
  /\ open' = open \cup {sequence'}
  /\ waiting' = sequence'
  /\ commands' = commands \cup {sequence'}
  /\ execution' = IF completes THEN "holding" ELSE execution
  /\ termination' = IF completes THEN "completed" ELSE termination
  /\ UNCHANGED <<faulted, owed, plantVars, answers, historyVars>>

\* A timer that has nothing to do still asks.
TickController ==
  /\ Spins("controller", "spin", "checks")
  /\ Admitted("controller", Cardinality(open), Nothing)
  /\ UNCHANGED nodeVars

ControllerRefused ==
  /\ Exhausts("controller", "spin")
  /\ Refused("controller", Cardinality(open))
  /\ UNCHANGED nodeVars

\* A SIGINT inside a callback: what was taken out is not recorded any more, but a
\* move of recovery is, with the fault; it is counted here.
Cut ==
  /\ Goes("controller", "spin", "finish")
  /\ "controller" \in signalled
  /\ signalled' = signalled \ {"controller"}
  /\ reason' = [reason EXCEPT !["controller"] = "interrupted"]
  /\ \E moved \in BOOLEAN :
       LET move == IF moved THEN Transition ELSE Nothing
       IN \/ /\ TakesUp(move)
             /\ UNCHANGED <<open, answers>>
          \/ /\ \E a \in answers :
                  /\ a[1] \in open
                  /\ moved => ~a[2]
                  /\ open' = open \ {a[1]}
                  /\ answers' = answers \ {a}
             /\ Append("controller", move)
             /\ UNCHANGED <<full, calculating>>
  /\ UNCHANGED <<raising, exit, ready, result, stop, execution, termination,
                 sequence, waiting, faulted, owed, plantVars, commands,
                 historyVars>>

ControllerSpins ==
  \/ \E m \in Ids, accepted \in BOOLEAN : OnAdmission(m, accepted)
  \/ Begin
  \/ TakeError \/ TakeFault \/ TakeNone
  \/ \E completes \in BOOLEAN : TakeCommand(completes)
  \/ TickController
  \/ ControllerRefused
  \/ Cut

-----------------------------------------------------------------------------
(* The plant *)

\* _on_command: the request is recorded, then answered or given to the worker.
OnCommand(m) ==
  /\ m \in commands
  /\ Spins("plant", "spin", "received")
  /\ Admitted("plant", 0, Some({"received_command"}))
  /\ commands' = commands \ {m}
  /\ inHand' = m
  /\ received' = received \cup {m}
  /\ UNCHANGED <<controllerVars, checking, queued, active, moving,
                 answers, answered>>

OnCommandRefused(m) ==
  /\ m \in commands
  /\ Exhausts("plant", "spin")
  /\ Refused("plant", 0)
  /\ commands' = commands \ {m}
  /\ UNCHANGED <<controllerVars, plantVars, answers, historyVars>>

Busy == checking # 0 \/ queued # 0

AnswerAtOnce ==
  /\ Spins("plant", "received", "checks")
  /\ Append("plant", Some({"admission"}))
  /\ answers' = answers \cup {<<inHand, FALSE>>}
  /\ answered' = [answered EXCEPT ![inHand] = @ + 1]
  /\ inHand' = 0
  /\ UNCHANGED <<full, controllerVars, checking, queued, active, moving,
                 commands, received>>

Submit ==
  /\ Spins("plant", "received", "checks")
  /\ ~Busy
  /\ checking' = inHand
  /\ inHand' = 0
  /\ UNCHANGED <<recorderVars, controllerVars, queued, active, moving,
                 topicVars, historyVars>>

\* _tick: asks, takes up the certificate if there is one, clears it, asks again,
\* advances, records and publishes.
Advances ==
  \/ /\ queued # 0
     /\ active' = queued
     /\ queued' = 0
     /\ moving' = TRUE
  \/ /\ moving' \in {moving, FALSE}
     /\ UNCHANGED <<active, queued>>

Feed(from, delayed) ==
  /\ Spins("plant", from, "checks")
  /\ Admitted("plant", 0, Some({"feedback"} \cup
                               IF delayed THEN {"recording_delay"} ELSE {}))
  /\ Advances
  /\ UNCHANGED <<controllerVars, inHand, topicVars, historyVars>>

Tick(delayed) == Feed("spin", delayed) /\ UNCHANGED checking
TickRefused ==
  /\ Exhausts("plant", "spin")
  /\ Refused("plant", 0)
  /\ UNCHANGED nodeVars

TakeCertificate(accepted) ==
  /\ Spins("plant", "spin", "answered")
  /\ Admitted("plant", 0, Some({"admission"}))
  /\ checking # 0
  /\ accepted => queued = 0
  /\ queued' = IF accepted THEN checking ELSE queued
  /\ answers' = answers \cup {<<checking, accepted>>}
  /\ answered' = [answered EXCEPT ![checking] = @ + 1]
  /\ UNCHANGED <<controllerVars, inHand, checking, active, moving, commands,
                 received>>

ClearAndFeed(delayed) == Feed("answered", delayed) /\ checking' = 0
ClearAndRefuse ==
  /\ Exhausts("plant", "answered")
  /\ Refused("plant", 0)
  /\ checking' = 0
  /\ UNCHANGED <<controllerVars, inHand, queued, active, moving, topicVars,
                 historyVars>>

PlantSpins ==
  \/ \E m \in Ids : OnCommand(m) \/ OnCommandRefused(m)
  \/ AnswerAtOnce \/ Submit
  \/ \E delayed \in BOOLEAN : Tick(delayed) \/ ClearAndFeed(delayed)
  \/ TickRefused \/ ClearAndRefuse
  \/ \E accepted \in BOOLEAN : TakeCertificate(accepted)

-----------------------------------------------------------------------------
Working(r) == Lives(r) \/ Ends(r) \/ Interrupt(r)
WorkerNext ==
  \/ \E r \in Roles : Working(r)
  \/ ControllerSpins
  \/ PlantSpins

=============================================================================
