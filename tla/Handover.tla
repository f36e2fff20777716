------------------------------- MODULE Handover -------------------------------
(***************************************************************************)
(* The planning server hands the plant over to the tracking controller.     *)
(***************************************************************************)
EXTENDS TransitionLoop

vars == <<plant, tracking, server>>

HandoverTypeOK == PlantTypeOK /\ TrackingTypeOK /\ ServerTypeOK

Init == PlantInit /\ TrackingInit /\ ServerInit

\* The controller serves a request, the plant another.
ServeStart(p) ==
  /\ p \in starts
  /\ Start
  /\ starts' = starts \ {p}
  /\ UNCHANGED <<plant, at, loop, planned, tail, good, randoms>>

ServeRandomize ==
  /\ randoms > 0
  /\ Randomize
  /\ randoms' = randoms - 1
  /\ UNCHANGED <<tracking, at, loop, planned, tail, good, starts>>

\* Requests to a process that ends are lost.
ControllerEnds ==
  /\ Exit \/ Crash
  /\ starts' = {}
  /\ UNCHANGED <<plant, at, loop, planned, tail, good, randoms>>

PlantNext == OnCommand \/ LoseCommand \/ Arrive

Controls == Step \/ Hold("held") \/ Hold("completed") \/ HoldAgain

ControllerNext ==
  Launch \/ Close \/ WriteFails \/ \E f \in Files : ReplaceFile(f)

\* What only the server sees, and what it publishes or reads.
ServerStep(t) ==
  \/ BeginTick(t) \/ NotReady(t) \/ CountAttempt(t) \/ Call(t)
  \/ AlreadyRunning(t) \/ Enter(t) \/ Plan(t) \/ Gap(t) \/ Fail(t)
  \/ Unavailable(t) \/ SendStart(t) \/ NotifyEnds(t)
  \/ SendRandomize(t) \/ RandomizeEnds(t)

Replays(t) == Replay(t) \/ ReplayEnds(t) \/ ReadPlant(t) \/ ReadLeftover(t)

Next ==
  \/ PlantNext /\ UNCHANGED <<tracking, server>>
  \/ Controls /\ UNCHANGED server
  \/ ControllerNext /\ UNCHANGED <<plant, server>>
  \/ \E p \in 1 .. MaxPlans : ServeStart(p)
  \/ ServeRandomize
  \/ ControllerEnds
  \/ \E t \in Threads :
       \/ ServerStep(t) /\ UNCHANGED <<plant, tracking>>
       \/ Replays(t) /\ UNCHANGED tracking

Spec == Init /\ [][Next]_vars

-----------------------------------------------------------------------------
(* Properties *)

\* _wait_for_plant_settle and notify_oscbf_start: when the controller begins to
\* track for a server that still waits for it, the plant stands at the goal of
\* that server's plan, unless a randomize call or another run of the controller
\* has moved it since it settled.
TracksFromTheGoal ==
  [][\A p \in starts \ starts' :
       /\ state = "waiting" /\ state' = "tracking"
       /\ \E t \in Threads : at[t] = "waits" /\ p = planned
       /\ ~moved
       => stands = p]_vars

\* An attempt of the loop that has been counted and has no result yet.
UnderWay == \E t \in Ticks : at[t] \in Executing \cup {"asks"}

\* AutoPlanLoop: an attempt is counted when, and only when, it was the loop's
\* own: the count is that of the attempts that failed and of the one under way,
\* and the loop gives up only after as many failures as it may have.
AttemptsAreItsOwn ==
  /\ attempts = failed + IF UnderWay \/ succeeded THEN 1 ELSE 0
  /\ done => succeeded \/ failed = MaxAttempts

\* write_tracking_bundle and TrackingRun.close: wherever a controller died, a
\* summary that names the samples on disk names those the report beside it is
\* about, and a controller that ended by itself has written, or failed to write,
\* the report of its run.
ReportsAreWhole ==
  /\ disk["summary"] = disk["samples"] => disk["report"] = disk["summary"]
  /\ state = "down" /\ begun =>
       report = "failed" \/ \A f \in Files : disk[f] = run
=============================================================================
