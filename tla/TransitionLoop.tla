---------------------------- MODULE TransitionLoop ----------------------------
(***************************************************************************)
(* The planning server: one execution at a time of plan, replay, settle and  *)
(* hand-over, asked for by a service and by a timer that tries again.  Both  *)
(* kinds of callback run in threads of their own.                           *)
(***************************************************************************)
EXTENDS TrackingRun

CONSTANTS
  Ticks,        \* callbacks of the timer
  Calls,        \* and of the service
  MaxAttempts,  \* auto_plan_attempts
  Leftover,     \* messages of a replay that may still be read when it is over
  Needed        \* readings at the goal, in a row, that fill half a second

\* The half second outlasts what a replay may leave behind.
ASSUME LoopAssumption ==
  /\ Ticks \cap Calls = {}
  /\ MaxAttempts \in Nat \ {0}
  /\ Leftover \in Nat /\ Needed \in Nat /\ Leftover < Needed

VARIABLES
  at,         \* where each callback is
  attempts,   \* AutoPlanLoop._attempts
  done,       \* AutoPlanLoop._done
  planned,    \* the plans made, and the latest of them
  tail,       \* messages of its replay, at its goal, still to be read
  good,       \* readings at its goal, in a row
  starts,     \* the plans whose request to start tracking is on its way
  randoms,    \* requests to randomize the plant on their way
  failed,     \* history: attempts of the loop that failed
  succeeded   \* history: one succeeded

server == <<at, attempts, done, planned, tail, good, starts, randoms, failed,
            succeeded>>

Threads == Ticks \cup Calls
Executing == {"plan", "replay", "settle", "notify", "waits"}
Places == Executing \cup {"idle", "ready", "asks", "resample", "randomizing"}

ServerTypeOK ==
  /\ at \in [Threads -> Places]
  /\ attempts \in 0 .. MaxAttempts
  /\ done \in BOOLEAN
  /\ planned \in 0 .. MaxPlans
  /\ tail \in 0 .. Leftover
  /\ good \in 0 .. Needed
  /\ starts \in SUBSET (1 .. MaxPlans)
  /\ randoms \in 0 .. MaxAttempts
  /\ failed \in 0 .. MaxAttempts
  /\ succeeded \in BOOLEAN

ServerInit ==
  /\ at = [t \in Threads |-> "idle"]
  /\ attempts = 0
  /\ done = FALSE
  /\ planned = 0
  /\ tail = 0
  /\ good = 0
  /\ starts = {}
  /\ randoms = 0
  /\ failed = 0
  /\ succeeded = FALSE

Moves(t, from, to) == at[t] = from /\ at' = [at EXCEPT ![t] = to]
loop == <<attempts, done, failed, succeeded>>

\* The two locks, both taken without waiting: is_planning, and the timer's own.
Free == \A t \in Threads : at[t] \notin Executing
NoTick == \A t \in Ticks : at[t] = "idle"

-----------------------------------------------------------------------------
(* AutoPlanLoop.tick, and _plan_callback *)

BeginTick(t) ==
  /\ t \in Ticks /\ NoTick
  /\ ~done /\ Free
  /\ Moves(t, "idle", "ready")
  /\ UNCHANGED <<loop, planned, tail, good, starts, randoms>>

\* MoveIt or the controller's service is not there.
NotReady(t) ==
  /\ Moves(t, "ready", "idle")
  /\ UNCHANGED <<loop, planned, tail, good, starts, randoms>>

CountAttempt(t) ==
  /\ Up
  /\ Moves(t, "ready", "asks")
  /\ attempts' = attempts + 1
  /\ UNCHANGED <<done, failed, succeeded, planned, tail, good, starts, randoms>>

Call(t) ==
  /\ t \in Calls
  /\ Moves(t, "idle", "asks")
  /\ UNCHANGED <<loop, planned, tail, good, starts, randoms>>

\* PLANNING_ALREADY_RUNNING does not count.
Counted(n) == n   \* mutant: it does
Uncounted(n) == n - 1

AlreadyRunning(t) ==
  /\ ~Free
  /\ Moves(t, "asks", "idle")
  /\ attempts' = IF t \in Ticks THEN Uncounted(attempts) ELSE attempts
  /\ UNCHANGED <<done, failed, succeeded, planned, tail, good, starts, randoms>>

OneMore == attempts > MaxAttempts  \* mutant: one attempt too many
Exhausted == attempts >= MaxAttempts

\* What becomes of an execution: the lock is released, and the loop judges.
Ends(t, success) ==
  /\ at' = [at EXCEPT ![t] =
       IF t \in Calls \/ success \/ Exhausted THEN "idle" ELSE "resample"]
  /\ IF t \in Calls THEN UNCHANGED loop
     ELSE /\ done' = (success \/ Exhausted)
          /\ failed' = IF success THEN failed ELSE failed + 1
          /\ succeeded' = success
          /\ UNCHANGED attempts
  /\ UNCHANGED <<planned, tail, good, randoms>>

-----------------------------------------------------------------------------
(* TransitionExecutor.execute_plan *)

Enter(t) ==
  /\ Free
  /\ Moves(t, "asks", "plan")
  /\ UNCHANGED <<loop, planned, tail, good, starts, randoms>>

\* Services, start state, inverse kinematics, validity and planning are fine.
Plan(t) ==
  /\ planned < MaxPlans
  /\ Moves(t, "plan", "replay")
  /\ planned' = planned + 1
  /\ UNCHANGED <<loop, tail, good, starts, randoms>>

\* The points on the way, and the last one twice.
Replay(t) ==
  /\ at[t] = "replay"
  /\ Publish(0)
  /\ UNCHANGED <<server, stands, heads, moved>>

ReplayEnds(t) ==
  /\ Moves(t, "replay", "settle")
  /\ Publish(planned)
  /\ tail' = Leftover
  /\ good' = 0
  /\ UNCHANGED <<loop, planned, starts, randoms, stands, heads, moved>>

\* _wait_for_plant_settle reads a new state, the plant's own or one that the
\* replay has left on the topic, which keeps the newest message only.
FirstReading(n) == n >= 1   \* mutant: one reading is enough
Stable(n) == n >= Needed

Reading(t, reached) ==
  /\ good' = IF reached THEN good + 1 ELSE 0
  /\ IF reached /\ Stable(good + 1)
     THEN Moves(t, "settle", "notify") /\ moved' = FALSE
     ELSE at[t] = "settle" /\ UNCHANGED <<at, moved>>
  /\ UNCHANGED <<loop, planned, starts, randoms, stands, heads, inbox>>

ReadPlant(t) == Reading(t, stands = planned) /\ tail' = 0
ReadLeftover(t) == tail > 0 /\ Reading(t, TRUE) /\ tail' = tail - 1

\* Nothing new for 100 ms.
Gap(t) ==
  /\ at[t] = "settle"
  /\ good' = 0
  /\ UNCHANGED <<at, loop, planned, tail, starts, randoms>>

\* A result with an error, and any exception: one of notify_oscbf_start may come
\* after its request is on its way.
Fail(t) ==
  /\ at[t] \in Executing
  /\ Ends(t, FALSE)
  /\ UNCHANGED starts

\* notify_oscbf_start
Unavailable(t) ==
  /\ at[t] = "notify"
  /\ Ends(t, TRUE)
  /\ UNCHANGED starts

SendStart(t) ==
  /\ Up
  /\ Moves(t, "notify", "waits")
  /\ starts' = starts \cup {planned}
  /\ UNCHANGED <<loop, planned, tail, good, randoms>>

\* Answered, or START_SERVICE_TIMEOUT: the request may be served all the same.
NotifyEnds(t) ==
  /\ at[t] = "waits"
  /\ Ends(t, TRUE)
  /\ UNCHANGED starts

-----------------------------------------------------------------------------
(* _randomize_plant_start *)

SendRandomize(t) ==
  /\ Moves(t, "resample", "randomizing")
  /\ randoms' = randoms + 1
  /\ UNCHANGED <<loop, planned, tail, good, starts>>

\* Unavailable; answered; or PLANT_RANDOMIZE_TIMEOUT, the request still pending.
RandomizeEnds(t) ==
  /\ Moves(t, "resample", "idle") \/ Moves(t, "randomizing", "idle")
  /\ UNCHANGED <<loop, planned, tail, good, starts, randoms>>

=============================================================================
