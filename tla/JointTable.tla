------------------------------ MODULE JointTable ------------------------------
(***************************************************************************)
(* run_joint_table, for attended positioning and for the commissioning of a *)
(* single pose, and the command line that moves a single joint: programs    *)
(* that share the drives, the serial port and the files that lock them.     *)
(***************************************************************************)
EXTENDS TableExecutor

VARIABLES
  at,        \* where each program is
  mode,      \* what it does
  reviewed,  \* the stop its request or its record of the site was written for
  number,    \* which of the requests for that stop it was given
  cleared,   \* the programs that removed a stop
  cut        \* the programs that were killed, or interrupted in the handler

programs == <<at, mode, reviewed, number, cleared, cut>>
vars == <<stops, link, executor, terminal, programs>>

Trying == {"prepare", "loop", "read", "observe", "act", "begin", "check",
           "send", "relatch", "recorded"}
Holding == {"hold_read", "hold_send", "hold_watch", "hold_judge"}
OnPort == Trying \cup Holding \cup {"abort", "trip", "close"}
Places == OnPort \cup {"idle", "scope", "consume", "open", "late_trip", "over"}
Modes == {"attended", "commissioning", "single"}

JointTypeOK ==
  /\ StopsTypeOK
  /\ LinkTypeOK
  /\ ExecutorTypeOK
  /\ at \in [Sessions -> Places]
  /\ mode \in [Sessions -> Modes]
  /\ reviewed \in [Sessions -> Stops]
  /\ number \in [Sessions -> 1 .. MaxRequests]
  /\ cleared \in SUBSET Sessions
  /\ cut \in SUBSET Sessions

Init ==
  /\ StopsInit
  /\ LinkInit
  /\ ExecutorInit
  /\ at = [s \in Sessions |-> "idle"]
  /\ mode = [s \in Sessions |-> "single"]
  /\ reviewed = [s \in Sessions |-> "first"]
  /\ number = [s \in Sessions |-> 1]
  /\ cleared = {}
  /\ cut = {}

Moves(s, from, to) == at[s] = from /\ at' = [at EXCEPT ![s] = to]
Same == UNCHANGED <<mode, reviewed, number, cleared, cut>>
\* The program has ended, and what it had in memory is gone.
Over(s) ==
  /\ at' = [at EXCEPT ![s] = "over"]
  /\ mode' = [mode EXCEPT ![s] = "single"]
  /\ reviewed' = [reviewed EXCEPT ![s] = "first"]
  /\ number' = [number EXCEPT ![s] = 1]
  /\ UNCHANGED cleared

Request(s) == <<reviewed[s], number[s]>>

Group(s) == IF mode[s] = "single" THEN {Min(Joints)} ELSE Joints

-----------------------------------------------------------------------------
(* Before the port is open *)

Start(s) ==
  /\ Moves(s, "idle", "scope")
  /\ \E m \in Modes, stop \in Stops \ {s}, n \in 1 .. MaxRequests :
       /\ m = "single" => stop = "first"
       /\ m # "commissioning" => n = 1
       /\ mode' = [mode EXCEPT ![s] = m]
       /\ reviewed' = [reviewed EXCEPT ![s] = stop]
       /\ number' = [number EXCEPT ![s] = n]
  /\ UNCHANGED <<stops, link, executor, terminal, cleared, cut>>

InScope(s) ==
  /\ mode[s] = "attended" => AttendedClear(reviewed[s])
  /\ mode[s] = "commissioning" => Recoverable(reviewed[s])
  /\ mode[s] = "single" => stopFile = "absent"

CheckScope(s) ==
  /\ InScope(s)
  /\ Moves(s, "scope", IF mode[s] = "commissioning" THEN "consume" ELSE "open")
  /\ Same
  /\ UNCHANGED <<stops, link, executor, terminal>>

UseRequest(s) ==
  /\ Moves(s, "consume", "open")
  /\ Consume(Request(s))
  /\ Same
  /\ UNCHANGED <<link, executor, terminal>>

\* Out of scope, used already, or any error.
TurnedAway(s) ==
  /\ at[s] \in {"scope", "consume"}
  /\ Over(s)
  /\ UNCHANGED cut
  /\ UNCHANGED <<stops, link, executor, terminal>>

Open(s) ==
  /\ Moves(s, "open", "prepare")
  /\ owner = "nobody"
  /\ owner' = s
  /\ todo' = Group(s)
  /\ immediate' \in {FALSE, mode[s] = "attended"}
  /\ Same
  /\ UNCHANGED <<stops, broken, drives, seen, attempted, executor, typed,
                 prompted, started>>

\* The port is taken, say.  Only the command line of a single joint trips then.
CannotOpen(s) ==
  /\ at[s] = "open"
  /\ IF mode[s] = "single"
     THEN at' = [at EXCEPT ![s] = "late_trip"] /\ Same
     ELSE Over(s) /\ UNCHANGED cut
  /\ UNCHANGED <<stops, link, executor, terminal>>

-----------------------------------------------------------------------------
(* The try block *)

\* prepare and verify_device
Prepare(s) ==
  /\ Moves(s, "prepare", "loop")
  /\ Same
  /\ UNCHANGED <<stops, link, executor, terminal>>

\* The check at the top of the loop: none while the stop has yet to be cleared.
LoopClear(s) ==
  /\ mode[s] = "attended" => AttendedClear(reviewed[s])
  /\ mode[s] = "commissioning" /\ s \in cleared => stopFile = "absent"

Loop(s) ==
  /\ phase # "completed"
  /\ LoopClear(s)
  /\ Moves(s, "loop", "read")
  /\ Same
  /\ UNCHANGED <<stops, link, executor, terminal>>

ReadCycle(s) ==
  /\ Moves(s, "read", IF LastOf THEN "observe" ELSE "read")
  /\ ReadNext(Group(s))
  /\ Same
  /\ UNCHANGED <<stops, executor, terminal>>

ObserveCycle(s) ==
  /\ Moves(s, "observe", "act")
  /\ Observe(Group(s), mode[s])
  /\ Same
  /\ UNCHANGED <<stops, link, terminal>>

\* The attended session: PositioningOperator.step, and once more the stops.
OperatorStep(s) ==
  /\ mode[s] = "attended"
  /\ \/ Moves(s, "act", "loop") /\ (FinishPositioning \/ StayPut)
     \/ Moves(s, "act", "check") /\ (StartItself \/ ReturnToZero \/ StartGroup)
  /\ Same
  /\ UNCHANGED <<stops, link>>

CheckAgain(s) ==
  /\ Moves(s, "check", "send")
  /\ AttendedClear(reviewed[s])
  /\ Same
  /\ UNCHANGED <<stops, link, executor, terminal>>

\* Commissioning: at the first rest the stop is cleared ...
Recover(s) ==
  /\ mode[s] = "commissioning" /\ phase = "ready" /\ s \notin cleared
  /\ Moves(s, "act", "begin")
  /\ AcknowledgeStop(reviewed[s])
  /\ cleared' = cleared \cup {s}
  /\ UNCHANGED <<link, executor, terminal, mode, reviewed, number, cut>>

\* ... and the one pose is begun, which a single joint does straight away.
Begin(s) ==
  /\ \/ Moves(s, "begin", "send")
     \/ mode[s] = "single" /\ phase = "ready" /\ Moves(s, "act", "send")
  /\ BeginMotion(index, FALSE)
  /\ Same
  /\ UNCHANGED <<stops, link, terminal>>

\* The one pose is reached: the stop is latched again.
PoseReached(s) ==
  /\ mode[s] = "commissioning" /\ phase = "awaiting_measurement"
  /\ Moves(s, "act", "relatch")
  /\ phase' = "positioning_completed"
  /\ Same
  /\ UNCHANGED <<stops, link, index, settled, returning, report, terminal>>

LeavesItOpen(s) ==  \* mutant: the completed pose latches nothing
  /\ Moves(s, "relatch", "recorded")
  /\ Same
  /\ UNCHANGED <<stops, link, executor, terminal>>
Relatch(s) ==
  /\ Moves(s, "relatch", "recorded")
  /\ TripStop(s)
  /\ Same
  /\ UNCHANGED <<link, executor, terminal>>

\* Nothing to do in this cycle.
Wait(s) ==
  /\ mode[s] # "attended" /\ phase \in {"initializing", "moving", "completed"}
  /\ Moves(s, "act", "loop")
  /\ Same
  /\ UNCHANGED <<stops, link, executor, terminal>>

SendNext(s) ==
  /\ Moves(s, "send", IF LastOf THEN "loop" ELSE "send")
  /\ Command(Target, Group(s))
  /\ Same
  /\ UNCHANGED <<stops, executor, terminal>>

SendRaises(s) ==
  /\ Moves(s, "send", "abort")
  /\ CommandRaises(Target)
  /\ Leave("aborted")
  /\ Same
  /\ UNCHANGED <<stops, report>>

LoopEnds(s) ==
  /\ \/ phase = "completed" /\ Moves(s, "loop", "close")
     \/ Moves(s, "recorded", "close")
  /\ Same
  /\ UNCHANGED <<stops, link, executor, terminal>>

\* Any exception: a latched stop, a reading that is late, broken, or rejected by
\* a monitor, a clock, a full disk, Ctrl+C.  One inside a transaction leaves the
\* serial session broken, and every failed reading is one.
Raises(s) ==
  /\ at[s] \in Trying
  /\ broken' \in IF at[s] \in {"prepare", "read", "send"} THEN BOOLEAN ELSE {FALSE}
  /\ at' = [at EXCEPT ![s] = "abort"]
  /\ Same
  /\ Leave("aborted")
  /\ UNCHANGED <<stops, owner, drives, knowledge, report>>

OperatorStops(s) ==
  /\ mode[s] = "attended" /\ Refuses
  /\ Moves(s, "act", "abort")
  /\ Leave("aborted")
  /\ Same
  /\ UNCHANGED <<stops, link, report>>

-----------------------------------------------------------------------------
(* The handler: hold_and_observe, and the latch *)

\* A single joint has its latch tripped after the port is closed.
Afterwards(s) == IF mode[s] = "single" THEN "close" ELSE "trip"

Reported(s, result) ==
  /\ report' = result
  /\ at' = [at EXCEPT ![s] = Afterwards(s)]
  /\ UNCHANGED <<stops, owner, drives, knowledge, position, terminal, mode,
                 reviewed, number, cleared, cut>>

NothingSent(s) ==
  /\ at[s] = "abort" /\ ~attempted
  /\ Reported(s, "no_motion_command_attempted")
  /\ UNCHANGED broken

\* A single joint is held only after Ctrl+C and some of the rejections.
Untrusted(s) ==
  /\ at[s] = "abort" /\ attempted
  /\ broken \/ mode[s] = "single"
  /\ Reported(s, "external_stop_required")
  /\ UNCHANGED broken

Hold(s) ==
  /\ ~broken /\ attempted
  /\ Moves(s, "abort", "hold_read")
  /\ todo' = Group(s)
  /\ seen' = Unread
  /\ Same
  /\ UNCHANGED <<stops, owner, broken, drives, attempted, executor, terminal>>

\* A whole cycle of readings, then the commands, then cycles that are watched.
HoldRead(s) ==
  /\ \/ Moves(s, "hold_read", IF LastOf THEN "hold_send" ELSE "hold_read")
     \/ Moves(s, "hold_watch", IF LastOf THEN "hold_judge" ELSE "hold_watch")
  /\ ReadNext(Group(s))
  /\ Same
  /\ UNCHANGED <<stops, executor, terminal>>

HoldSend(s) ==
  /\ Moves(s, "hold_send", IF LastOf THEN "hold_watch" ELSE "hold_send")
  /\ Command(Held, Group(s))
  /\ Same
  /\ UNCHANGED <<stops, executor, terminal>>

HoldWatch(s) ==
  /\ Moves(s, "hold_judge", "hold_watch")
  /\ settled' = Stationary(Group(s))
  /\ Same
  /\ UNCHANGED <<stops, link, phase, index, returning, report, terminal>>

HoldObserved(s) ==
  /\ at[s] = "hold_judge"
  /\ settled /\ Stationary(Group(s))
  /\ Reported(s, "hold_observed")
  /\ UNCHANGED broken

\* A time limit, an untrusted reading, a command that raises, Ctrl+C.
HoldFails(s) ==
  /\ at[s] \in Holding
  /\ broken' \in BOOLEAN
  /\ Reported(s, "external_stop_required")

HoldRaises(s) ==
  /\ at[s] = "hold_send"
  /\ CommandRaises(Held)
  /\ report' = "external_stop_required"
  /\ at' = [at EXCEPT ![s] = Afterwards(s)]
  /\ UNCHANGED <<stops, position, terminal, mode, reviewed, number, cleared,
                 cut>>

Trip(s) ==
  /\ Moves(s, "trip", "close")
  /\ IF mode[s] = "attended" THEN TripAttended(s) ELSE TripStop(s)
  /\ Same
  /\ UNCHANGED <<link, executor, terminal>>

\* Ctrl+C in the handler itself: the latch of the table is not tripped.
HandlerCut(s) ==
  /\ at[s] \in {"abort", "trip"}
  /\ at' = [at EXCEPT ![s] = "close"]
  /\ cut' = IF mode[s] = "single" THEN cut ELSE cut \cup {s}
  /\ UNCHANGED <<stops, link, executor, terminal, mode, reviewed, number,
                 cleared>>

-----------------------------------------------------------------------------
(* The end *)

Forgotten == ForgetLink /\ Leave("initializing") /\ report' = "none"

Close(s) ==
  /\ at[s] = "close"
  /\ Forgotten
  /\ IF mode[s] = "single" /\ phase = "aborted"
     THEN at' = [at EXCEPT ![s] = "late_trip"] /\ Same
     ELSE Over(s) /\ UNCHANGED cut
  /\ UNCHANGED stops

LateTrip(s) ==
  /\ at[s] = "late_trip"
  /\ TripStop(s)
  /\ Over(s)
  /\ UNCHANGED <<link, executor, terminal, cut>>

\* Killed at any point, or a single joint interrupted in its last handler.
Killed(s) ==
  /\ at[s] \notin {"idle", "over"}
  /\ Over(s)
  /\ cut' = cut \cup {s}
  /\ IF owner = s THEN Forgotten ELSE UNCHANGED <<link, executor, terminal>>
  /\ UNCHANGED stops


-----------------------------------------------------------------------------
TypeLine ==
  /\ \E s \in Sessions : owner = s /\ mode[s] = "attended" /\ at[s] \in Trying
  /\ \E key \in Keys : Type(key)
  /\ UNCHANGED <<stops, link, executor, programs>>

Enters(s) ==
  Start(s) \/ CheckScope(s) \/ UseRequest(s) \/ TurnedAway(s) \/ Open(s)
    \/ CannotOpen(s)

Tries(s) ==
  \/ Prepare(s) \/ Loop(s) \/ ReadCycle(s) \/ ObserveCycle(s)
  \/ OperatorStep(s) \/ CheckAgain(s) \/ Recover(s) \/ Begin(s)
  \/ PoseReached(s) \/ Relatch(s) \/ Wait(s) \/ SendNext(s) \/ SendRaises(s)
  \/ LoopEnds(s) \/ Raises(s) \/ OperatorStops(s)

Handles(s) ==
  \/ NothingSent(s) \/ Untrusted(s) \/ Hold(s) \/ HoldRead(s) \/ HoldSend(s)
  \/ HoldWatch(s) \/ HoldObserved(s) \/ HoldFails(s) \/ HoldRaises(s)
  \/ Trip(s) \/ HandlerCut(s)

Ends(s) == Close(s) \/ LateTrip(s) \/ Killed(s)

Next ==
  \/ \E s \in Sessions : Enters(s) \/ Tries(s) \/ Handles(s) \/ Ends(s)
  \/ TypeLine
  \/ DrivesMove /\ UNCHANGED <<executor, terminal, programs>>

Spec == Init /\ [][Next]_vars

-----------------------------------------------------------------------------
(* Properties *)

\* hold_and_observe and finish_positioning: what a session reports of the arm
\* is so.  No command attempted means that no drive got one; a hold observed,
\* that every drive was told to hold and was then found standing by two readings
\* in a row; a normal exit, the same of one and the same target, or that nothing
\* was sent at all.
ReportIsTrue ==
  \A s \in Sessions : at[s] \in {"trip", "close"} /\ owner = s =>
    /\ report = "no_motion_command_attempted" => goal = Untold
    /\ report = "hold_observed" =>
         \A j \in Group(s) : goal[j] = Held /\ seen[j] = 2
    /\ report = "all_joint_feedback_stationary" /\ goal # Untold =>
         \E target \in Goals \ {Rest, Held} :
           \A j \in Group(s) : goal[j] = target /\ seen[j] = 2

\* observe: a group counts as arrived only when every drive got the command and
\* was found at its goal by two readings in a row, all of them after the last
\* command of the group.
ArrivalIsWhole ==
  \A s \in Sessions :
    owner = s /\ at[s] \notin Holding
      /\ \/ phase \in {"holding_position", "holding_zero",
                        "awaiting_measurement", "positioning_completed"}
         \/ phase = "completed" /\ goal # Untold
    => \A j \in Group(s) :
         goal[j] = Target /\ (seen[j] = 2 \/ at[s] \in {"read", "observe"})

\* PositioningOperator.step: but for the first target of a session without a
\* table, a group or the way back to zero begins only by a line that was typed
\* after the prompt for just this position was given.
BeginsByLine ==
  [][\A s \in Sessions :
       at[s] = "act" /\ at'[s] = "check" /\ ~Automatic =>
         \E key \in {"enter", "r"} : <<key, Asked>> \in typed]_vars

\* A commissioning that has come past the mark of its request.
Committed(s) == mode[s] = "commissioning" /\ at[s] \in OnPort \cup {"open"}

\* run_joint_table: while an attended session commands the drives, its own
\* latch is clear and stop.json is the one that was reviewed; while the
\* commissioning commands them, the stop its request names has been cleared, by
\* itself, and no other program has come past the mark of the same request.
MovesUnderReview ==
  \A s \in Sessions : at[s] = "send" =>
    /\ mode[s] = "attended" =>
         attendedLatch = "absent" /\ stopFile = reviewed[s]
    /\ mode[s] = "commissioning" =>
         /\ s \in cleared /\ Request(s) \in used /\ stopFile # reviewed[s]
         /\ \A t \in Sessions \ {s} : Committed(t) => Request(t) # Request(s)

\* stop.json, once there, is missing only while the program that cleared it is
\* at work, unless that was killed or interrupted in its handler; and an
\* attended session that did not end normally has its latch tripped.
EndsAreLatched ==
  /\ stopFile = "absent" /\ cleared # {} =>
       \E s \in cleared : s \in cut \/ at[s] \in OnPort
  /\ \A s \in Sessions \ cut :
       /\ mode[s] = "attended" /\ at[s] = "close"
       /\ report \notin {"none", "all_joint_feedback_stationary"}
       => attendedLatch # "absent"
=============================================================================
