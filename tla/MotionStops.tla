----------------------------- MODULE MotionStops -----------------------------
(***************************************************************************)
(* The files that lock the motors: stop.json, the latch of attended         *)
(* positioning, and the marks of the commissioning requests that were used. *)
(* They outlive the programs, which are separate processes.                 *)
(***************************************************************************)
EXTENDS Naturals

CONSTANTS
  Sessions,    \* the programs that are started, one after or beside the other
  MaxRequests  \* bound: the requests written to recover one and the same stop

\* What is said in their place of a file that is not there, of a stop from
\* before and of a port that is free.
ASSUME NamesAssumption == Sessions \cap {"absent", "first", "nobody"} = {}
ASSUME MaxRequestsAssumption == MaxRequests \in Nat \ {0}

VARIABLES
  stopFile,       \* stop.json: "absent", or which stop it reports
  attendedLatch,  \* the same for attended-positioning-stop.json
  used            \* the requests with a .used.json

stops == <<stopFile, attendedLatch, used>>

\* A stop is named by the program that latched it; "first" is one from before.
Stops == Sessions \cup {"first"}

\* A request file is named by the stop it was written to recover, and a number.
Requests == Stops \X (1 .. MaxRequests)

StopsTypeOK ==
  /\ stopFile \in Stops \cup {"absent"}
  /\ attendedLatch \in Stops \cup {"absent"}
  /\ used \in SUBSET Requests

StopsInit ==
  /\ stopFile \in {"first", "absent"}
  /\ attendedLatch = "absent"
  /\ used = {}

\* MotorStopLatch.trip: the stop that is latched first stays.
Tripped(file, s) == IF file = "absent" THEN s ELSE file

TripStop(s) ==
  /\ stopFile' = Tripped(stopFile, s)
  /\ UNCHANGED <<attendedLatch, used>>

TripAttended(s) ==
  /\ attendedLatch' = Tripped(attendedLatch, s)
  /\ UNCHANGED <<stopFile, used>>

\* SinglePoseCommissioning.consume opens the mark with "x".
Consume(request) ==
  /\ request \notin used
  /\ used' = used \cup {request}
  /\ UNCHANGED <<stopFile, attendedLatch>>

\* MotorStopLatch.require_recoverable: the latched stop is the reviewed one.
Recoverable(stop) == stopFile = stop

\* MotorStopLatch.acknowledge_stop, after the copy has been written.
AcknowledgeStop(stop) ==
  /\ Recoverable(stop)
  /\ stopFile' = "absent"
  /\ UNCHANGED <<attendedLatch, used>>

\* AttendedPositioning.check_stop
OnlyTheReviewedStop(stop) == stopFile = stop  \* mutant: its own latch ignored
AttendedClear(stop) == attendedLatch = "absent" /\ stopFile = stop
=============================================================================
