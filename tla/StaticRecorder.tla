--------------------------- MODULE StaticRecorder ---------------------------
(***************************************************************************)
(* The recording of one run: each worker appends records to streams of its *)
(* own database, and asks its RecordingBudget and its RecordingStorageGuard*)
(* before it begins what it may not be able to finish.  A byte is not      *)
(* counted: a reserve is the number of records of each stream it holds,    *)
(* and the space of the volume is full, or not, as the environment likes.  *)
(***************************************************************************)
EXTENDS Integers, FiniteSets

CONSTANTS
  PendingRoom,  \* (completion_bytes - completion_base_bytes) in cycle records
  Counted       \* bound: the streams whose records are counted

ASSUME PendingRoomAssumption == PendingRoom \in Nat

Roles == {"controller", "plant"}

Streams == {"feedback", "recording_delay", "received_command", "admission",
            "candidate", "cycle", "command", "rejection", "transition",
            "failure", "event"}

ASSUME CountedAssumption == Counted \subseteq Streams

\* completion_record_counts: what completion_base_bytes is the size of.
Reserve(r, s) ==
  IF r = "plant"
  THEN IF s = "admission" THEN 2
       ELSE IF s \in {"feedback", "recording_delay", "received_command",
                      "event"} THEN 1
       ELSE 0
  ELSE IF s = "cycle" THEN 1 + PendingRoom
       ELSE IF s = "transition" THEN 4
       ELSE IF s \in {"candidate", "command", "admission", "rejection",
                      "failure", "event"} THEN 1
       ELSE 0

Nothing == [s \in Streams |-> 0]

VARIABLES
  full,    \* the guards that refused: they never admit again
  written  \* the records of each stream since the last admitted check

recorderVars == <<full, written>>

RecorderTypeOK ==
  /\ full \in SUBSET Roles
  /\ written \in [Roles -> [Streams -> Nat]]

RecorderInit ==
  /\ full = {}
  /\ written = [r \in Roles |-> Nothing]

Count(n) == [s \in Streams |-> IF s \in Counted THEN n[s] ELSE 0]

\* append, for n[s] records of each stream s.
With(w, n) == [s \in Streams |-> w[s] + n[s]]
Some(S) == [s \in Streams |-> IF s \in S THEN 1 ELSE 0]
Append(r, n) == written' = [written EXCEPT ![r] = With(@, Count(n))]

\* RecordingStorageGuard.check admits, and then the records n are appended.
Admitted(r, pending, n) ==
  /\ r \notin full
  /\ pending <= PendingRoom
  /\ written' = [written EXCEPT ![r] = Count(n)]
  /\ UNCHANGED full

\* It refuses: a size is over its limit, now or since an earlier check, or the
\* cycles begun do not fit the reserve.  A refusal of RecordingBudget alone,
\* its deadline or a count, comes after an admitted check.
Refused(r, pending) ==
  \/ full' = full \cup {r} /\ UNCHANGED written
  \/ /\ r \notin full
     /\ pending <= PendingRoom
     /\ written' = [written EXCEPT ![r] = Nothing]
     /\ UNCHANGED full

=============================================================================
