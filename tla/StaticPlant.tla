---------------------------- MODULE StaticPlant -----------------------------
(***************************************************************************)
(* StaticExperimentPlant and its ExecutionSchedule.  One thread runs the   *)
(* callbacks, a worker certifies one motion at a time.                     *)
(***************************************************************************)
EXTENDS StaticTopics

VARIABLES
  step,         \* schedule.step
  active,       \* schedule.active
  pending,      \* schedule.pending
  lastRequest,  \* schedule.last_request_id
  checking,     \* the motion of _pending_check
  refused       \* history: the last motion that was not accepted

plantVars == <<step, active, pending, lastRequest, checking, refused>>

PlantTypeOK ==
  /\ step \in 0 .. MaxStep
  /\ active \in Motions
  /\ pending \in Motions \cup {NoMotion}
  /\ lastRequest \in Nat
  /\ checking \in Motions \cup {NoMotion}
  /\ refused \in Motions \cup {NoMotion}

PlantInit ==
  /\ step = 0
  /\ active = FirstMotion
  /\ pending = NoMotion
  /\ lastRequest = 0
  /\ checking = NoMotion
  /\ refused = NoMotion

\* _admission: the answer says at which step it was given.
Answer(m, reason) == [id |-> m.id, reason |-> reason, step |-> step]

Refused(m, reason) == IF reason = "accepted" THEN refused ELSE m

-----------------------------------------------------------------------------
\* Two answers need no certificate.
Busy == checking # NoMotion \/ pending # NoMotion
LeavesPath(m) == m.from + m.feed * Ticks > Length
Refusal(m) == IF Busy THEN "admission_busy" ELSE "path_interval"

OnCommand(m) ==
  /\ m \in commands
  /\ commands' = commands \ {m}
  /\ IF Busy \/ LeavesPath(m)
     THEN /\ admissions' = admissions \cup {Answer(m, Refusal(m))}
          /\ refused' = m
          /\ UNCHANGED checking
     ELSE checking' = m /\ UNCHANGED <<admissions, refused>>
  /\ UNCHANGED <<sample, step, active, pending, lastRequest>>

\* schedule.queue, for a certificate that accepts the motion or does not.
StrictlyLate(m) == m.start < step  \* mutant: too late by one step is accepted
Late(m) == m.start <= step

Verdict(m, certified) ==
  IF m.id <= lastRequest THEN "repeated_command"
  ELSE IF ~certified THEN "uncertified"
  ELSE IF Late(m) THEN "late_command"
  ELSE IF pending # NoMotion THEN "pending_command"
  ELSE IF m.initial # StateAt(active, m.start) THEN "state_mismatch"
  ELSE IF m.from # ReferenceAt(active, m.start) THEN "reference_mismatch"
  ELSE "accepted"

\* schedule.advance, with p for pending, and the snapshot it publishes, which
\* replaces the one before unless that is still on its way and this one is lost.
\* A motion whose initial state is not the present one raises: the plant ends.
Starts(p) == p # NoMotion /\ p.start = step + 1

Advance(p) ==
  /\ Starts(p) => p.initial = StateAt(active, step + 1)
  /\ step' = step + 1
  /\ active' = IF Starts(p) THEN p ELSE active
  /\ pending' = IF Starts(p) THEN NoMotion ELSE p
  /\ \/ sample' = [step |-> step', active |-> active',
                   pending |-> IF pending' = NoMotion THEN 0 ELSE pending'.id]
     \/ Lossy /\ sample' = sample

\* _tick while there is no certificate to take up.
PlantTick ==
  /\ step < MaxStep
  /\ Advance(pending)
  /\ UNCHANGED <<commands, admissions, lastRequest, checking, refused>>

\* _tick with a certificate: the motion is queued, answered, and then the
\* schedule advances.
Admit(certified) ==
  /\ step < MaxStep
  /\ checking # NoMotion
  /\ LET verdict == Verdict(checking, certified)
     IN /\ admissions' = admissions \cup {Answer(checking, verdict)}
        /\ refused' = Refused(checking, verdict)
        /\ lastRequest' = IF verdict = "repeated_command"
                          THEN lastRequest ELSE checking.id
        /\ Advance(IF verdict = "accepted" THEN checking ELSE pending)
  /\ checking' = NoMotion
  /\ UNCHANGED commands

PlantNext ==
  \/ \E m \in commands : OnCommand(m)
  \/ PlantTick
  \/ \E certified \in BOOLEAN : Admit(certified)

=============================================================================
