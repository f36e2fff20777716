--------------------------- MODULE StaticRecovery ---------------------------
(***************************************************************************)
(* RecoveryState: when the reference may move again.  A state is a record; *)
(* times are plant steps, None stands for no time.                         *)
(***************************************************************************)
EXTENDS Integers

CONSTANTS
  Improved,      \* rules.mode: "improved", or "basic"
  Confirmation,  \* confirmation_s
  PauseLimit     \* timeout_s

ASSUME RecoveryAssumption ==
  /\ Improved \in BOOLEAN
  /\ Confirmation \in Nat
  /\ PauseLimit \in Nat

None == -1

Phases == {"REFERENCE_PAUSED", "RECOVERING", "RUNNING", "ENDPOINT_HOLD",
           "FAULT"}

\* paused: pause_started_s; valid: valid_since_s; time: last_time_s.
Times == Nat \cup {None}
Recoveries == [phase : Phases, paused : Times, valid : Times, time : Times]

FirstRecovery == [phase |-> "REFERENCE_PAUSED", paused |-> None,
                  valid |-> None, time |-> None]

\* What one calculation tells the rules: the errors exceed the pause
\* thresholds, or are within the resume thresholds; a positive feed was found.
Findings == {f \in [excessive : BOOLEAN, settled : BOOLEAN, positive : BOOLEAN]
               : ~(f.excessive /\ f.settled)}

\* _transition
Transition(r, phase) == [r EXCEPT !.phase = phase]

\* fault
Fault(r) == Transition(r, "FAULT")

\* admission_rejected
RejectedQuietly(r, t) ==  \* mutant: the confirmation goes on
  IF r.phase \in {"FAULT", "ENDPOINT_HOLD"} THEN r
  ELSE Transition(r, "REFERENCE_PAUSED")
Rejected(r, t) ==
  IF r.phase \in {"FAULT", "ENDPOINT_HOLD"} THEN r
  ELSE Transition([r EXCEPT !.paused = IF @ = None THEN t ELSE @,
                            !.valid = None], "REFERENCE_PAUSED")

-----------------------------------------------------------------------------
(* update *)

\* RUNNING ends with its conditions.
Interrupted(r, t, f) ==
  IF r.phase = "RUNNING" /\ (f.excessive \/ ~f.positive)
  THEN Transition([r EXCEPT !.paused = t, !.valid = None], "REFERENCE_PAUSED")
  ELSE r

Ready(f) == f.positive /\ ~f.excessive /\ (Improved => f.settled)
Since(time, t) == IF time = None THEN t ELSE time
Confirmed(r, t) == Improved => t - Since(r.valid, t) >= Confirmation

\* Every phase but RUNNING waits, for readiness and then for its confirmation.
Waited(r, t, f) ==
  LET p == [r EXCEPT !.paused = Since(@, t)]
  IN IF t - p.paused > PauseLimit THEN Fault(p)
     ELSE IF ~Ready(f)
     THEN Transition([p EXCEPT !.valid = None], "REFERENCE_PAUSED")
     ELSE IF Confirmed(r, t)
     THEN Transition([p EXCEPT !.paused = None, !.valid = Since(@, t)],
                     "RUNNING")
     ELSE Transition([p EXCEPT !.valid = Since(@, t)], "RECOVERING")

Updated(r, t, f, endpoint) ==
  LET u == [r EXCEPT !.time = t]
      v == Interrupted(u, t, f)
  IN IF r.phase = "FAULT" THEN u
     ELSE IF endpoint THEN Transition(u, "ENDPOINT_HOLD")
     ELSE IF v.phase \in {"REFERENCE_PAUSED", "RECOVERING"}
     THEN Waited(v, t, f)
     ELSE v

=============================================================================
