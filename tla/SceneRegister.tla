---------------------------- MODULE SceneRegister ----------------------------
(***************************************************************************)
(* What the scene transport promises a consumer: a regular register with a *)
(* fallible reader.  An authority vouches for one scene at a time, or for  *)
(* none; a read that ends shows a scene the authority vouched for while    *)
(* the read was under way, or nothing.  A shown scene may be withdrawn at  *)
(* any time, and is not exchanged for another except by a read.            *)
(***************************************************************************)
CONSTANT NoView

VARIABLES
  authority,  \* the view vouched for now
  view,       \* the view shown
  recent,     \* the authorities since the last read began
  reading     \* is a read under way?

registerVars == <<authority, view, recent, reading>>

Init ==
  /\ authority = NoView
  /\ view = NoView
  /\ recent = {NoView}
  /\ reading = FALSE

\* Any view at all may be vouched for next.
Authorize ==
  /\ recent' = recent \cup {authority'}
  /\ UNCHANGED <<view, reading>>

BeginRead ==
  /\ ~reading
  /\ reading' = TRUE
  /\ recent' = {authority}
  /\ UNCHANGED <<authority, view>>

Withdraw ==
  /\ view' = NoView
  /\ UNCHANGED <<authority, recent, reading>>

EndRead ==
  /\ reading
  /\ reading' = FALSE
  /\ view' \in recent \cup {NoView}
  /\ UNCHANGED <<authority, recent>>

Next ==
  \/ Authorize
  \/ BeginRead
  \/ Withdraw
  \/ EndRead

Spec == Init /\ [][Next]_registerVars

=============================================================================
