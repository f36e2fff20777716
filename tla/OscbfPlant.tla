------------------------------ MODULE OscbfPlant ------------------------------
(***************************************************************************)
(* The simulated actuator: the pose it stands at, the target it follows, and *)
(* the stream of position commands to it.                                   *)
(***************************************************************************)
EXTENDS Naturals

CONSTANT
  MaxPlans  \* bound: the transitions that are planned

ASSUME PlansAssumption == MaxPlans \in Nat

VARIABLES
  stands,   \* the pose of the last state it published
  heads,    \* the target it follows
  inbox,    \* the newest command on its way, if any
  moved     \* history: something else than the replay moved it since it settled

plant == <<stands, heads, inbox, moved>>

\* A pose is the goal of a plan, or any other (0).
Poses == 0 .. MaxPlans

PlantTypeOK ==
  /\ stands \in Poses
  /\ heads \in Poses
  /\ inbox \in {{}} \cup {{p} : p \in Poses}
  /\ moved \in BOOLEAN

PlantInit == stands = 0 /\ heads = 0 /\ inbox = {} /\ moved = TRUE

\* The commands are best effort and the newest stays: one that is published
\* overtakes what is on its way.
Publish(p) == inbox' = {p}

\* A new target, and the first step away from where it stands.  When a replay is
\* over only its goal is on its way: another pose is the controller's.
OnCommand ==
  /\ \E p \in inbox :
       /\ heads' = p
       /\ stands' = IF stands = p THEN p ELSE 0
  /\ inbox' = {}
  /\ moved' = (moved \/ inbox = {0})

LoseCommand ==
  /\ inbox # {}
  /\ inbox' = {}
  /\ UNCHANGED <<stands, heads, moved>>

\* step_plant, up to the target, where it stays.
Arrive ==
  /\ stands # heads
  /\ stands' = heads
  /\ UNCHANGED <<heads, inbox, moved>>

\* _randomize_callback: a new pose, and no target but that.
Randomize ==
  /\ stands' = 0
  /\ heads' = 0
  /\ moved' = TRUE
  /\ UNCHANGED inbox
=============================================================================
