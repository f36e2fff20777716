------------------------------ MODULE DriveLink ------------------------------
(***************************************************************************)
(* The serial port, which one program opens at a time, the drives behind    *)
(* it, and what the program that has it open knows of them.                 *)
(***************************************************************************)
EXTENDS MotionStops, FiniteSetsExt

CONSTANTS
  Joints,  \* DEFAULT_JOINT_NAMES, numbered in their order
  Rows     \* how many rows the table of an attended session has

ASSUME LinkAssumption ==
  /\ IsFiniteSet(Joints) /\ Joints \subseteq Nat /\ Joints # {}
  /\ Rows \in Nat \ {0}

VARIABLES
  owner,      \* who has the port open
  broken,     \* _failed or in_transaction: a transaction did not end properly
  goal,       \* what that program told each drive last
  still,      \* the drives that stand at their goal
  todo,       \* the joints left in the loop over DEFAULT_JOINT_NAMES
  seen,       \* how many readings in a row, 2 at most, found the drive standing
              \* at its goal, since it was last told something
  attempted   \* commands_attempted is not 0

drives == <<goal, still>>
knowledge == <<todo, seen, attempted>>
link == <<owner, broken, drives, knowledge>>

\* Where it stood, all joints at zero, where it was when it was stopped, a row.
Rest == <<"rest">>
Zero == <<"zero">>
Held == <<"held">>
Row(i) == <<"row", i>>
Goals == {Rest, Zero, Held} \cup {Row(i) : i \in 1 .. Rows}

LinkTypeOK ==
  /\ owner \in Sessions \cup {"nobody"}
  /\ broken \in BOOLEAN
  /\ goal \in [Joints -> Goals]
  /\ still \in SUBSET Joints
  /\ todo \in SUBSET Joints
  /\ seen \in [Joints -> 0 .. 2]
  /\ attempted \in BOOLEAN

Unread == [j \in Joints |-> 0]
Untold == [j \in Joints |-> Rest]

LinkInit ==
  /\ owner = "nobody" /\ broken = FALSE
  /\ goal = Untold
  /\ still \in SUBSET Joints
  /\ todo = {} /\ seen = Unread /\ attempted = FALSE

\* The program that had the port open is gone.
ForgetLink ==
  /\ owner' = "nobody" /\ broken' = FALSE
  /\ goal' = Untold
  /\ UNCHANGED still
  /\ todo' = {} /\ seen' = Unread /\ attempted' = FALSE

-----------------------------------------------------------------------------
\* A drive arrives, or is pushed, sags or fails.
DrivesMove ==
  /\ still' \in SUBSET Joints
  /\ UNCHANGED <<stops, owner, broken, goal, knowledge>>

\* The loops over DEFAULT_JOINT_NAMES: after the last joint comes the first.
LastOf == Cardinality(todo) = 1
NextOf(group) == IF LastOf THEN group ELSE todo \ {Min(todo)}

\* JointTableDevice.read_cycle, one joint at a time.
ReadNext(group) ==
  LET j == Min(todo) IN
  /\ ~broken
  /\ todo' = NextOf(group)
  /\ seen' = [seen EXCEPT ![j] = IF j \notin still THEN 0 ELSE Min({2, @ + 1})]
  /\ UNCHANGED <<owner, broken, drives, attempted>>

\* The drive gets the command.
Told(j, what) ==
  /\ goal' = [goal EXCEPT ![j] = what]
  /\ still' \in {still, still \ {j}}
  /\ seen' = [seen EXCEPT ![j] = 0]

\* DrEmpowerSerial.set_angle for the next joint: it returns, ...
Command(what, group) ==
  /\ ~broken
  /\ Told(Min(todo), what)
  /\ todo' = NextOf(group)
  /\ attempted' = TRUE
  /\ UNCHANGED <<owner, broken>>

\* JointTableDevice.send counts a command before it makes it.
CountsWhenItReturns == UNCHANGED attempted  \* mutant: counted after set_angle
Counts == attempted' = TRUE

\* ... or it raises, on a refusal, a short write, a lost reply or a fault that
\* the reply reports.  Then the drive may have got it or not.
CommandRaises(what) ==
  /\ ~broken
  /\ \/ Told(Min(todo), what)
     \/ UNCHANGED <<drives, seen>>
  /\ broken' \in BOOLEAN
  /\ Counts
  /\ UNCHANGED <<owner, todo>>
=============================================================================
