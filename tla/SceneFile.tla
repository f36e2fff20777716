------------------------------ MODULE SceneFile ------------------------------
(***************************************************************************)
(* The memory two kinds of processes share through one public path: files  *)
(* with a publication word and two scene slots, and the operating system's *)
(* view of the processes that wrote them.  Module SceneWriter says how a   *)
(* writer changes this state, SceneReader how a reader uses it.            *)
(*                                                                         *)
(* Every writer process creates one file, under a new UUID epoch, so files *)
(* and epochs are numbered alike: epoch e is the e-th file ever created.   *)
(***************************************************************************)
EXTENDS Integers, FiniteSets

CONSTANTS
  MaxEpoch,       \* bound: writer processes started in a behaviour
  MaxRevision,    \* the revision capacity of the word, 2^56 - 1 in the code
  MaxTime,        \* bound: the monotonic clock stops here
  Lifetimes,      \* the values of valid_until - prepared_stamp of a scene
  SlotTimeout,    \* slot_timeout_ns, the age at which a reader drops a scene
  ForeignEpochs,  \* epochs whose writer has another source identity
  NoScene,        \* bytes that are no whole record: zeroes or damage
  NoWord,         \* a reader result that carries no notice
  Interruptible,  \* may KeyboardInterrupt hit the writer inside a call?
  Corruptible,    \* may the bytes of a slot be damaged from outside?
  PidReuse        \* may the system give a dead writer's pid to another?

Epochs == 1 .. MaxEpoch
Revisions == 0 .. MaxRevision
Times == 0 .. MaxTime
Slots == {0, 1}

\* A slot is copied byte by byte: two pieces are enough to tell a whole
\* record from one that mixes two publications.
Halves == {"front", "back"}

\* CollisionStatus, with every non-OK status but REVISION_PENDING as one.
OK == "OK"
PENDING == "REVISION_PENDING"
INVALID == "INVALID_SCENE"
Statuses == {OK, PENDING, INVALID}

\* The publication word: (revision << 8) | (status << 1) | slot.
Words == [revision : Revisions, status : Statuses, slot : Slots]
Word(r, st, s) == [revision |-> r, status |-> st, slot |-> s]

\* What a whole slot says: its own publication word, which has status OK, and
\* the times between which the scene it describes may be used.
Scenes == [revision : Revisions, slot : Slots, made : Times, until : Nat]
Content == Scenes \cup {NoScene}

ASSUME BoundsAssumption ==
  /\ MaxEpoch \in Nat
  /\ MaxRevision \in Nat
  /\ MaxTime \in Nat
  /\ SlotTimeout \in Nat
  /\ Lifetimes \subseteq Nat
  /\ ForeignEpochs \subseteq Epochs

ASSUME NoneAssumption == NoScene \notin Scenes /\ NoWord \notin Words

ASSUME EnvironmentAssumption ==
  {Interruptible, Corruptible, PidReuse} \subseteq BOOLEAN

VARIABLES
  now,      \* time.monotonic_ns(), the same clock in every process
  born,     \* how many epochs have been created
  process,  \* of each epoch's writer process, what its pid denotes
  path,     \* the epoch whose file is at the public path, 0 for none
  nlink,    \* the link count of that file
  created,  \* created_ns in the header of each epoch's file
  word,     \* the publication word of each file
  image,    \* the bytes of each file's slots
  issued    \* history: the record written to a slot under each revision

fileVars == <<now, born, process, path, nlink, created, word, image, issued>>

FileTypeOK ==
  /\ now \in Times
  /\ born \in 0 .. MaxEpoch
  /\ process \in [Epochs -> {"unborn", "running", "exited", "recycled"}]
  /\ path \in 0 .. MaxEpoch
  /\ nlink \in {1, 2}
  /\ created \in [Epochs -> Times]
  /\ word \in [Epochs -> Words]
  /\ image \in [Epochs \X Slots \X Halves -> Content]
  /\ issued \in [Epochs \X Revisions -> Content]

FirstWord == Word(0, PENDING, 0)

FileInit ==
  /\ now = 0
  /\ born = 0
  /\ process = [e \in Epochs |-> "unborn"]
  /\ path = 0
  /\ nlink = 1
  /\ created = [e \in Epochs |-> 0]
  /\ word = [e \in Epochs |-> FirstWord]
  /\ image = [c \in Epochs \X Slots \X Halves |-> NoScene]
  /\ issued = [c \in Epochs \X Revisions |-> NoScene]

\* Record c, whatever its bytes, passes the time rules of _admission_status.
Admissible(c, t) == c.made <= t /\ t <= c.until

(***************************************************************************)
(* What a consumer may rely on: the scene the living writer of the public  *)
(* path currently vouches for, if any.                                     *)
(***************************************************************************)
NoView == [epoch |-> 0, scene |-> NoScene]

Authority ==
  IF path # 0 /\ word[path].status = OK /\ process[path] = "running"
  THEN [epoch |-> path, scene |-> issued[<<path, word[path].revision>>]]
  ELSE NoView

=============================================================================
