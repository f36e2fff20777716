----------------------------- MODULE SharedScene -----------------------------
(***************************************************************************)
(* The scene transport: one writer at a time, the processes and the clock  *)
(* around it, and a reader, over the files of module SceneFile.            *)
(***************************************************************************)
EXTENDS SceneWriter, SceneReader

VARIABLE recent   \* history: the authorities since the last "completed"

vars == <<fileVars, writerVars, readerVars, recent>>

Init ==
  /\ FileInit
  /\ WriterInit
  /\ ReaderInit
  /\ recent = {NoView}

OthersStep ==
  /\ WriterNext \/ WorldNext
  /\ UNCHANGED readerVars
  /\ recent' = recent \cup {Authority'}

RefreshBegins ==
  /\ BeginRefresh
  /\ UNCHANGED <<fileVars, writerVars, recent>>

RefreshContinues ==
  /\ RefreshStep
  /\ recent' = IF Certify THEN {Authority} ELSE recent
  /\ UNCHANGED <<fileVars, writerVars>>

MonitorActs ==
  /\ MonitorStep
  /\ UNCHANGED <<fileVars, writerVars, recent>>

Next == OthersStep \/ RefreshBegins \/ RefreshContinues \/ MonitorActs

Spec == Init /\ [][Next]_vars

\* A consumer calls refresh from its own timer, so a call that can proceed
\* does.  Nothing is assumed of the writer, its process or the monitor.
FairSpec == Spec /\ WF_vars(RefreshBegins \/ RefreshContinues)

-----------------------------------------------------------------------------
TypeOK ==
  /\ FileTypeOK
  /\ WriterTypeOK
  /\ ReaderTypeOK
  /\ recent \in SUBSET [epoch : 0 .. MaxEpoch, scene : Content]

\* Between two calls, a scene that consumers see was what the living writer of
\* the public path vouched for at some instant after its device preparation
\* had ended: the last three reads of refresh, one after the other, add up to
\* one consistent look.
AcceptedWasAuthoritative == rpc = "ready" /\ View # NoView => View \in recent

\* During a call, from the moment the word is loaded, a scene consumers see
\* belongs to that very word of that very file: what a new publication has
\* replaced is hidden before the long copy and preparation start.
NothingSupersededIsVisible ==
  rpc \notin {"new", "ready", "open", "load"} /\ result.status = OK
    => result.note = rbefore /\ result.epoch = rfile

\* A latched fault hides the scene until someone resets it.
FaultHidesScene == rfault => result.status # OK

\* Only the epoch that was adopted or accepted, and only the expected source,
\* is ever shown, however the path was replaced meanwhile.
OnlyTheAcceptedEpoch ==
  result.status = OK
    => result.epoch = repoch /\ result.epoch \notin ForeignEpochs

\* No call of refresh moves from one epoch to another on its own.
RefreshKeepsEpoch ==
  [][repoch # 0 /\ repoch' # repoch => rpc = "ready"]_vars

\* The scene shown was within its lifetime and the slot timeout when device
\* preparation ended, not merely when the slot was copied.
CertifiedInTime ==
  result.status = OK => Timely(result.scene, result.at)

\* If the word has not moved since it was loaded, the copied halves are the
\* record of that word: a torn copy never gets as far as the checksum, so a
\* checksum failure means damage.
UnmovedWordMeansWholeCopy ==
  rpc = "copy" /\ rleft = {} /\ word[rfile] = rbefore => Intact

\* The slot a healthy word points to is never written.
ActiveSlotIsImmutable ==
  [][\A e \in Epochs, h \in Halves :
       word[e].status = OK
         => image'[<<e, word[e].slot, h>>] = image[<<e, word[e].slot, h>>]]_vars

\* Shared memory, the notice sent on the revision topic and the writer's own
\* counters tell one story whenever the writer is between two calls.
NoticeMatchesWord ==
  wpc = "idle" => word[writer] = Word(wrevision, wnotice, wslot)

\* The pidfd cannot tell a process that closed its writer from one that still
\* writes, so no living process may leave an OK word behind.
OnlyTheLockHolderVouches ==
  \A e \in Epochs :
    word[e].status = OK /\ process[e] = "running" => writer = e

\* Every change of the word, to a scene or to an error, advances its revision.
RevisionAdvances ==
  [][\A e \in Epochs : word'[e] # word[e]
       => word'[e].revision > word[e].revision]_vars

\* A writer that gets the lock finds a public path it can take over.
FreeLockAdmitsAWriter == writer = 0 => TargetValid

\* A scene of epoch e that the authority no longer vouches for does not stay
\* visible: refresh drops it, or accepts what the authority vouches for.
DropsRevoked(e) ==
  (View.epoch = e /\ Authority # View) ~> (View.epoch # e \/ Authority = View)

\* A scene whose writer is gone, was replaced or withdrew it does not stay
\* visible, whichever epoch it belongs to.
RevokedIsDropped == \A e \in Epochs : DropsRevoked(e)

\* The transport implements the register of module SceneRegister: its read is
\* the last part of refresh, after "completed".
Register ==
  INSTANCE SceneRegister
    WITH authority <- Authority, view <- View, reading <- (rpc \in {"word", "writer", "path"})

ImplementsRegister == Register!Spec

=============================================================================
