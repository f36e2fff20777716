----------------------------- MODULE SceneWriter -----------------------------
(***************************************************************************)
(* SharedSceneWriter: the life of the one writer that holds the lock next  *)
(* to the public path.  The flock is the operating system's, so "writer"   *)
(* is a single variable: the epoch of the holder.                          *)
(***************************************************************************)
EXTENDS SceneFile

VARIABLES
  writer,     \* epoch of the process that holds .writer.lock, 0 for none
  wpc,        \* where that process is
  wrevision,  \* its _revision
  wslot,      \* its _slot
  wnotice,    \* its _notice.status
  wscene,     \* the record publish is writing
  wleft       \* the halves of it not yet copied to the mapping

writerVars == <<writer, wpc, wrevision, wslot, wnotice, wscene, wleft>>

WriterTypeOK ==
  /\ writer \in 0 .. MaxEpoch
  /\ wpc \in {"none", "staged", "linked", "idle", "writing", "admitted",
              "stored", "closing"}
  /\ wrevision \in Revisions
  /\ wslot \in Slots
  /\ wnotice \in Statuses
  /\ wscene \in Content
  /\ wleft \in SUBSET Halves

WriterInit ==
  /\ writer = 0
  /\ wpc = "none"
  /\ wrevision = 0
  /\ wslot = 0
  /\ wnotice = PENDING
  /\ wscene = NoScene
  /\ wleft = {}

\* The locals of publish are gone once it returns or raises.
Return(pc) == wpc' = pc /\ wscene' = NoScene /\ wleft' = {}

-----------------------------------------------------------------------------
(* Opening a file under the public path *)

\* _validate_target: there is no file, or one with no second name.
TargetValid == path = 0 \/ nlink = 1

\* __init__ up to the second validation: take the lock, validate the target,
\* prepare a file with an empty word under a staging name.
Stage ==
  /\ writer = 0
  /\ born < MaxEpoch
  /\ TargetValid
  /\ born' = born + 1
  /\ writer' = born'
  /\ process' = [process EXCEPT ![born'] = "running"]
  /\ created' = [created EXCEPT ![born'] = now]
  /\ wpc' = "staged"
  /\ wrevision' = 0
  /\ wslot' = 0
  /\ wnotice' = PENDING
  /\ UNCHANGED <<now, path, nlink, word, image, issued, wscene, wleft>>

\* The first file at the path: os.link gives the staging file a second name.
Link ==
  /\ wpc = "staged"
  /\ path = 0
  /\ path' = writer
  /\ nlink' = 2
  /\ wpc' = "linked"
  /\ UNCHANGED <<now, born, process, created, word, image, issued, writer,
                 wrevision, wslot, wnotice, wscene, wleft>>

\* staging.unlink()
Unlink ==
  /\ wpc = "linked"
  /\ nlink' = 1
  /\ wpc' = "idle"
  /\ UNCHANGED <<now, born, process, path, created, word, image, issued,
                 writer, wrevision, wslot, wnotice, wscene, wleft>>

\* Over an earlier epoch's file: os.replace.
Replace ==
  /\ wpc = "staged"
  /\ path # 0
  /\ path' = writer
  /\ nlink' = 1
  /\ wpc' = "idle"
  /\ UNCHANGED <<now, born, process, created, word, image, issued, writer,
                 wrevision, wslot, wnotice, wscene, wleft>>

\* The except branch of __init__: the staging name and the lock go, a file
\* already linked to the public path stays there.
AbandonOpen ==
  /\ Interruptible
  /\ wpc \in {"staged", "linked"}
  /\ nlink' = 1
  /\ writer' = 0
  /\ Return("none")
  /\ UNCHANGED <<now, born, process, path, created, word, image, issued,
                 wrevision, wslot, wnotice>>

-----------------------------------------------------------------------------
(* Publishing *)

\* invalidate(status): the revision advances and the slot stays.
InvalidateInPlace(st) ==  \* mutant: the revision stays
  /\ wrevision < MaxRevision
  /\ word' = [word EXCEPT ![writer] = Word(wrevision, st, wslot)]
  /\ wnotice' = st
  /\ UNCHANGED wrevision
InvalidateUnannounced(st) ==  \* mutant: the notice stays
  /\ wrevision < MaxRevision
  /\ wrevision' = wrevision + 1
  /\ word' = [word EXCEPT ![writer] = Word(wrevision + 1, st, wslot)]
  /\ UNCHANGED wnotice
InvalidateUnbounded(st) ==  \* mutant: no check of the revision capacity
  /\ wrevision' = wrevision + 1
  /\ word' = [word EXCEPT ![writer] = Word(wrevision + 1, st, wslot)]
  /\ wnotice' = st
DoInvalidate(st) ==
  /\ wrevision < MaxRevision
  /\ wrevision' = wrevision + 1
  /\ word' = [word EXCEPT ![writer] = Word(wrevision + 1, st, wslot)]
  /\ wnotice' = st

Invalidate(st) ==
  /\ wpc \in {"idle", "closing"}
  /\ DoInvalidate(st)
  /\ UNCHANGED <<now, born, process, path, nlink, created, image, issued,
                 writer, wpc, wslot, wscene, wleft>>

\* _encode: the record of the next revision, for the slot that is not active.
ActiveSlotRecord(made, life) ==  \* mutant
  [revision |-> wrevision + 1, slot |-> wslot, made |-> made,
   until |-> made + life]
Record(made, life) ==
  [revision |-> wrevision + 1, slot |-> 1 - wslot, made |-> made,
   until |-> made + life]

\* publish up to the copy, where both admissions pass.  One that fails is an
\* Invalidate: the notice is then not OK and the except branch adds nothing.
BeginPublish(made, life) ==
  /\ wpc = "idle"
  /\ wrevision < MaxRevision
  /\ created[writer] <= made
  /\ Admissible(Record(made, life), now)
  /\ wpc' = "writing"
  /\ wscene' = Record(made, life)
  /\ wleft' = Halves
  /\ issued' = [issued EXCEPT ![<<writer, wrevision + 1>>] = Record(made, life)]
  /\ UNCHANGED <<now, born, process, path, nlink, created, word, image, writer,
                 wrevision, wslot, wnotice>>

\* publish of a scene prepared before this epoch raises before any admission:
\* the except branch withdraws an OK notice, and announces a first failure.
RefuseStale(made) ==
  /\ wpc = "idle"
  /\ wrevision < MaxRevision
  /\ made < created[writer]
  /\ wnotice = OK \/ wrevision = 0
  /\ DoInvalidate(INVALID)
  /\ UNCHANGED <<now, born, process, path, nlink, created, image, issued,
                 writer, wpc, wslot, wscene, wleft>>

\* One piece of the slice assignment into the mapping.
WriteHalf(h) ==
  /\ wpc = "writing"
  /\ h \in wleft
  /\ wleft' = wleft \ {h}
  /\ image' = [image EXCEPT ![<<writer, wscene.slot, h>>] = wscene]
  /\ UNCHANGED <<now, born, process, path, nlink, created, word, issued,
                 writer, wpc, wrevision, wslot, wnotice, wscene>>

\* The final admission, after the copy: the scene may have expired meanwhile.
Admit ==
  /\ wpc = "writing"
  /\ wleft = {}
  /\ Admissible(wscene, now)
  /\ wpc' = "admitted"
  /\ UNCHANGED <<fileVars, writer, wrevision, wslot, wnotice, wscene, wleft>>

RefuseExpired ==
  /\ wpc = "writing"
  /\ wleft = {}
  /\ ~Admissible(wscene, now)
  /\ DoInvalidate(INVALID)
  /\ Return("idle")
  /\ UNCHANGED <<now, born, process, path, nlink, created, image, issued,
                 writer, wslot>>

\* The release store of the new word, and only then the writer's own state.
Store ==
  /\ wpc = "admitted"
  /\ word' = [word EXCEPT ![writer] = Word(wrevision + 1, OK, wscene.slot)]
  /\ wpc' = "stored"
  /\ UNCHANGED <<now, born, process, path, nlink, created, image, issued,
                 writer, wrevision, wslot, wnotice, wscene, wleft>>

CommitSameSlot ==  \* mutant: the active slot is not switched
  /\ wpc = "stored"
  /\ wrevision' = wrevision + 1
  /\ wnotice' = OK
  /\ Return("idle")
  /\ UNCHANGED <<fileVars, writer, wslot>>
CommitSameRevision ==  \* mutant: the revision is used again
  /\ wpc = "stored"
  /\ wslot' = wscene.slot
  /\ wnotice' = OK
  /\ Return("idle")
  /\ UNCHANGED <<fileVars, writer, wrevision>>
Commit ==
  /\ wpc = "stored"
  /\ wrevision' = wrevision + 1
  /\ wslot' = wscene.slot
  /\ wnotice' = OK
  /\ Return("idle")
  /\ UNCHANGED <<fileVars, writer>>

\* KeyboardInterrupt inside publish: its except branch, then the node leaves
\* spin for destroy_node, which can only invalidate and close.
Interrupt ==
  /\ Interruptible
  /\ wpc \in {"writing", "admitted", "stored"}
  /\ IF wnotice = OK \/ wrevision = 0
     THEN DoInvalidate(INVALID)
     ELSE UNCHANGED <<wrevision, word, wnotice>>
  /\ Return("closing")
  /\ UNCHANGED <<now, born, process, path, nlink, created, image, issued,
                 writer, wslot>>

\* close: a last invalidation, then the lock is released.
CloseSilently ==  \* mutant: the lock is released without an invalidation
  /\ wpc \in {"idle", "closing"}
  /\ wrevision < MaxRevision
  /\ writer' = 0
  /\ Return("none")
  /\ UNCHANGED <<fileVars, wrevision, wslot, wnotice>>
Close ==
  /\ wpc \in {"idle", "closing"}
  /\ DoInvalidate(INVALID)
  /\ writer' = 0
  /\ Return("none")
  /\ UNCHANGED <<now, born, process, path, nlink, created, image, issued,
                 wslot>>

-----------------------------------------------------------------------------
(* The process and the machine around it *)

\* A writer process ends, at any point of its life, with or without close: the
\* system closes its files, and with them the lock.
Exit(e) ==
  /\ process[e] = "running"
  /\ process' = [process EXCEPT ![e] = "exited"]
  /\ IF writer = e
     THEN writer' = 0 /\ Return("none")
     ELSE UNCHANGED <<writer, wpc, wscene, wleft>>
  /\ UNCHANGED <<now, born, path, nlink, created, word, image, issued,
                 wrevision, wslot, wnotice>>

RecyclePid(e) ==
  /\ PidReuse
  /\ process[e] = "exited"
  /\ process' = [process EXCEPT ![e] = "recycled"]
  /\ UNCHANGED <<now, born, path, nlink, created, word, image, issued,
                 writerVars>>

\* Damage to the slot the word of the public file points to.
Corrupt(h) ==
  /\ Corruptible
  /\ path # 0
  /\ image[<<path, word[path].slot, h>>] # NoScene
  /\ image' = [image EXCEPT ![<<path, word[path].slot, h>>] = NoScene]
  /\ UNCHANGED <<now, born, process, path, nlink, created, word, issued,
                 writerVars>>

Tick ==
  /\ now < MaxTime
  /\ now' = now + 1
  /\ UNCHANGED <<born, process, path, nlink, created, word, image, issued,
                 writerVars>>

WriterNext ==
  \/ Stage \/ Link \/ Unlink \/ Replace \/ AbandonOpen
  \/ \E st \in {PENDING, INVALID} : Invalidate(st)
  \/ \E made \in 0 .. now, life \in Lifetimes : BeginPublish(made, life)
  \/ \E made \in 0 .. now : RefuseStale(made)
  \/ \E h \in Halves : WriteHalf(h)
  \/ Admit \/ RefuseExpired \/ Store \/ Commit \/ Interrupt \/ Close

WorldNext ==
  \/ \E e \in Epochs : Exit(e) \/ RecyclePid(e)
  \/ \E h \in Halves : Corrupt(h)
  \/ Tick

=============================================================================
