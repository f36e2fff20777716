--------------------------- MODULE SceneWordProofs ---------------------------
(***************************************************************************)
(* Proofs about the double buffer: what the publication word says of the   *)
(* slots, and what a reader may conclude from reading it twice.            *)
(***************************************************************************)
EXTENDS SharedSceneProofs

\* What the word in shared memory is while its writer lives, by the place the
\* writer is at.
WordInv ==
  /\ \A e \in Epochs : e > born => word[e] = FirstWord
  /\ wpc \in {"staged", "linked"} =>
       wrevision = 0 /\ wslot = 0 /\ wnotice = PENDING
  /\ wpc \in Fresh \cup {"writing", "admitted"} =>
       word[writer] = Word(wrevision, wnotice, wslot)
  /\ wpc \in Drafting => wscene.slot = 1 - wslot
  /\ wpc = "stored" =>
       word[writer] = Word(wrevision + 1, OK, wscene.slot)
  /\ wpc = "closing" => word[writer].revision <= wrevision + 1
  /\ ~Interruptible => wpc # "closing"

\* An OK word points to the record issued under its revision, whole.
PointInv ==
  \A e \in Epochs, h \in Halves :
    word[e].status = OK =>
      /\ image[<<e, word[e].slot, h>>] # NoScene
      /\ image[<<e, word[e].slot, h>>] = issued[<<e, word[e].revision>>]
      /\ image[<<e, word[e].slot, h>>].revision = word[e].revision
      /\ image[<<e, word[e].slot, h>>].slot = word[e].slot

\* What the writer has copied of its record is there.
DraftInv ==
  /\ wpc \in Drafting =>
       \A h \in Halves \ wleft : image[<<writer, wscene.slot, h>>] = wscene
  /\ wpc \in {"admitted", "stored"} => wleft = {}

SlotInv == Corruptible \/ (PointInv /\ DraftInv)

\* What the reader has copied while the word did not move.
WholeSoFar ==
  rpc = "copy" /\ word[rfile] = rbefore =>
    \A h \in Halves \ rleft :
      /\ rcopy[h] # NoScene
      /\ rcopy[h] = issued[<<rfile, rbefore.revision>>]
      /\ rcopy[h].revision = rbefore.revision
      /\ rcopy[h].slot = rbefore.slot

CopyInv ==
  /\ rpc \notin {"new", "ready", "open", "load"} =>
       rbefore.revision <= word[rfile].revision
  /\ Corruptible \/ WholeSoFar

DInv == IInv /\ WordInv /\ SlotInv /\ CopyInv /\ OnlyTheLockHolderVouches

\* The fields a word is made of can be read back.
LEMMA WordFields ==
  ASSUME NEW r, NEW st, NEW s
  PROVE  /\ Word(r, st, s).revision = r
         /\ Word(r, st, s).status = st
         /\ Word(r, st, s).slot = s
BY DEF Word

\* At the start no word is OK and no slot has a record.
LEMMA WordInit == Init => WordInv /\ SlotInv /\ CopyInv /\ OnlyTheLockHolderVouches
BY BoundsAssumption
  DEF Init, FileInit, WriterInit, ReaderInit, WordInv, SlotInv, PointInv,
      DraftInv, CopyInv, WholeSoFar,
      OnlyTheLockHolderVouches, Fresh, Drafting, FirstWord, Word, PENDING, OK

\* Every action of the writer leaves the word and its own state in step.
LEMMA WordStep ==
  ASSUME IInv, WordInv, WriterNext
  PROVE  WordInv'
<1> USE BoundsAssumption
    DEF IInv, TypeOK, FileTypeOK, WriterTypeOK, LockInv, WordInv, Fresh, Drafting
<1>1. CASE Stage
  BY <1>1 DEF Stage, Epochs, FirstWord
<1>2. CASE Link
  BY <1>2 DEF Link
<1>3. CASE Unlink
  BY <1>3 DEF Unlink
<1>4. CASE Replace
  BY <1>4 DEF Replace
<1>5. CASE AbandonOpen
  BY <1>5 DEF AbandonOpen, Return
<1>6. ASSUME NEW st \in {PENDING, INVALID}, DoInvalidate(st), wpc # "none"
      PROVE  /\ word'[writer] = Word(wrevision', st, wslot)
             /\ wnotice' = st
             /\ \A e \in Epochs : e # writer => word'[e] = word[e]
             /\ writer \in Epochs
             /\ word'[writer].revision <= wrevision' + 1
  <2>1. writer \in Epochs /\ wrevision' = wrevision + 1 /\ wrevision \in Nat
    BY <1>6 DEF DoInvalidate, Epochs, Revisions
  <2>2. word'[writer] = Word(wrevision + 1, st, wslot)
    BY <1>6, <2>1 DEF DoInvalidate
  <2>3. word'[writer].revision = wrevision + 1
    BY <2>2, WordFields
  <2> QED
    BY <1>6, <2>1, <2>2, <2>3 DEF DoInvalidate
<1>7. ASSUME NEW st \in {PENDING, INVALID}, Invalidate(st) PROVE WordInv'
  BY <1>6, <1>7 DEF Invalidate
<1>8. ASSUME NEW made \in 0 .. now, NEW life \in Lifetimes,
             BeginPublish(made, life)
      PROVE  WordInv'
  BY <1>8 DEF BeginPublish, Record
<1>9. ASSUME NEW made \in 0 .. now, RefuseStale(made) PROVE WordInv'
  BY <1>6, <1>9 DEF RefuseStale
<1>10. ASSUME NEW h \in Halves, WriteHalf(h) PROVE WordInv'
  BY <1>10 DEF WriteHalf
<1>11. CASE Admit
  BY <1>11 DEF Admit, fileVars
<1>12. CASE RefuseExpired
  BY <1>6, <1>12 DEF RefuseExpired, Return
<1>13. CASE Store
  BY <1>13 DEF Store, Epochs
<1>14. CASE Commit
  BY <1>14 DEF Commit, Return, fileVars
<1>15. CASE Interrupt
  <2>1. CASE DoInvalidate(INVALID)
    BY <1>6, <1>15, <2>1 DEF Interrupt, Return
  <2>2. CASE UNCHANGED <<wrevision, word, wnotice>>
    <3>1. wrevision \in Nat
      BY DEF Revisions
    <3>2. word[writer].revision <= wrevision + 1
      BY <1>15, <3>1, WordFields DEF Interrupt
    <3> QED
      BY <1>15, <2>2, <3>2 DEF Interrupt, Return
  <2> QED
    BY <1>15, <2>1, <2>2 DEF Interrupt
<1>16. CASE Close
  BY <1>6, <1>16 DEF Close, Return
<1> QED
  BY <1>1, <1>2, <1>3, <1>4, <1>5, <1>7, <1>8, <1>9, <1>10, <1>11, <1>12,
     <1>13, <1>14, <1>15, <1>16 DEF WriterNext

\* Only the writer's own word moves.  Short of an interrupt every move
\* advances the revision, and a move to OK always does.
LEMMA WordMoves ==
  ASSUME IInv, WordInv, WriterNext, NEW e \in Epochs
  PROVE  \/ word'[e] = word[e]
         \/ /\ e = writer
            /\ word[e].revision <= word'[e].revision
            /\ \/ word[e].revision < word'[e].revision
               \/ Interruptible /\ word'[e].status # OK
            /\ word'[e].status = OK =>
                 /\ wpc = "admitted"
                 /\ word' = [word EXCEPT ![writer] =
                              Word(wrevision + 1, OK, wscene.slot)]
<1> USE DEF IInv, TypeOK, FileTypeOK, WriterTypeOK, LockInv, WordInv, Fresh,
            Drafting
<1>1. ASSUME NEW st \in {PENDING, INVALID}, DoInvalidate(st), wpc # "none"
      PROVE  \/ word'[e] = word[e]
             \/ /\ e = writer
                /\ word'[e].revision = wrevision + 1
                /\ word'[e].status # OK
  BY <1>1, WordFields DEF DoInvalidate, PENDING, INVALID, OK
<1>2. /\ wrevision \in Nat
      /\ wpc # "none" => writer \in Epochs
  BY DEF Revisions, Epochs
<1>3. wpc \in {"idle", "writing", "admitted"} => word[writer].revision = wrevision
  BY WordFields
<1>4. wpc = "stored" => word[writer].revision = wrevision + 1
  BY WordFields
<1>5. CASE \/ (\E st \in {PENDING, INVALID} : Invalidate(st))
           \/ (\E made \in 0 .. now : RefuseStale(made))
           \/ RefuseExpired \/ Close \/ Interrupt
  <2>1. PICK st \in {PENDING, INVALID} :
             DoInvalidate(st) \/ (Interrupt /\ UNCHANGED word)
    BY <1>5 DEF Invalidate, RefuseStale, RefuseExpired, Close, Interrupt
  <2>2. /\ wpc \in {"idle", "writing", "admitted", "stored", "closing"}
        /\ wpc \in {"stored", "closing"} => Interruptible
    BY <1>5 DEF Invalidate, RefuseStale, RefuseExpired, Close, Interrupt
  <2>3. CASE UNCHANGED word
    BY <2>3
  <2>4. CASE DoInvalidate(st)
    <3>1. e = writer => word[e].revision <= wrevision + 1
      BY <1>2, <1>3, <1>4, <2>2
    <3>2. e = writer /\ ~Interruptible => word[e].revision = wrevision
      BY <1>3, <2>2
    <3> QED
      BY <1>1, <1>2, <2>2, <2>4, <3>1, <3>2
  <2> QED
    BY <2>1, <2>3, <2>4
<1>6. CASE Store
  <2>1. /\ wpc = "admitted" /\ writer \in Epochs
        /\ word' = [word EXCEPT ![writer] =
                      Word(wrevision + 1, OK, wscene.slot)]
    BY <1>2, <1>6 DEF Store
  <2>2. word'[writer].revision = wrevision + 1 /\ word'[writer].status = OK
    BY <2>1, WordFields
  <2>3. e # writer => word'[e] = word[e]
    BY <2>1
  <2> QED
    BY <1>2, <1>3, <2>1, <2>2, <2>3
<1>7. CASE UNCHANGED word
  BY <1>7
<1> QED
  BY <1>5, <1>6, <1>7 DEF WriterNext, Stage, Link, Unlink, Replace, AbandonOpen,
     BeginPublish, Record, WriteHalf, Admit, Commit, fileVars

\* No process that has given up the lock is left with an OK word.
LEMMA VouchStep ==
  ASSUME IInv, WordInv, OnlyTheLockHolderVouches, WriterNext \/ WorldNext
  PROVE  OnlyTheLockHolderVouches'
<1> USE DEF IInv, TypeOK, FileTypeOK, WriterTypeOK, LockInv, WordInv, Fresh,
            Drafting, OnlyTheLockHolderVouches
<1>1. FirstWord.status # OK
  BY WordFields DEF FirstWord, PENDING, OK
<1>2. CASE Stage
  BY <1>1, <1>2 DEF Stage, Epochs
<1>3. CASE AbandonOpen
  <2>1. word[writer].status # OK
    BY <1>3, WordFields DEF AbandonOpen, PENDING, OK
  <2> QED
    BY <1>3, <2>1 DEF AbandonOpen
<1>4. CASE Close
  <2>1. writer \in Epochs
    BY <1>4 DEF Close, Epochs
  <2>2. word'[writer].status # OK
    BY <1>4, <2>1, WordFields DEF Close, DoInvalidate, INVALID, OK
  <2>3. \A e \in Epochs : e # writer => word'[e] = word[e]
    BY <1>4 DEF Close, DoInvalidate
  <2> QED
    BY <1>4, <2>2, <2>3 DEF Close
<1>5. CASE WriterNext /\ UNCHANGED <<writer, process>>
  <2>1. \A e \in Epochs : word'[e] # word[e] => e = writer
    BY <1>5, WordMoves
  <2> QED
    BY <1>5, <2>1
<1>6. ASSUME NEW e \in Epochs, Exit(e) PROVE OnlyTheLockHolderVouches'
  BY <1>6 DEF Exit
<1>7. CASE UNCHANGED <<writer, word>> /\
           \A e \in Epochs : process'[e] = "running" => process[e] = "running"
  BY <1>7
<1>8. CASE WorldNext
  BY <1>6, <1>7, <1>8 DEF WorldNext, RecyclePid, Corrupt, Tick, writerVars
<1> QED
  BY <1>2, <1>3, <1>4, <1>5, <1>8 DEF WriterNext, Link, Unlink, Replace,
     Invalidate, BeginPublish, Record, RefuseStale, WriteHalf, Admit, RefuseExpired,
     Store, Commit, Interrupt, fileVars

\* A step of any process leaves the bytes of the slot a healthy word points to.
LEMMA ActiveKept ==
  ASSUME ~Corruptible, IInv, WordInv, WriterNext \/ WorldNext,
         NEW e \in Epochs, NEW h \in Halves, word[e].status = OK
  PROVE  image'[<<e, word[e].slot, h>>] = image[<<e, word[e].slot, h>>]
<1> USE DEF IInv, TypeOK, FileTypeOK, WriterTypeOK
<1>1. CASE UNCHANGED image
  BY <1>1
<1>2. ASSUME NEW g \in Halves, WriteHalf(g)
      PROVE  image'[<<e, word[e].slot, h>>] = image[<<e, word[e].slot, h>>]
  <2>1. /\ wpc = "writing"
        /\ image' = [image EXCEPT ![<<writer, wscene.slot, g>>] = wscene]
    BY <1>2 DEF WriteHalf
  <2>2. word[writer].slot = wslot /\ wscene.slot = 1 - wslot
    BY <2>1, WordFields DEF WordInv, Fresh, Drafting
  <2>3. wscene.slot # wslot
    BY <2>2 DEF Slots
  <2>4. <<e, word[e].slot, h>> # <<writer, wscene.slot, g>>
    BY <2>2, <2>3
  <2>5. word[e].slot \in Slots
    BY DEF Words
  <2> QED
    BY <2>1, <2>4, <2>5
<1> QED
  BY <1>1, <1>2 DEF WriterNext, WorldNext, Stage, Link, Unlink, Replace,
     AbandonOpen, Invalidate, BeginPublish, Record, RefuseStale, Admit, RefuseExpired,
     Store, Commit, Interrupt, Close, Exit, RecyclePid, Corrupt, Tick, fileVars

\* The halves of a record already written stay until it is committed.
LEMMA DraftStep ==
  ASSUME ~Corruptible, IInv, WordInv, DraftInv, WriterNext \/ WorldNext
  PROVE  DraftInv'
<1> USE DEF IInv, TypeOK, FileTypeOK, WriterTypeOK, DraftInv, Drafting
<1>1. CASE wpc' \notin Drafting
  BY <1>1
<1>2. CASE UNCHANGED <<wpc, wleft, image, writer, wscene>>
  BY <1>2
<1>3. ASSUME NEW made \in 0 .. now, NEW life \in Lifetimes,
             BeginPublish(made, life)
      PROVE  DraftInv'
  BY <1>3 DEF BeginPublish, Record
<1>4. ASSUME NEW h \in Halves, WriteHalf(h) PROVE DraftInv'
  <2>1. /\ wpc = "writing" /\ UNCHANGED <<wpc, writer, wscene>>
        /\ wleft' = wleft \ {h}
        /\ image' = [image EXCEPT ![<<writer, wscene.slot, h>>] = wscene]
    BY <1>4 DEF WriteHalf
  <2>2. writer \in Epochs /\ wscene.slot \in Slots
    BY <2>1 DEF LockInv, WordInv, Epochs, Slots
  <2>3. ASSUME NEW g \in Halves \ wleft'
        PROVE  image'[<<writer, wscene.slot, g>>] = wscene
    <3>1. CASE g = h
      BY <2>1, <2>2, <3>1
    <3>2. CASE g # h
      <4>1. g \in Halves \ wleft
        BY <2>1, <2>3, <3>2
      <4>2. image[<<writer, wscene.slot, g>>] = wscene
        BY <2>1, <4>1
      <4> QED
        BY <2>1, <2>2, <3>2, <4>2
    <3> QED
      BY <3>1, <3>2
  <2> QED
    BY <2>1, <2>3
<1>5. CASE Admit
  BY <1>5 DEF Admit, fileVars
<1>6. CASE Store
  BY <1>6 DEF Store
<1>7. ASSUME NEW e \in Epochs, Exit(e) PROVE DraftInv'
  BY <1>7 DEF Exit, Return
<1> QED
  BY <1>1, <1>2, <1>3, <1>4, <1>5, <1>6, <1>7
  DEF WriterNext, WorldNext, Stage, Link, Unlink, Replace, AbandonOpen,
      Invalidate, RefuseStale, RefuseExpired, Commit, Interrupt, Close,
      RecyclePid, Corrupt, Tick, Return, writerVars

\* What an OK word points to stays the whole record of its revision.
LEMMA PointStep ==
  ASSUME ~Corruptible, IInv, WordInv, DraftInv, PointInv, WriterNext \/ WorldNext
  PROVE  PointInv'
<1> USE DEF IInv
<1> SUFFICES ASSUME NEW e \in Epochs, NEW h \in Halves, word'[e].status = OK
             PROVE  /\ image'[<<e, word'[e].slot, h>>] # NoScene
                    /\ image'[<<e, word'[e].slot, h>>]
                         = issued'[<<e, word'[e].revision>>]
                    /\ image'[<<e, word'[e].slot, h>>].revision = word'[e].revision
                    /\ image'[<<e, word'[e].slot, h>>].slot = word'[e].slot
  BY DEF PointInv
<1>1. CASE word'[e] = word[e]
  <2>1. image'[<<e, word[e].slot, h>>] = image[<<e, word[e].slot, h>>]
    BY <1>1, ActiveKept
  <2>2. word[e].revision \in Revisions
    BY DEF TypeOK, FileTypeOK, Words
  <2>3. /\ image[<<e, word[e].slot, h>>] # NoScene
        /\ image[<<e, word[e].slot, h>>] = issued[<<e, word[e].revision>>]
        /\ image[<<e, word[e].slot, h>>].revision = word[e].revision
        /\ image[<<e, word[e].slot, h>>].slot = word[e].slot
    BY <1>1 DEF PointInv
  <2>4. issued'[<<e, word[e].revision>>] = issued[<<e, word[e].revision>>]
    BY <2>2, <2>3, OthersKeep
  <2> QED
    BY <1>1, <2>1, <2>3, <2>4
<1>2. CASE word'[e] # word[e]
  <2>1. WriterNext
    BY <1>2 DEF WorldNext, Exit, RecyclePid, Corrupt, Tick
  <2>2. /\ e = writer /\ wpc = "admitted"
        /\ word' = [word EXCEPT ![writer] =
                      Word(wrevision + 1, OK, wscene.slot)]
    BY <1>2, <2>1, WordMoves
  <2>3. word'[e] = Word(wrevision + 1, OK, wscene.slot)
    BY <2>2 DEF TypeOK, FileTypeOK
  <2>4. word'[e].revision = wrevision + 1 /\ word'[e].slot = wscene.slot
    BY <2>3, WordFields
  <2>5. UNCHANGED <<image, issued>>
    <3>1. word # word'
      BY <1>2
    <3> QED
      BY <2>1, <2>2, <3>1 DEF WriterNext, Stage, Link, Unlink, Replace,
         AbandonOpen, Invalidate, BeginPublish, Record, RefuseStale, WriteHalf, Admit,
         RefuseExpired, Store, Commit, Interrupt, Close, fileVars
  <2>6. image[<<writer, wscene.slot, h>>] = wscene
    BY <2>2 DEF DraftInv, Drafting
  <2>7. /\ wscene # NoScene /\ wscene.revision = wrevision + 1
        /\ wscene = issued[<<writer, wrevision + 1>>]
    BY <2>2 DEF IssueInv, Drafting
  <2> QED
    BY <2>2, <2>4, <2>5, <2>6, <2>7
<1> QED
  BY <1>1, <1>2

-----------------------------------------------------------------------------
(* The reader's copy *)

\* While others act, a word that is where it was has not been away.
LEMMA CopyOthers ==
  ASSUME IInv, WordInv, CopyInv, WriterNext \/ WorldNext, UNCHANGED readerVars
  PROVE  CopyInv'
<1> USE DEF IInv, TypeOK, FileTypeOK, ReaderTypeOK
<1>1. CASE rpc \in {"new", "ready", "open", "load"}
  BY <1>1 DEF CopyInv, WholeSoFar, readerVars
<1>2. CASE rpc \notin {"new", "ready", "open", "load"}
  <2>1. rfile \in Epochs
    BY <1>2 DEF HoldInv, Epochs
  <2>2. \/ word'[rfile] = word[rfile]
        \/ /\ word[rfile].revision <= word'[rfile].revision
           /\ word'[rfile].status = OK
                => word[rfile].revision < word'[rfile].revision
    <3>1. CASE WriterNext
      BY <2>1, <3>1, WordMoves
    <3>2. CASE WorldNext
      BY <3>2 DEF WorldNext, Exit, RecyclePid, Corrupt, Tick
    <3> QED
      BY <3>1, <3>2
  <2>3. rbefore.revision <= word[rfile].revision
    BY <1>2 DEF CopyInv
  <2>4. word' \in [Epochs -> Words]
    BY WriterTypeStep, WorldTypeStep
  <2>5. /\ rbefore.revision \in Int
        /\ word[rfile].revision \in Int
        /\ word'[rfile].revision \in Int
    BY <2>1, <2>4 DEF Words, Revisions
  <2>6. rbefore.revision <= word'[rfile].revision
    BY <2>2, <2>3, <2>5
  <2>7. rpc = "copy" /\ word'[rfile] = rbefore => word[rfile] = rbefore
    <3>1. rpc = "copy" => rbefore.status = OK
      BY DEF CheckInv, PastWatch, Decoded
    <3> QED
      BY <2>2, <2>3, <2>5, <3>1
  <2>8. ASSUME ~Corruptible, rpc = "copy", word'[rfile] = rbefore,
               NEW h \in Halves \ rleft
        PROVE  /\ rcopy[h] # NoScene
               /\ rcopy[h] = issued'[<<rfile, rbefore.revision>>]
               /\ rcopy[h].revision = rbefore.revision
               /\ rcopy[h].slot = rbefore.slot
    <3>1. /\ rcopy[h] # NoScene
          /\ rcopy[h] = issued[<<rfile, rbefore.revision>>]
          /\ rcopy[h].revision = rbefore.revision
          /\ rcopy[h].slot = rbefore.slot
      BY <2>7, <2>8 DEF CopyInv, WholeSoFar
    <3>2. rbefore.revision \in Revisions
      BY DEF Words
    <3> QED
      BY <2>1, <3>1, <3>2, OthersKeep
  <2> QED
    BY <2>6, <2>8 DEF CopyInv, WholeSoFar, readerVars
<1> QED
  BY <1>1, <1>2

\* Each half is copied from the slot of a word that has not moved.
LEMMA CopyReader ==
  ASSUME IInv, SlotInv, CopyInv, BeginRefresh \/ RefreshStep \/ MonitorStep,
         UNCHANGED fileVars
  PROVE  CopyInv'
<1> USE DEF IInv, TypeOK, FileTypeOK, ReaderTypeOK, CopyInv, WholeSoFar, fileVars
<1>1. CASE rpc' \in {"new", "ready", "open", "load"}
  BY <1>1
<1>2. CASE LoadWord
  <2>1. word[rfile].revision \in Int
    BY <1>2 DEF LoadWord, HoldInv, Epochs, Words, Revisions
  <2> QED
    BY <1>2, <2>1 DEF LoadWord
<1>3. CASE BeginCopy
  BY <1>3 DEF BeginCopy, Watched
<1>4. ASSUME NEW h \in Halves, CopyHalf(h) PROVE CopyInv'
  <2>1. /\ rpc = "copy" /\ UNCHANGED <<rpc, rfile, rbefore, word, issued>>
        /\ rcopy' = [rcopy EXCEPT ![h] = image[<<rfile, rbefore.slot, h>>]]
        /\ rleft' = rleft \ {h}
    BY <1>4 DEF CopyHalf
  <2>2. rfile \in Epochs /\ rbefore.status = OK
    BY <2>1 DEF HoldInv, CheckInv, PastWatch, Decoded, Epochs
  <2>3. ASSUME ~Corruptible, word[rfile] = rbefore, NEW g \in Halves \ rleft'
        PROVE  /\ rcopy'[g] # NoScene
               /\ rcopy'[g] = issued[<<rfile, rbefore.revision>>]
               /\ rcopy'[g].revision = rbefore.revision
               /\ rcopy'[g].slot = rbefore.slot
    <3>1. CASE g = h
      <4>1. rcopy'[g] = image[<<rfile, word[rfile].slot, h>>]
        BY <2>1, <2>3, <3>1
      <4> QED
        BY <2>2, <2>3, <4>1 DEF SlotInv, PointInv
    <3>2. CASE g # h
      <4>1. g \in Halves \ rleft /\ rcopy'[g] = rcopy[g]
        BY <2>1, <2>3, <3>2
      <4> QED
        BY <2>1, <2>3, <4>1
    <3> QED
      BY <3>1, <3>2
  <2> QED
    BY <2>1, <2>3
<1>5. CASE /\ rpc \notin {"new", "ready", "open", "load"} /\ rpc' # "copy"
           /\ UNCHANGED <<rfile, rbefore>>
  BY <1>5
<1> QED
  BY <1>1, <1>2, <1>3, <1>4, <1>5, RejectsLeave
  DEF BeginRefresh, RefreshStep, MonitorStep, Keep, Drop, Open, SceneDecoded,
      CopyChecked, Prepare, Certify, RecheckWord, RecheckWriter, Leave,
      ResetFault, AcceptEpoch, CloseReader, Construct

-----------------------------------------------------------------------------
(* The theorems *)

\* Every step preserves the invariant of the word and the slots.
LEMMA DStep == DInv /\ [Next]_vars => DInv'
<1> SUFFICES ASSUME DInv, [Next]_vars PROVE DInv'
  OBVIOUS
<1> USE DEF DInv
<1>1. IInv'
  BY InvStep
<1>2. CASE OthersStep
  <2>1. /\ WriterNext \/ WorldNext
        /\ UNCHANGED readerVars
    BY <1>2 DEF OthersStep
  <2>2. WordInv'
    <3>1. CASE WriterNext
      BY <3>1, WordStep
    <3>2. CASE WorldNext
      <4>1. UNCHANGED <<word, born, wrevision, wslot, wnotice>>
        BY <3>2 DEF WorldNext, Exit, RecyclePid, Corrupt, Tick, writerVars
      <4>2. \/ UNCHANGED <<writer, wpc, wscene>>
            \/ wpc' = "none"
        BY <3>2 DEF WorldNext, Exit, RecyclePid, Corrupt, Tick, writerVars,
           Return
      <4> QED
        BY <4>1, <4>2 DEF WordInv, Fresh, Drafting
    <3> QED
      BY <2>1, <3>1, <3>2
  <2>3. SlotInv'
    BY <2>1, DraftStep, PointStep DEF SlotInv
  <2>4. CopyInv'
    BY <2>1, CopyOthers
  <2>5. OnlyTheLockHolderVouches'
    BY <2>1, VouchStep
  <2> QED
    BY <1>1, <2>2, <2>3, <2>4, <2>5
<1>3. CASE RefreshBegins \/ RefreshContinues \/ MonitorActs
  <2>1. /\ BeginRefresh \/ RefreshStep \/ MonitorStep
        /\ UNCHANGED <<fileVars, writerVars>>
    BY <1>3 DEF RefreshBegins, RefreshContinues, MonitorActs
  <2>2. CopyInv'
    BY <2>1, CopyReader
  <2>3. WordInv' /\ SlotInv' /\ OnlyTheLockHolderVouches'
    BY <2>1 DEF WordInv, SlotInv, PointInv, DraftInv, OnlyTheLockHolderVouches,
       fileVars, writerVars
  <2> QED
    BY <1>1, <2>2, <2>3
<1>4. CASE UNCHANGED vars
  <2>1. WordInv' /\ SlotInv' /\ OnlyTheLockHolderVouches' /\ CopyInv'
    BY <1>4 DEF WordInv, SlotInv, PointInv, DraftInv, OnlyTheLockHolderVouches,
       CopyInv, WholeSoFar, vars, fileVars, writerVars, readerVars
  <2> QED
    BY <1>1, <2>1
<1> QED
  BY <1>2, <1>3, <1>4 DEF Next

\* The word, the two slots, the writer's counters and a reader's half-made copy
\* stay related as the double buffering of publish and refresh needs.
THEOREM DoubleBuffer == Spec => []DInv
<1>1. Init => DInv
  BY InvInit, WordInit DEF DInv
<1> QED
  BY <1>1, DStep, PTL DEF Spec

\* Only the process that holds the lock can vouch for a scene, so a reader need
\* not ask whether a living process still has its writer open.
THEOREM LockHolderVouches == Spec => []OnlyTheLockHolderVouches
<1>1. DInv => OnlyTheLockHolderVouches
  BY DEF DInv
<1> QED
  BY <1>1, DoubleBuffer, PTL

\* Between two calls the revision topic's notice is the word.
THEOREM NoticeIsTheWord == Spec => []NoticeMatchesWord
<1>1. DInv => NoticeMatchesWord
  BY DEF DInv, WordInv, Fresh, NoticeMatchesWord
<1> QED
  BY <1>1, DoubleBuffer, PTL

\* Without damage from outside, a word that did not move across the copy proves
\* the copy whole, however often the writer has come back to the same slot.
THEOREM UnmovedWordProvesCopy ==
  ASSUME ~Corruptible
  PROVE  Spec => []UnmovedWordMeansWholeCopy
<1>1. DInv => UnmovedWordMeansWholeCopy
  BY DEF DInv, CopyInv, WholeSoFar, UnmovedWordMeansWholeCopy, Intact, Halves
<1> QED
  BY <1>1, DoubleBuffer, PTL

\* Without damage from outside, the slot of an OK word keeps its bytes.
THEOREM ActiveSlotKept ==
  ASSUME ~Corruptible
  PROVE  Spec => ActiveSlotIsImmutable
<1> DEFINE Kept ==
  \A e \in Epochs, h \in Halves :
    word[e].status = OK
      => image'[<<e, word[e].slot, h>>] = image[<<e, word[e].slot, h>>]
<1>1. DInv /\ [Next]_vars => [Kept]_vars
  <2> SUFFICES ASSUME DInv, Next PROVE Kept
    OBVIOUS
  <2>1. CASE OthersStep
    BY <2>1, ActiveKept DEF OthersStep, DInv
  <2>2. CASE RefreshBegins \/ RefreshContinues \/ MonitorActs
    BY <2>2 DEF RefreshBegins, RefreshContinues, MonitorActs, fileVars
  <2> QED
    BY <2>1, <2>2 DEF Next
<1> QED
  BY <1>1, DoubleBuffer, PTL DEF Spec, ActiveSlotIsImmutable

\* If no call of the writer is interrupted, every change of the word advances
\* its revision.
THEOREM RevisionsAdvance ==
  ASSUME ~Interruptible
  PROVE  Spec => RevisionAdvances
<1> DEFINE Advance ==
  \A e \in Epochs : word'[e] # word[e] => word'[e].revision > word[e].revision
<1>1. DInv /\ DInv' /\ [Next]_vars => [Advance]_vars
  <2> SUFFICES ASSUME DInv, DInv', Next, NEW e \in Epochs, word'[e] # word[e]
               PROVE  word'[e].revision > word[e].revision
    OBVIOUS
  <2>1. WriterNext
    BY DEF Next, OthersStep, RefreshBegins, RefreshContinues, MonitorActs,
       fileVars, WorldNext, Exit, RecyclePid, Corrupt, Tick
  <2>2. word[e].revision < word'[e].revision
    BY <2>1, WordMoves DEF DInv
  <2>3. word[e].revision \in Int /\ word'[e].revision \in Int
    BY DEF DInv, IInv, TypeOK, FileTypeOK, Words, Revisions
  <2> QED
    BY <2>2, <2>3
<1> QED
  BY <1>1, DoubleBuffer, PTL DEF Spec, RevisionAdvances

(***************************************************************************)
(* The scene of a writer that is gone.  Who has let go of the lock does    *)
(* not get it back, so none of the views of its epoch is vouched for again.*)
(***************************************************************************)

\* What a consumer may see of epoch e.
EpochViews(e) == [epoch : {e}, scene : Content]

\* The writer of epoch e was there, and has let go of the lock.
LetGo(e) == e <= born /\ writer # e

\* Each writer is of a new epoch.
LEMMA LetGoStays ==
  ASSUME NEW e \in Epochs, TypeOK, LetGo(e), [Next]_vars
  PROVE  LetGo(e)'
<1>1. \/ born' = born /\ writer' \in {writer, 0}
      \/ born' = born + 1 /\ writer' = born + 1
  BY DEF Next, vars, fileVars, writerVars, OthersStep, RefreshBegins, RefreshContinues,
     MonitorActs, WriterNext, WorldNext, Stage, Link, Unlink, Replace,
     AbandonOpen, Invalidate, BeginPublish, RefuseStale, WriteHalf, Admit,
     RefuseExpired, Store, Commit, Interrupt, Close, Exit, RecyclePid, Corrupt,
     Tick
<1>2. e \in Nat /\ e # 0 /\ born \in Nat
  BY BoundsAssumption DEF Epochs, TypeOK, FileTypeOK
<1> QED  BY <1>1, <1>2 DEF LetGo

\* Such a writer vouches for nothing.
LEMMA LetGoIsNoAuthority ==
  ASSUME NEW e \in Epochs, DInv, LetGo(e)
  PROVE  Authority \notin EpochViews(e)
<1>1. e # 0
  BY DEF Epochs
<1> QED  BY <1>1 DEF DInv, OnlyTheLockHolderVouches, LetGo, Authority, NoView, EpochViews

\* The view is one of those of its epoch.
LEMMA ViewOfEpoch ==
  ASSUME NEW e \in Epochs, TypeOK
  PROVE  View.epoch = e <=> View \in EpochViews(e)
<1>1. e # 0 /\ result \in Results
  BY DEF Epochs, TypeOK, ReaderTypeOK
<1>2. CASE result.status = OK
  <2>1. View = [epoch |-> result.epoch, scene |-> result.scene]
    BY <1>2 DEF View
  <2>2. result.scene \in Content
    BY <1>1 DEF Results
  <2> QED  BY <2>1, <2>2 DEF EpochViews
<1>3. CASE result.status # OK
  BY <1>1, <1>3 DEF View, NoView, EpochViews
<1> QED  BY <1>2, <1>3

\* Once the lock is no longer held by the writer of the epoch that consumers
\* see, nothing of that epoch stays visible: neither a close, an exit nor a
\* takeover is overlooked, and no other writer needs to come for it.
THEOREM ReleasedSceneIsDropped ==
  ASSUME NEW e \in Epochs, ~PidReuse
  PROVE  FairSpec /\ CallsProceed
           => (View.epoch = e /\ writer # e ~> View.epoch # e)
<1>1. NoView \notin EpochViews(e)
  BY DEF NoView, EpochViews, Epochs
<1>2. FairSpec /\ CallsProceed => LeavesRevoked(EpochViews(e))
  BY <1>1, RevokedSceneGoes
<1> DEFINE Seen == View \in EpochViews(e)
           Vouched == Authority \in EpochViews(e)
           Shown == View.epoch = e
           Holds == writer = e
<1>3. /\ View \in EpochViews(e) /\ Authority \notin EpochViews(e) <=> Seen /\ ~Vouched
      /\ View \notin EpochViews(e) \/ Authority \in EpochViews(e) <=> ~Seen \/ Vouched
  OBVIOUS
<1>4. DInv => (Seen <=> Shown)
  BY ViewOfEpoch DEF DInv, IInv
<1>5. DInv /\ Shown /\ ~Holds => LetGo(e)
  <2> SUFFICES ASSUME DInv, View.epoch = e, writer # e
               PROVE  LetGo(e)
    OBVIOUS
  <2>1. e # 0
    BY DEF Epochs
  <2>2. result.status = OK /\ View.epoch = result.epoch
    BY <2>1 DEF View, NoView
  <2> QED  BY <2>2 DEF DInv, IInv, LockInv, CheckInv, LetGo
<1>6. DInv /\ LetGo(e) /\ [Next]_vars => LetGo(e)'
  BY LetGoStays DEF DInv, IInv
<1>7. DInv /\ LetGo(e) => ~Vouched
  BY LetGoIsNoAuthority
<1> HIDE DEF Seen, Vouched, Shown, Holds
<1>8. FairSpec /\ CallsProceed => (Shown /\ ~Holds ~> ~Shown)
  BY <1>2, <1>3, <1>4, <1>5, <1>6, <1>7, DoubleBuffer, PTL
  DEF FairSpec, Spec, LeavesRevoked
<1>9. /\ Shown /\ ~Holds <=> View.epoch = e /\ writer # e
      /\ ~Shown <=> View.epoch # e
  BY DEF Shown, Holds
<1> QED  BY <1>8, <1>9, PTL

(***************************************************************************)
(* The scenes of an epoch whose word has come to rest.  A second call of   *)
(* refresh shows what that word denotes or nothing, a third does not       *)
(* accept it while nobody vouches for it.                                  *)
(***************************************************************************)

\* What the word of epoch e denotes, whether it vouches for it or not.
Denoted(e) == [epoch |-> e, scene |-> issued[<<e, word[e].revision>>]]

\* The second look of the call under way was at the word as it is.
Looked(e) == At(10) /\ rfile = e => rbefore = word[e]

\* The scene shown is what the word denotes.
Current(e) == View = Denoted(e) /\ View.scene # NoScene

\* Epoch e is shown, and not what the authority vouches for.
Stale(e) == View.epoch = e /\ Authority # View

\* RecheckWord looks at the word, and it rests.
LEMMA LookedStays ==
  ASSUME NEW e \in Epochs, Looked(e), [Next]_vars, word'[e] = word[e]
  PROVE  Looked(e)'
<1>1. CASE OthersStep \/ UNCHANGED vars
  BY <1>1, OthersLeaveTheCall DEF OthersStep, vars, readerVars, Looked, At
<1>2. CASE MonitorActs
  BY <1>2 DEF MonitorActs, MonitorStep, Construct, ResetFault, AcceptEpoch,
     CloseReader, Looked, At, Depth
<1>3. CASE Call
  <2> SUFFICES ASSUME At(10)', rfile' = e PROVE rbefore' = word[e]
    BY DEF Looked
  <2>1. rpc' \in {"writer", "path"}
    BY DEF At, Depth
  <2>2. RefreshContinues /\ (RecheckWord \/ RecheckWriter)
    BY <1>3, <2>1 DEF Call, RefreshBegins, BeginRefresh, Keep, Drop,
       RefreshContinues, RefreshStep, Open, LoadWord, WatchFails, EpochChanged,
       WriterUnhealthy, RevisionJump, BeginCopy, CopyHalf, CopyFails,
       SceneRefused, SceneDecoded, Prepare, Certify, CertifyFails, RecheckFails,
       Accept, Leave, Reject
  <2>3. CASE RecheckWord
    BY <2>3 DEF RecheckWord
  <2>4. CASE RecheckWriter
    BY <2>4 DEF RecheckWriter, Looked, At, Depth
  <2> QED  BY <2>2, <2>3, <2>4
<1> QED  BY <1>1, <1>2, <1>3 DEF Next, Call

\* A call shows what it showed before, nothing, or what it accepts.
LEMMA ViewMoves ==
  ASSUME [Next]_vars, CheckInv
  PROVE  View' \in {View, NoView} \/ (Call /\ Accept)
<1>1. CASE OthersStep \/ UNCHANGED vars
  BY <1>1 DEF OthersStep, vars, readerVars, View
<1>2. CASE MonitorActs
  BY <1>2 DEF MonitorActs, MonitorStep, Construct, ResetFault, AcceptEpoch,
     CloseReader, View, Without, OK, PENDING, INVALID
<1>3. CASE Call /\ ~Accept
  <2>1. CASE \/ WatchFails \/ EpochChanged \/ WriterUnhealthy \/ RevisionJump
             \/ CopyFails \/ SceneRefused \/ CertifyFails \/ RecheckFails
    BY <2>1, RejectShowsNothing DEF View
  <2>2. CASE BeginRefresh \/ LoadWord \/ SceneDecoded
    BY <2>2 DEF BeginRefresh, Keep, Drop, LoadWord, SceneDecoded, View, Without,
       OK, PENDING, INVALID
  <2>3. CASE \/ Open \/ BeginCopy \/ (\E h \in Halves : CopyHalf(h))
             \/ (\E ok \in BOOLEAN : Prepare(ok))
             \/ Certify \/ RecheckWord \/ RecheckWriter
    BY <2>3 DEF Open, BeginCopy, CopyHalf, Prepare, Certify, RecheckWord,
       RecheckWriter, View
  <2> QED  BY <1>3, <2>1, <2>2, <2>3 DEF Call, RefreshBegins, RefreshContinues,
     RefreshStep
<1> QED  BY <1>1, <1>2, <1>3 DEF Next, Call

\* What is accepted after such a look is what the word denotes.
LEMMA AcceptsTheCurrent ==
  ASSUME NEW e \in Epochs, IInv, Looked(e), Call, Accept, View'.epoch = e,
         word'[e] = word[e]
  PROVE  Current(e)'
<1>1. /\ rfile = e /\ Depth = 11 /\ UNCHANGED issued
      /\ View' = [epoch |-> rfile, scene |-> rcache.scene]
  BY DEF Call, RefreshBegins, RefreshContinues, fileVars, Accept, View, Depth
<1>2. rbefore = word[e]
  BY <1>1 DEF Looked, At
<1>3. /\ rcache.scene = issued[<<rfile, rbefore.revision>>]
      /\ rcache.scene # NoScene
  BY CacheIsDecoded DEF IInv, HoldInv, Accept, Decoded
<1> QED  BY <1>1, <1>2, <1>3 DEF Current, Denoted

\* From then on nothing else of the epoch is shown.
LEMMA CurrentStays ==
  ASSUME NEW e \in Epochs, IInv, Looked(e), Current(e), [Next]_vars,
         word'[e] = word[e], View'.epoch = e
  PROVE  Current(e)' /\ View' = View
<1>1. Denoted(e)' = Denoted(e)
  <2>1. word[e].revision \in Revisions
    BY DEF IInv, TypeOK, FileTypeOK, Words
  <2>2. issued[<<e, word[e].revision>>] # NoScene
    BY DEF Current, Denoted
  <2>3. issued'[<<e, word[e].revision>>] = issued[<<e, word[e].revision>>]
    BY <2>1, <2>2, OthersKeep DEF Next, OthersStep, RefreshBegins,
       RefreshContinues, MonitorActs, vars, fileVars, IInv
  <2> QED  BY <2>3 DEF Denoted
<1>2. NoView.epoch = 0 /\ e # 0
  BY DEF NoView, Epochs
<1>3. CASE Call /\ Accept
  <2>1. Current(e)'
    BY <1>3, AcceptsTheCurrent
  <2> QED  BY <1>1, <2>1 DEF Current
<1>4. CASE View' \in {View, NoView}
  BY <1>1, <1>2, <1>4 DEF Current
<1> QED  BY <1>3, <1>4, ViewMoves DEF IInv

\* No authority since the last certification vouched for what is shown.
Left == View \notin recent

\* The next certification of a stale scene that the word denotes leaves recent
\* without it, and it does not come back.
LEMMA CurrentLeaves ==
  ASSUME NEW e \in Epochs, IInv, Looked(e), Current(e), Stale(e), Stale(e)',
         [Next]_vars, word'[e] = word[e]
  PROVE  /\ Left => Left'
         /\ Call /\ ~At(9) /\ At(9)' => Left'
<1>1. View' = View
  BY CurrentStays DEF Stale
<1>2. PICK v : v = View
  OBVIOUS
<1>3. /\ Authority \notin {v} /\ Authority' \notin {v}
      /\ Forgotten({v}) <=> Left
      /\ Forgotten({v})' <=> Left'
  BY <1>1, <1>2 DEF Stale, Forgotten, Left
<1>4. Depth \in 0 .. 11 /\ Depth' \in 0 .. 11
  BY DEF Depth
<1>5. Left => Left'
  BY <1>3, ForgottenStays
<1>6. ASSUME Call, ~At(9), At(9)'
      PROVE  Left'
  <2>1. Depth < 9 /\ Depth' >= 9
    BY <1>4, <1>6 DEF At
  <2> QED  BY <1>3, <1>6, <2>1, CertifyForgets
<1> QED  BY <1>5, <1>6

\* Then it is not accepted again.
LEMMA LeftIsNotAccepted ==
  ASSUME NEW e \in Epochs, ~PidReuse, IInv, IInv', Looked(e), Current(e), Left,
         Stale(e), Stale(e)', [Next]_vars, word'[e] = word[e], Call
  PROVE  ~Accept
<1> SUFFICES ASSUME Accept PROVE FALSE
  OBVIOUS
<1>1. View' = View
  BY CurrentStays DEF Stale
<1>2. PICK v : v = View
  OBVIOUS
<1>3. Forgotten({v}) /\ View' # NoView
  BY <1>1, <1>2 DEF Forgotten, Left, Stale, NoView, Epochs
<1> QED  BY <1>1, <1>2, <1>3, AcceptedIsRemembered

\* A call of a stale scene goes on, or accepts a scene again.
LEMMA StaleGoesOn ==
  ASSUME NEW e \in Epochs, IInv, Stale(e)', <<Call>>_vars, NEW k \in 0 .. 11, At(k)
  PROVE  At(k + 1)' \/ (Accept /\ At(11) /\ ~At(1)')
<1>1. View' # NoView
  BY DEF Stale, NoView, Epochs
<1>2. Depth \in 0 .. 11 /\ Depth' \in 0 .. 11
  BY DEF Depth
<1>3. Depth' > Depth \/ (Accept /\ Depth = 11 /\ Depth' = 0)
  BY <1>1, CallGoesOn
<1> QED  BY <1>2, <1>3 DEF At

\* The word of epoch e is not written any more.
Resting(e) == <>[][word'[e] = word[e]]_vars

\* An epoch whose word has come to rest does not stay visible while stale.
LEMMA StaleIsDropped ==
  ASSUME NEW e \in Epochs, ~PidReuse
  PROVE  FairSpec /\ CallsProceed /\ Resting(e) => DropsRevoked(e)
<1> DEFINE P == Stale(e)
           D == Looked(e)
           C == Current(e)
           R == word'[e] = word[e]
           Moved == <<Call>>_vars
           Ends == Accept /\ At(11) /\ ~At(1)'
<1>1. /\ IInv /\ P' /\ Moved /\ ~Ends
      => /\ (At(0) => At(1)') /\ (At(1) => At(2)') /\ (At(2) => At(3)')
         /\ (At(3) => At(4)') /\ (At(4) => At(5)') /\ (At(5) => At(6)')
         /\ (At(6) => At(7)') /\ (At(7) => At(8)') /\ (At(8) => At(9)')
         /\ (At(9) => At(10)') /\ (At(10) => At(11)') /\ (At(11) => At(12)')
  <2> SUFFICES ASSUME IInv, P', Moved, ~Ends
               PROVE  \A k \in 0 .. 11 : At(k) => At(k + 1)'
    OBVIOUS
  <2> QED  BY StaleGoesOn
<1>2. [Next]_vars /\ ~Moved
      => /\ (At(0)' <=> At(0)) /\ (At(1)' <=> At(1)) /\ (At(2)' <=> At(2))
         /\ (At(3)' <=> At(3)) /\ (At(4)' <=> At(4)) /\ (At(5)' <=> At(5))
         /\ (At(6)' <=> At(6)) /\ (At(7)' <=> At(7)) /\ (At(8)' <=> At(8))
         /\ (At(9)' <=> At(9)) /\ (At(10)' <=> At(10)) /\ (At(11)' <=> At(11))
  BY WithoutACall
<1>3. /\ At(0) /\ ~At(12) /\ (~At(1) => ~At(10)) /\ (~At(1) => ~At(9)) /\ (~At(9) => ~At(11))
      /\ Ends => Accept /\ At(11) /\ ~At(1)'
  BY DEF At, Depth
<1>4. (~At(10) => D) /\ ([Next]_vars /\ R /\ D => D')
  BY LookedStays DEF Looked
<1>5. IInv /\ D /\ Moved /\ Accept /\ P' /\ R => C'
  BY AcceptsTheCurrent DEF Stale
<1>6. IInv /\ D /\ C /\ [Next]_vars /\ R /\ P' => C'
  BY CurrentStays DEF Stale
<1>7. IInv /\ D /\ C /\ P /\ P' /\ [Next]_vars /\ R
      => (Left => Left') /\ (Moved /\ ~At(9) /\ At(9)' => Left')
  BY CurrentLeaves
<1>8. IInv /\ IInv' /\ D /\ C /\ Left /\ P /\ P' /\ [Next]_vars /\ R /\ Moved
      => ~Accept
  BY LeftIsNotAccepted
<1>9. IInv /\ PathInv /\ P => MayCall
  BY VisibleMayCall DEF Stale, NoView, Epochs
<1>10. (Moved <=> <<RefreshBegins \/ RefreshContinues>>_vars) /\ ([R]_vars => R)
  BY DEF Call, vars, fileVars
<1>11. /\ P <=> View.epoch = e /\ Authority # View
       /\ P \/ View.epoch # e \/ Authority = View
       /\ ~P <=> View.epoch # e \/ Authority = View
  BY DEF Stale
<1> HIDE DEF P, D, C, Moved, Ends
<1>12. FairSpec /\ CallsProceed /\ Resting(e) => []<>~P
  BY <1>1, <1>2, <1>3, <1>4, <1>5, <1>6, <1>7, <1>8, <1>9, <1>10, Invariance,
     PathHolds, PTL
  DEF FairSpec, Spec, CallsProceed, Resting
<1> QED  BY <1>11, <1>12, PTL DEF DropsRevoked

\* RevokedIsDropped, when each epoch's word comes to rest: with one published
\* for ever, a revision between any two calls, refresh need not catch up.
THEOREM RevokedDropped ==
  ASSUME ~PidReuse
  PROVE  FairSpec /\ CallsProceed /\ (\A e \in Epochs : Resting(e)) => RevokedIsDropped
<1>1. ASSUME NEW e \in Epochs
      PROVE  FairSpec /\ CallsProceed /\ Resting(e) => DropsRevoked(e)
  BY StaleIsDropped
<1> QED  BY <1>1 DEF RevokedIsDropped

=============================================================================
