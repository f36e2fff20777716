-------------------------- MODULE SharedSceneProofs --------------------------
(***************************************************************************)
(* Proofs about the scene transport, for any number of epochs, revisions   *)
(* and instants: type correctness, the safety properties of the reader and *)
(* the refinement of SceneRegister.                                        *)
(***************************************************************************)
EXTENDS SharedScene, TLAPS

Drafting == {"writing", "admitted", "stored"}
Fresh == {"staged", "linked", "idle"}
Decoded == {"prepare", "certify", "word", "writer", "path"}
PastWatch == Decoded \cup {"copy"}

\* The writer holds the lock from Stage to Close, and what it stages is at the
\* path, or mapped by a reader, only from Link or Replace on.
LockInv ==
  /\ path <= born
  /\ writer <= born
  /\ rfile <= born
  /\ writer = 0 <=> wpc = "none"
  /\ wpc = "staged" => path # writer /\ rfile # writer
  /\ \A e \in Epochs : e > born => process[e] = "unborn"

\* A revision of an epoch is used for at most one record, and every record in
\* a slot is the one issued under its revision.
IssueInv ==
  /\ \A e \in Epochs, r \in Revisions : e > born => issued[<<e, r>>] = NoScene
  /\ wpc \in Fresh =>
       \A r \in Revisions : r > wrevision => issued[<<writer, r>>] = NoScene
  /\ wpc \in Drafting =>
       /\ wrevision < MaxRevision
       /\ wscene # NoScene
       /\ wscene.revision = wrevision + 1
       /\ wscene = issued[<<writer, wrevision + 1>>]
       /\ \A r \in Revisions : r > wrevision + 1 => issued[<<writer, r>>] = NoScene
  /\ \A e \in Epochs, s \in Slots, h \in Halves :
       image[<<e, s, h>>] # NoScene =>
         image[<<e, s, h>>] = issued[<<e, image[<<e, s, h>>].revision>>]

\* What the reader holds was issued under the revision it takes it for.
HoldInv ==
  /\ rpc \notin {"new", "ready"} => path # 0
  /\ rpc \notin {"new", "ready", "open"} => rfile # 0
  /\ rpc \notin PastWatch => rcopy = NoCopy
  /\ \A h \in Halves :
       rcopy[h] # NoScene =>
         rfile # 0 /\ rcopy[h] = issued[<<rfile, rcopy[h].revision>>]
  /\ rpc \in Decoded =>
       rscene # NoScene /\ rscene = issued[<<rfile, rbefore.revision>>]
  /\ rcache.epoch # 0 =>
       /\ rcache.scene # NoScene
       /\ rcache.scene = issued[<<rcache.epoch, rcache.revision>>]
  /\ rpc \in Decoded \ {"prepare"} => Cached

\* The checks a call of refresh has behind it.
CheckInv ==
  /\ rpc \in PastWatch =>
       /\ rbefore.status = OK
       /\ repoch = rfile
       /\ rfile \notin ForeignEpochs
       /\ rpidfd # "none"
  /\ rpc \in Decoded => ~rfault
  /\ rpc \in {"word", "writer", "path"} => Admissible(rscene, rcert)
  /\ rpc \in {"new", "open"} => result.status # OK
  /\ result.status = OK => result.epoch # 0 /\ result.epoch = rfile

\* After the word was read again it is the authority's, if only the two other
\* reads succeed; without pid reuse they tell the truth.
LookInv ==
  PidReuse \/
    /\ Authority \in recent
    /\ rpidfd # "stranger"
    /\ \A e \in Epochs : process[e] # "recycled"
    /\ rpc = "writer" /\ path = rfile /\ process[rfile] = "running"
         => [epoch |-> rfile, scene |-> rcache.scene] \in recent
    /\ rpc = "path" /\ path = rfile
         => [epoch |-> rfile, scene |-> rcache.scene] \in recent
    /\ AcceptedWasAuthoritative

ReaderSafety ==
  /\ NothingSupersededIsVisible
  /\ FaultHidesScene
  /\ OnlyTheAcceptedEpoch
  /\ CertifiedInTime

IInv == TypeOK /\ LockInv /\ IssueInv /\ HoldInv /\ CheckInv /\ LookInv
          /\ ReaderSafety

-----------------------------------------------------------------------------
(* Type correctness *)

\* A word made of typed parts is a word.
LEMMA WordTyped ==
  ASSUME NEW r \in Revisions, NEW st \in Statuses, NEW s \in Slots
  PROVE  Word(r, st, s) \in Words
BY DEF Word, Words

\* So is the word of a new file.
LEMMA FirstWordTyped == FirstWord \in Words
BY BoundsAssumption DEF FirstWord, Word, Words, Revisions, Statuses, Slots, PENDING

\* The capacity check leaves room for one more revision.
LEMMA NextRevision ==
  ASSUME TypeOK, wrevision < MaxRevision
  PROVE  wrevision + 1 \in Revisions
BY BoundsAssumption DEF TypeOK, WriterTypeOK, Revisions

\* Every variable has its type at the start.
LEMMA TypeInit == Init => TypeOK
<1> SUFFICES ASSUME Init PROVE TypeOK
  OBVIOUS
<1>1. FileTypeOK
  BY BoundsAssumption, FirstWordTyped
    DEF Init, FileInit, FileTypeOK, Times, Content
<1>2. WriterTypeOK
  BY BoundsAssumption
    DEF Init, WriterInit, WriterTypeOK, Revisions, Slots, Statuses, PENDING, Content, Halves
<1>3. ReaderTypeOK
  <2>1. NoCache \in Caches
    BY BoundsAssumption DEF NoCache, Caches, Revisions, Content
  <2>2. Without(PENDING, NoWord) \in Results
    BY BoundsAssumption DEF Without, Results, Statuses, PENDING, Content, Times
  <2>3. NoCopy \in [Halves -> Content]
    BY DEF NoCopy, Content
  <2>4. rpc \in Stages /\ rfile \in 0 .. MaxEpoch /\ repoch \in 0 .. MaxEpoch
    BY BoundsAssumption DEF Init, ReaderInit, Stages
  <2>5. rlast \in -1 .. MaxRevision /\ rcert \in Times
    BY BoundsAssumption DEF Init, ReaderInit, Times
  <2>6. rleft \in SUBSET Halves /\ rscene \in Content
    BY DEF Init, ReaderInit, Content
  <2>7. rpidfd \in {"none", "writer", "stranger"} /\ rfault \in BOOLEAN
    BY DEF Init, ReaderInit
  <2>8. rcopy \in [Halves -> Content] /\ rcache \in Caches /\ result \in Results
    BY <2>1, <2>2, <2>3 DEF Init, ReaderInit
  <2> QED
    BY <2>4, <2>5, <2>6, <2>7, <2>8, FirstWordTyped
      DEF Init, ReaderInit, ReaderTypeOK
<1>4. recent \in SUBSET [epoch : 0 .. MaxEpoch, scene : Content]
  BY BoundsAssumption DEF Init, NoView, Content
<1> QED
  BY <1>1, <1>2, <1>3, <1>4 DEF TypeOK

\* The writer keeps its own state and the files well typed.
LEMMA WriterTypeStep ==
  ASSUME FileTypeOK, WriterTypeOK, IssueInv, WriterNext
  PROVE  FileTypeOK' /\ WriterTypeOK'
<1> USE BoundsAssumption DEF FileTypeOK, WriterTypeOK
<1>1. CASE Stage
  BY <1>1 DEF Stage, Epochs, Revisions, Slots, Statuses, PENDING
<1>2. CASE Link
  BY <1>2 DEF Link
<1>3. CASE Unlink
  BY <1>3 DEF Unlink
<1>4. CASE Replace
  BY <1>4 DEF Replace
<1>5. CASE AbandonOpen
  BY <1>5 DEF AbandonOpen, Return, Content
<1>6. ASSUME NEW st \in Statuses, DoInvalidate(st)
      PROVE  /\ wrevision' \in Revisions
             /\ wnotice' \in Statuses
             /\ word' \in [Epochs -> Words]
  <2>1. wrevision + 1 \in Revisions
    BY <1>6 DEF DoInvalidate, Revisions
  <2>2. Word(wrevision + 1, st, wslot) \in Words
    BY <2>1, <1>6, WordTyped
  <2> QED
    BY <1>6, <2>1, <2>2 DEF DoInvalidate
<1>7. {PENDING, INVALID, OK} = Statuses
  BY DEF Statuses
<1>8. ASSUME NEW st \in {PENDING, INVALID}, Invalidate(st)
      PROVE  FileTypeOK' /\ WriterTypeOK'
  BY <1>6, <1>7, <1>8 DEF Invalidate
<1>9. ASSUME NEW made \in 0 .. now, NEW life \in Lifetimes,
             BeginPublish(made, life)
      PROVE  FileTypeOK' /\ WriterTypeOK'
  <2> DEFINE record == [revision |-> wrevision + 1, slot |-> 1 - wslot,
                        made |-> made, until |-> made + life]
  <2>1. record \in Scenes
    <3>1. wrevision + 1 \in Revisions /\ 1 - wslot \in Slots
      BY <1>9 DEF BeginPublish, Record, Revisions, Slots
    <3>2. made \in Times /\ made + life \in Nat
      BY <1>9 DEF Times
    <3> QED
      BY <3>1, <3>2 DEF Scenes
  <2>2. issued' = [issued EXCEPT ![<<writer, wrevision + 1>>] = record]
    BY <1>9 DEF BeginPublish, Record
  <2>3. issued' \in [Epochs \X Revisions -> Content]
    BY <2>1, <2>2 DEF Content
  <2> QED
    BY <1>9, <2>1, <2>3 DEF BeginPublish, Record, Content
<1>10. ASSUME NEW made \in 0 .. now, RefuseStale(made)
       PROVE  FileTypeOK' /\ WriterTypeOK'
  BY <1>6, <1>7, <1>10 DEF RefuseStale
<1>11. ASSUME NEW h \in Halves, WriteHalf(h)
       PROVE  FileTypeOK' /\ WriterTypeOK'
  BY <1>11 DEF WriteHalf
<1>12. CASE Admit
  BY <1>12 DEF Admit, fileVars
<1>13. CASE RefuseExpired
  BY <1>6, <1>7, <1>13 DEF RefuseExpired, Return, Content
<1>14. CASE Store
  <2>1. wrevision + 1 \in Revisions /\ wscene.slot \in Slots
    BY <1>14 DEF Store, IssueInv, Drafting, Revisions, Content, Scenes
  <2>2. Word(wrevision + 1, OK, wscene.slot) \in Words
    BY <2>1, <1>7, WordTyped
  <2> QED
    BY <1>14, <2>2 DEF Store
<1>15. CASE Commit
  <2>1. wrevision + 1 \in Revisions /\ wscene.slot \in Slots
    BY <1>15 DEF Commit, IssueInv, Drafting, Revisions, Content, Scenes
  <2> QED
    BY <1>15, <2>1, <1>7 DEF Commit, Return, fileVars, Content
<1>16. CASE Interrupt
  BY <1>6, <1>7, <1>16 DEF Interrupt, Return, Content
<1>17. CASE Close
  BY <1>6, <1>7, <1>17 DEF Close, Return, Content
<1> QED
  BY <1>1, <1>2, <1>3, <1>4, <1>5, <1>8, <1>9, <1>10, <1>11, <1>12, <1>13,
     <1>14, <1>15, <1>16, <1>17 DEF WriterNext

\* The processes and the clock keep the types of files and writer.
LEMMA WorldTypeStep ==
  ASSUME FileTypeOK, WriterTypeOK, WorldNext
  PROVE  FileTypeOK' /\ WriterTypeOK'
<1> USE BoundsAssumption DEF FileTypeOK, WriterTypeOK
<1>1. ASSUME NEW e \in Epochs, Exit(e)
      PROVE  FileTypeOK' /\ WriterTypeOK'
  BY <1>1 DEF Exit, Return, Content
<1>2. ASSUME NEW e \in Epochs, RecyclePid(e)
      PROVE  FileTypeOK' /\ WriterTypeOK'
  BY <1>2 DEF RecyclePid, writerVars
<1>3. ASSUME NEW h \in Halves, Corrupt(h)
      PROVE  FileTypeOK' /\ WriterTypeOK'
  BY <1>3 DEF Corrupt, writerVars, Content
<1>4. CASE Tick
  BY <1>4 DEF Tick, writerVars, Times
<1> QED
  BY <1>1, <1>2, <1>3, <1>4 DEF WorldNext

\* A result without a scene is a result.
LEMMA WithoutTyped ==
  ASSUME NEW st \in Statuses, NEW note \in Words \cup {NoWord}
  PROVE  Without(st, note) \in Results
BY BoundsAssumption DEF Without, Results, Content, Times

\* What every rejected call leaves behind.
LEMMA RejectTyped ==
  ASSUME NEW st \in Statuses, NEW note \in Words \cup {NoWord},
         NEW latch \in BOOLEAN, rfault \in BOOLEAN, Reject(st, note, latch)
  PROVE  /\ result' \in Results
         /\ rfault' \in BOOLEAN
         /\ rpc' \in Stages
         /\ rbefore' \in Words
         /\ rcopy' \in [Halves -> Content]
         /\ rleft' \in SUBSET Halves
         /\ rscene' \in Content
         /\ rcert' \in Times
<1>1. result' \in Results
  BY WithoutTyped DEF Reject
<1>2. rfault' \in BOOLEAN
  BY DEF Reject
<1>3. rbefore' \in Words /\ rcopy' \in [Halves -> Content]
  BY FirstWordTyped DEF Reject, Leave, NoCopy, Content
<1>4. /\ rpc' \in Stages
      /\ rleft' \in SUBSET Halves
      /\ rscene' \in Content
      /\ rcert' \in Times
  BY BoundsAssumption DEF Reject, Leave, Stages, Content, Times
<1> QED
  BY <1>1, <1>2, <1>3, <1>4

\* The reader keeps the types of its own state.
LEMMA ReaderTypeStep ==
  ASSUME TypeOK, HoldInv, BeginRefresh \/ RefreshStep \/ MonitorStep
  PROVE  ReaderTypeOK'
<1> USE BoundsAssumption DEF TypeOK, FileTypeOK, ReaderTypeOK
<1>s. OK \in Statuses /\ PENDING \in Statuses /\ INVALID \in Statuses
  BY DEF Statuses
<1>w. NoWord \in Words \cup {NoWord} /\ rbefore \in Words \cup {NoWord}
  OBVIOUS
<1>l. -1 \in -1 .. MaxRevision /\ rbefore.revision \in -1 .. MaxRevision
  BY DEF Words, Revisions
<1>1. CASE Keep
  BY <1>1 DEF Keep, Stages
<1>2. CASE Drop
  BY <1>2, <1>s, WithoutTyped DEF Drop, Stages
<1>3. CASE Open
  BY <1>3 DEF Open, Stages
<1>4. CASE LoadWord
  <2>1. word[rfile] \in Words
    BY <1>4 DEF LoadWord, HoldInv, Epochs
  <2>2. result' \in Results
    BY <1>4, <1>s, WithoutTyped DEF LoadWord
  <2> QED
    BY <1>4, <2>1, <2>2 DEF LoadWord, Stages
<1>5. CASE WatchFails
  BY <1>5, <1>s, <1>w, RejectTyped DEF WatchFails, PidTarget
<1>6. ASSUME Watched PROVE rpidfd' \in {"none", "writer", "stranger"}
  BY <1>6 DEF Watched, PidTarget
<1>7. CASE EpochChanged
  BY <1>6, <1>7, <1>s, <1>w, RejectTyped DEF EpochChanged
<1>8. CASE WriterUnhealthy
  <2>1. Reject(rbefore.status, NoWord, rbefore.status # PENDING)
    BY <1>8 DEF WriterUnhealthy
  <2>2. rbefore.status \in Statuses /\ rbefore.revision \in -1 .. MaxRevision
    BY DEF Words, Revisions
  <2>3. (rbefore.status # PENDING) \in BOOLEAN
    OBVIOUS
  <2> QED
    BY <1>6, <1>8, <1>s, <1>w, <2>1, <2>2, <2>3, RejectTyped
      DEF WriterUnhealthy
<1>9. CASE RevisionJump
  BY <1>6, <1>9, <1>l, <1>s, <1>w, RejectTyped DEF RevisionJump
<1>10. CASE BeginCopy
  BY <1>6, <1>10, <1>l DEF BeginCopy, Stages
<1>11. ASSUME NEW h \in Halves, CopyHalf(h) PROVE ReaderTypeOK'
  <2>1. image[<<rfile, rbefore.slot, h>>] \in Content
    BY <1>11 DEF CopyHalf, HoldInv, Epochs, Words
  <2> QED
    BY <1>11, <2>1 DEF CopyHalf
<1>12. CASE CopyFails
  BY <1>12, <1>s, <1>w, RejectTyped DEF CopyFails
<1>13. CASE SceneRefused
  BY <1>13, <1>s, <1>w, RejectTyped DEF SceneRefused
<1>14. CASE SceneDecoded
  BY <1>14, <1>s, <1>w, WithoutTyped DEF SceneDecoded, Stages, Halves
<1>15. ASSUME NEW ok \in BOOLEAN, Prepare(ok) PROVE ReaderTypeOK'
  BY <1>15 DEF Prepare, Caches, Words, Stages
<1>16. CASE Certify
  BY <1>16 DEF Certify, Stages
<1>17. CASE CertifyFails
  BY <1>17, <1>s, <1>w, RejectTyped DEF CertifyFails
<1>18. CASE RecheckWord
  BY <1>18 DEF RecheckWord, Stages
<1>19. CASE RecheckWriter
  BY <1>19 DEF RecheckWriter, Stages
<1>20. CASE RecheckFails
  BY <1>20, <1>s, <1>w, RejectTyped DEF RecheckFails
<1>21. CASE Accept
  <2>1. result' \in Results
    BY <1>21, <1>s DEF Accept, Results, Caches
  <2> QED
    BY <1>21, <2>1, FirstWordTyped
      DEF Accept, Leave, Stages, NoCopy, Content, Times
<1>22. CASE ResetFault
  BY <1>22 DEF ResetFault
<1>23. ASSUME NEW e \in Epochs, AcceptEpoch(e) PROVE ReaderTypeOK'
  <2>1. NoCache \in Caches
    BY DEF NoCache, Caches, Revisions, Content
  <2> QED
    <3>1. repoch' \in 0 .. MaxEpoch /\ rlast' \in -1 .. MaxRevision
      BY <1>23, <1>l DEF AcceptEpoch, Epochs
    <3>2. rcache' \in Caches /\ result' \in Results /\ rfault' \in BOOLEAN
      BY <1>23, <1>s, <1>w, <2>1, WithoutTyped DEF AcceptEpoch
    <3> QED
      BY <1>23, <3>1, <3>2 DEF AcceptEpoch
<1>24. CASE CloseReader
  BY <1>24, <1>s, WithoutTyped DEF CloseReader
<1>25. CASE Construct
  BY <1>25 DEF Construct, Stages
<1> QED
  BY <1>1, <1>2, <1>3, <1>4, <1>5, <1>7, <1>8, <1>9, <1>10, <1>11, <1>12,
     <1>13, <1>14, <1>15, <1>16, <1>17, <1>18, <1>19, <1>20, <1>21, <1>22,
     <1>23, <1>24, <1>25 DEF BeginRefresh, RefreshStep, MonitorStep

-----------------------------------------------------------------------------
(* The writer's invariants *)

\* A reader's mapping is kept, dropped or replaced by the file at the path.
LEMMA RfileMoves ==
  ASSUME BeginRefresh \/ RefreshStep \/ MonitorStep
  PROVE  rfile' \in {rfile, 0, path}
BY DEF BeginRefresh, RefreshStep, MonitorStep, Keep, Drop, Open, LoadWord,
       WatchFails, EpochChanged, WriterUnhealthy, RevisionJump, BeginCopy,
       CopyHalf, CopyFails, SceneRefused, SceneDecoded, Prepare, Certify,
       CertifyFails, RecheckWord, RecheckWriter, RecheckFails, Accept,
       ResetFault, AcceptEpoch, CloseReader, Construct

\* The lock is held from Stage to Close, and a staged file is nowhere.
LEMMA LockStep ==
  ASSUME TypeOK, LockInv, HoldInv, Next
  PROVE  LockInv'
<1> USE BoundsAssumption DEF TypeOK, FileTypeOK, WriterTypeOK, LockInv
<1>1. CASE WriterNext /\ UNCHANGED readerVars
  <2> USE <1>1 DEF readerVars, fileVars, ReaderTypeOK
  <2>1. CASE Stage
    BY <2>1 DEF Stage, Epochs
  <2>2. CASE Link
    BY <2>2 DEF Link
  <2>3. CASE Unlink
    BY <2>3 DEF Unlink
  <2>4. CASE Replace
    BY <2>4 DEF Replace
  <2>5. CASE AbandonOpen
    BY <2>5 DEF AbandonOpen, Return
  <2>6. ASSUME NEW st \in {PENDING, INVALID}, Invalidate(st) PROVE LockInv'
    BY <2>6 DEF Invalidate
  <2>7. ASSUME NEW made \in 0 .. now, NEW life \in Lifetimes,
               BeginPublish(made, life)
        PROVE  LockInv'
    BY <2>7 DEF BeginPublish, Record
  <2>8. ASSUME NEW made \in 0 .. now, RefuseStale(made) PROVE LockInv'
    BY <2>8 DEF RefuseStale
  <2>9. ASSUME NEW h \in Halves, WriteHalf(h) PROVE LockInv'
    BY <2>9 DEF WriteHalf
  <2>10. CASE Admit
    BY <2>10 DEF Admit
  <2>11. CASE RefuseExpired
    BY <2>11 DEF RefuseExpired, Return
  <2>12. CASE Store
    BY <2>12 DEF Store
  <2>13. CASE Commit
    BY <2>13 DEF Commit, Return
  <2>14. CASE Interrupt
    BY <2>14 DEF Interrupt, Return
  <2>15. CASE Close
    BY <2>15 DEF Close, Return
  <2> QED
    BY <2>1, <2>2, <2>3, <2>4, <2>5, <2>6, <2>7, <2>8, <2>9, <2>10, <2>11,
       <2>12, <2>13, <2>14, <2>15 DEF WriterNext
<1>2. CASE WorldNext /\ UNCHANGED readerVars
  <2> USE <1>2 DEF readerVars
  <2>1. ASSUME NEW e \in Epochs, Exit(e) PROVE LockInv'
    BY <2>1 DEF Exit, Return, Epochs
  <2>2. ASSUME NEW e \in Epochs, RecyclePid(e) PROVE LockInv'
    BY <2>2 DEF RecyclePid, writerVars, Epochs
  <2>3. ASSUME NEW h \in Halves, Corrupt(h) PROVE LockInv'
    BY <2>3 DEF Corrupt, writerVars
  <2>4. CASE Tick
    BY <2>4 DEF Tick, writerVars
  <2> QED
    BY <2>1, <2>2, <2>3, <2>4 DEF WorldNext
<1>3. CASE UNCHANGED <<fileVars, writerVars>> /\ rfile' \in {rfile, 0, path}
  BY <1>3 DEF fileVars, writerVars
<1> QED
  BY <1>1, <1>2, <1>3, RfileMoves DEF Next, OthersStep, RefreshBegins,
     RefreshContinues, MonitorActs

\* A revision is issued once, and the slots hold nothing else.
LEMMA IssueStep ==
  ASSUME TypeOK, LockInv, IssueInv, Next
  PROVE  IssueInv'
<1> USE BoundsAssumption, NoneAssumption
    DEF TypeOK, FileTypeOK, WriterTypeOK, IssueInv, Fresh, Drafting
<1>1. CASE WriterNext
  <2>1. CASE Stage
    BY <2>1 DEF Stage, Epochs, Revisions, LockInv
  <2>2. CASE Link
    BY <2>2 DEF Link
  <2>3. CASE Unlink
    BY <2>3 DEF Unlink
  <2>4. CASE Replace
    BY <2>4 DEF Replace
  <2>5. CASE AbandonOpen
    BY <2>5 DEF AbandonOpen, Return
  <2>6. ASSUME NEW st \in {PENDING, INVALID}, Invalidate(st) PROVE IssueInv'
    BY <2>6 DEF Invalidate, DoInvalidate, Revisions
  <2>7. ASSUME NEW made \in 0 .. now, NEW life \in Lifetimes,
               BeginPublish(made, life)
        PROVE  IssueInv'
    <3> DEFINE record == [revision |-> wrevision + 1, slot |-> 1 - wslot,
                          made |-> made, until |-> made + life]
    <3>0. /\ wpc = "idle" /\ wpc' = "writing" /\ wrevision < MaxRevision
          /\ wscene' = record
          /\ issued' = [issued EXCEPT ![<<writer, wrevision + 1>>] = record]
          /\ UNCHANGED <<born, writer, wrevision, image>>
      BY <2>7 DEF BeginPublish, Record
    <3>1. writer \in Epochs /\ wrevision + 1 \in Revisions
      BY <3>0 DEF LockInv, Epochs, Revisions
    <3>2. issued[<<writer, wrevision + 1>>] = NoScene
      BY <3>0, <3>1 DEF Revisions
    <3>3. /\ issued'[<<writer, wrevision + 1>>] = record
          /\ \A e \in Epochs, r \in Revisions :
               <<e, r>> # <<writer, wrevision + 1>>
                 => issued'[<<e, r>>] = issued[<<e, r>>]
      BY <3>0, <3>1
    <3>4. record \in Scenes
      <4>1. made \in Times /\ made + life \in Nat /\ 1 - wslot \in Slots
        BY DEF Times, Slots
      <4> QED
        BY <3>1, <4>1 DEF Scenes
    <3>5. \A e \in Epochs, r \in Revisions :
            e > born' => issued'[<<e, r>>] = NoScene
      BY <3>0, <3>1, <3>3 DEF LockInv
    <3>6. \A r \in Revisions :
            r > wrevision' + 1 => issued'[<<writer', r>>] = NoScene
      BY <3>0, <3>1, <3>3 DEF Revisions
    <3>7. ASSUME NEW e \in Epochs, NEW s \in Slots, NEW h \in Halves,
                 image'[<<e, s, h>>] # NoScene
          PROVE  image'[<<e, s, h>>] = issued'[<<e, image'[<<e, s, h>>].revision>>]
      <4>1. image[<<e, s, h>>] \in Scenes
        BY <3>0, <3>7 DEF Content
      <4>2. image[<<e, s, h>>].revision \in Revisions
        BY <4>1 DEF Scenes
      <4>3. image[<<e, s, h>>] = issued[<<e, image[<<e, s, h>>].revision>>]
        BY <3>0, <3>7
      <4>4. <<e, image[<<e, s, h>>].revision>> # <<writer, wrevision + 1>>
        BY <3>0, <3>2, <3>7, <4>3
      <4> QED
        BY <3>0, <3>3, <4>2, <4>3, <4>4
    <3>8. record.revision = wrevision + 1
      OBVIOUS
    <3> HIDE DEF record
    <3> QED
      BY <3>0, <3>1, <3>3, <3>4, <3>5, <3>6, <3>7, <3>8
  <2>8. ASSUME NEW made \in 0 .. now, RefuseStale(made) PROVE IssueInv'
    BY <2>8 DEF RefuseStale, DoInvalidate, Revisions
  <2>9. ASSUME NEW h \in Halves, WriteHalf(h) PROVE IssueInv'
    <3>0. /\ wpc = "writing"
          /\ image' = [image EXCEPT ![<<writer, wscene.slot, h>>] = wscene]
          /\ UNCHANGED <<born, writer, wpc, wrevision, wscene, issued>>
      BY <2>9 DEF WriteHalf
    <3>1. ASSUME NEW e \in Epochs, NEW s \in Slots, NEW g \in Halves,
                 image'[<<e, s, g>>] # NoScene
          PROVE  image'[<<e, s, g>>] = issued'[<<e, image'[<<e, s, g>>].revision>>]
      <4>1. CASE <<e, s, g>> = <<writer, wscene.slot, h>>
        BY <3>0, <4>1
      <4>2. CASE <<e, s, g>> # <<writer, wscene.slot, h>>
        <5>1. image'[<<e, s, g>>] = image[<<e, s, g>>]
          BY <3>0, <4>2
        <5> QED
          BY <3>0, <3>1, <5>1
      <4> QED
        BY <4>1, <4>2
    <3> QED
      BY <3>0, <3>1
  <2>10. CASE Admit
    BY <2>10 DEF Admit, fileVars
  <2>11. CASE RefuseExpired
    BY <2>11 DEF RefuseExpired, Return, DoInvalidate, Revisions
  <2>12. CASE Store
    BY <2>12 DEF Store
  <2>13. CASE Commit
    BY <2>13 DEF Commit, Return, fileVars, Revisions
  <2>14. CASE Interrupt
    BY <2>14 DEF Interrupt, Return
  <2>15. CASE Close
    BY <2>15 DEF Close, Return
  <2> QED
    BY <1>1, <2>1, <2>2, <2>3, <2>4, <2>5, <2>6, <2>7, <2>8, <2>9, <2>10,
       <2>11, <2>12, <2>13, <2>14, <2>15 DEF WriterNext
<1>2. CASE WorldNext
  <2>1. ASSUME NEW e \in Epochs, Exit(e) PROVE IssueInv'
    BY <2>1 DEF Exit, Return
  <2>2. ASSUME NEW e \in Epochs, RecyclePid(e) PROVE IssueInv'
    BY <2>2 DEF RecyclePid, writerVars
  <2>3. ASSUME NEW h \in Halves, Corrupt(h) PROVE IssueInv'
    BY <2>3 DEF Corrupt, writerVars
  <2>4. CASE Tick
    BY <2>4 DEF Tick, writerVars
  <2> QED
    BY <1>2, <2>1, <2>2, <2>3, <2>4 DEF WorldNext
<1>3. CASE UNCHANGED <<fileVars, writerVars>>
  BY <1>3 DEF fileVars, writerVars
<1> QED
  BY <1>1, <1>2, <1>3 DEF Next, OthersStep, RefreshBegins, RefreshContinues,
     MonitorActs

-----------------------------------------------------------------------------
(* The reader's invariants *)

\* What the others never take back: an issued record, a path that exists; and
\* what they never bring back: a replaced file, a process that ended.
LEMMA OthersKeep ==
  ASSUME TypeOK, LockInv, IssueInv, WriterNext \/ WorldNext
  PROVE  /\ \A e \in Epochs, r \in Revisions :
              issued[<<e, r>>] # NoScene => issued'[<<e, r>>] = issued[<<e, r>>]
         /\ path # 0 => path' # 0
         /\ rfile # 0 /\ path' = rfile => path = rfile
         /\ rfile # 0 /\ process'[rfile] = "running"
              => process[rfile] = "running"
         /\ \/ PidReuse
            \/ \A e \in Epochs : process'[e] = "recycled" => process[e] = "recycled"
<1> USE BoundsAssumption
    DEF TypeOK, FileTypeOK, WriterTypeOK, ReaderTypeOK, LockInv
<1>1. CASE Stage
  BY <1>1 DEF Stage, Epochs
<1>2. CASE Link
  BY <1>2 DEF Link
<1>3. CASE Unlink
  BY <1>3 DEF Unlink
<1>4. CASE Replace
  BY <1>4 DEF Replace
<1>5. CASE AbandonOpen
  BY <1>5 DEF AbandonOpen
<1>6. ASSUME NEW st \in {PENDING, INVALID}, Invalidate(st)
      PROVE  UNCHANGED <<issued, path, process>>
  BY <1>6 DEF Invalidate
<1>7. ASSUME NEW made \in 0 .. now, NEW life \in Lifetimes,
             BeginPublish(made, life)
      PROVE  /\ UNCHANGED <<path, process>>
             /\ \A e \in Epochs, r \in Revisions :
                  issued[<<e, r>>] # NoScene
                    => issued'[<<e, r>>] = issued[<<e, r>>]
  <2>1. PICK record :
          /\ wpc = "idle" /\ wrevision < MaxRevision
          /\ issued' = [issued EXCEPT ![<<writer, wrevision + 1>>] = record]
          /\ UNCHANGED <<path, process>>
    BY <1>7 DEF BeginPublish, Record
  <2>2. issued[<<writer, wrevision + 1>>] = NoScene
    BY <2>1 DEF IssueInv, Fresh, Revisions
  <2>3. ASSUME NEW e \in Epochs, NEW r \in Revisions, issued[<<e, r>>] # NoScene
        PROVE  issued'[<<e, r>>] = issued[<<e, r>>]
    <3>1. <<e, r>> # <<writer, wrevision + 1>>
      BY <2>2, <2>3
    <3> QED
      BY <2>1, <3>1
  <2> QED
    BY <2>1, <2>3
<1>8. ASSUME NEW made \in 0 .. now, RefuseStale(made)
      PROVE  UNCHANGED <<issued, path, process>>
  BY <1>8 DEF RefuseStale
<1>9. ASSUME NEW h \in Halves, WriteHalf(h)
      PROVE  UNCHANGED <<issued, path, process>>
  BY <1>9 DEF WriteHalf
<1>10. CASE Admit
  BY <1>10 DEF Admit, fileVars
<1>11. CASE RefuseExpired
  BY <1>11 DEF RefuseExpired
<1>12. CASE Store
  BY <1>12 DEF Store
<1>13. CASE Commit
  BY <1>13 DEF Commit, fileVars
<1>14. CASE Interrupt
  BY <1>14 DEF Interrupt
<1>15. CASE Close
  BY <1>15 DEF Close
<1>16. ASSUME NEW e \in Epochs, Exit(e)
       PROVE  /\ UNCHANGED <<issued, path>>
              /\ \A f \in Epochs : process'[f] \in {process[f], "exited"}
  BY <1>16 DEF Exit
<1>17. ASSUME NEW e \in Epochs, RecyclePid(e)
       PROVE  /\ UNCHANGED <<issued, path>>
              /\ PidReuse
              /\ \A f \in Epochs : process'[f] \in {process[f], "recycled"}
  BY <1>17 DEF RecyclePid
<1>18. ASSUME NEW h \in Halves, Corrupt(h)
       PROVE  UNCHANGED <<issued, path, process>>
  BY <1>18 DEF Corrupt
<1>19. CASE Tick
  BY <1>19 DEF Tick
<1>20. rfile # 0 => rfile \in Epochs
  BY DEF Epochs
<1> QED
  BY <1>1, <1>2, <1>3, <1>4, <1>5, <1>6, <1>7, <1>8, <1>9, <1>10, <1>11,
     <1>12, <1>13, <1>14, <1>15, <1>16, <1>17, <1>18, <1>19, <1>20
  DEF WriterNext, WorldNext

\* A call that ends touches neither the cache nor the mapping.
LEMMA RejectsLeave ==
  ASSUME \/ WatchFails \/ EpochChanged \/ WriterUnhealthy \/ RevisionJump
         \/ CopyFails \/ SceneRefused \/ CertifyFails \/ RecheckFails \/ Accept
  PROVE  Leave /\ UNCHANGED <<rcache, rfile>>
BY DEF WatchFails, EpochChanged, WriterUnhealthy, RevisionJump, CopyFails,
       SceneRefused, CertifyFails, RecheckFails, Accept, Reject

\* What a reader copies, decodes and caches is what was issued.
LEMMA HoldStep ==
  ASSUME TypeOK, LockInv, IssueInv, HoldInv, Next
  PROVE  HoldInv'
<1> USE BoundsAssumption, NoneAssumption
    DEF TypeOK, FileTypeOK, ReaderTypeOK, HoldInv, Decoded, PastWatch, Cached
<1>1. CASE OthersStep
  <2>1. UNCHANGED readerVars
    BY <1>1 DEF OthersStep
  <2>2. rpc' \notin {"new", "ready"} => path' # 0
    BY <1>1, <2>1, OthersKeep DEF OthersStep, readerVars
  <2>3. ASSUME NEW h \in Halves, rcopy[h] # NoScene
        PROVE  rcopy[h] = issued'[<<rfile, rcopy[h].revision>>]
    <3>1. rcopy[h] \in Scenes
      BY <2>3 DEF Content
    <3>2. rcopy[h].revision \in Revisions
      BY <3>1 DEF Scenes
    <3>3. rfile # 0 /\ rcopy[h] = issued[<<rfile, rcopy[h].revision>>]
      BY <2>3 DEF HoldInv
    <3>4. rfile \in Epochs
      BY <3>3 DEF Epochs
    <3> QED
      BY <1>1, <2>3, <3>2, <3>3, <3>4, OthersKeep DEF OthersStep
  <2>4. ASSUME rpc \in Decoded
        PROVE  rscene = issued'[<<rfile, rbefore.revision>>]
    <3>1. rfile \in Epochs /\ rbefore.revision \in Revisions
      BY <2>4 DEF Epochs, Words
    <3> QED
      BY <1>1, <2>4, <3>1, OthersKeep DEF OthersStep
  <2>5. ASSUME rcache.epoch # 0
        PROVE  rcache.scene = issued'[<<rcache.epoch, rcache.revision>>]
    <3>1. rcache.epoch \in Epochs /\ rcache.revision \in Revisions
      BY <2>5 DEF Epochs, Caches
    <3> QED
      BY <1>1, <2>5, <3>1, OthersKeep DEF OthersStep
  <2> QED
    BY <2>1, <2>2, <2>3, <2>4, <2>5 DEF readerVars
<1>2. CASE UNCHANGED <<fileVars, writerVars>> /\ (BeginRefresh \/ RefreshStep \/ MonitorStep)
  <2> USE <1>2 DEF fileVars
  <2>1. CASE Leave /\ UNCHANGED <<rcache, rfile>>
    BY <2>1 DEF Leave, NoCopy
  <2>2. CASE Keep
    BY <2>2 DEF Keep
  <2>3. CASE Drop
    BY <2>3 DEF Drop, NoCopy
  <2>4. CASE Open
    BY <2>4 DEF Open, NoCopy
  <2>5. CASE LoadWord
    BY <2>5 DEF LoadWord, NoCopy
  <2>6. CASE BeginCopy
    BY <2>6 DEF BeginCopy, Watched, NoCopy
  <2>7. ASSUME NEW h \in Halves, CopyHalf(h) PROVE HoldInv'
    <3>0. /\ rpc = "copy" /\ UNCHANGED <<rpc, rfile, rbefore, rscene, rcache, issued, path>>
          /\ rcopy' = [rcopy EXCEPT ![h] = image[<<rfile, rbefore.slot, h>>]]
      BY <2>7 DEF CopyHalf
    <3>1. rfile \in Epochs /\ rbefore.slot \in Slots
      BY <3>0 DEF Epochs, Words
    <3>2. ASSUME NEW g \in Halves, rcopy'[g] # NoScene
          PROVE  rcopy'[g] = issued[<<rfile, rcopy'[g].revision>>]
      <4>1. CASE g = h
        BY <3>0, <3>1, <3>2, <4>1 DEF IssueInv
      <4>2. CASE g # h
        BY <3>0, <3>2, <4>2
      <4> QED
        BY <4>1, <4>2
    <3> QED
      BY <3>0, <3>2
  <2>8. CASE SceneDecoded
    <3>1. rcopy["front"] # NoScene /\ rcopy["front"].revision = rbefore.revision
      BY <2>8 DEF SceneDecoded, CopyChecked, Intact
    <3>2. rcopy["front"] = issued[<<rfile, rbefore.revision>>]
      BY <3>1 DEF Halves
    <3> QED
      BY <2>8, <3>1, <3>2 DEF SceneDecoded, CopyChecked
  <2>9. ASSUME NEW ok \in BOOLEAN, Prepare(ok) PROVE HoldInv'
    BY <2>9 DEF Prepare
  <2>10. CASE Certify
    BY <2>10 DEF Certify
  <2>11. CASE RecheckWord
    BY <2>11 DEF RecheckWord
  <2>12. CASE RecheckWriter
    BY <2>12 DEF RecheckWriter
  <2>13. CASE ResetFault
    BY <2>13 DEF ResetFault
  <2>14. ASSUME NEW e \in Epochs, AcceptEpoch(e) PROVE HoldInv'
    BY <2>14 DEF AcceptEpoch, NoCache
  <2>15. CASE CloseReader
    BY <2>15 DEF CloseReader, NoCopy
  <2>16. CASE Construct
    BY <2>16 DEF Construct, NoCopy
  <2> QED
    BY <1>2, <2>1, <2>2, <2>3, <2>4, <2>5, <2>6, <2>7, <2>8, <2>9, <2>10,
       <2>11, <2>12, <2>13, <2>14, <2>15, <2>16, RejectsLeave
      DEF BeginRefresh, RefreshStep, MonitorStep
<1> QED
  BY <1>1, <1>2 DEF Next, RefreshBegins, RefreshContinues, MonitorActs

\* The cached scene is the one decoded, once there is one for this word.
LEMMA CacheIsDecoded ==
  ASSUME HoldInv, rpc \in Decoded \ {"prepare"}
  PROVE  rcache.scene = rscene /\ rcache.scene # NoScene /\ rcache.epoch = rfile
BY DEF HoldInv, Decoded, Cached

\* The checks made earlier in a call still stand, and what is shown is safe.
LEMMA CheckStep ==
  ASSUME TypeOK, HoldInv, CheckInv, ReaderSafety, Next
  PROVE  CheckInv' /\ ReaderSafety'
<1> USE BoundsAssumption
    DEF CheckInv, ReaderSafety, NothingSupersededIsVisible, FaultHidesScene,
        OnlyTheAcceptedEpoch, CertifiedInTime, Decoded, PastWatch, Timely, Admissible
<1>1. CASE OthersStep
  BY <1>1 DEF OthersStep, readerVars
<1>2. CASE BeginRefresh \/ RefreshStep \/ MonitorStep
  <2>1. PENDING # OK /\ INVALID # OK
    BY DEF PENDING, INVALID, OK
  <2>2. ASSUME NEW st \in {PENDING, INVALID, rbefore.status},
               NEW note, NEW latch, st # OK,
               Reject(st, note, latch)
        PROVE  CheckInv' /\ ReaderSafety'
    BY <2>2 DEF Reject, Leave, Without
  <2>3. CASE Keep
    BY <2>3 DEF Keep
  <2>4. CASE Drop
    BY <2>1, <2>4 DEF Drop, Without
  <2>5. CASE Open
    BY <2>5 DEF Open
  <2>6. CASE LoadWord
    BY <2>1, <2>6 DEF LoadWord, Without
  <2>7. CASE WatchFails
    BY <2>1, <2>2, <2>7 DEF WatchFails
  <2>8. CASE EpochChanged
    BY <2>1, <2>2, <2>8 DEF EpochChanged
  <2>9. CASE WriterUnhealthy
    BY <2>2, <2>9 DEF WriterUnhealthy
  <2>10. CASE RevisionJump
    BY <2>1, <2>2, <2>10 DEF RevisionJump
  <2>11. CASE BeginCopy
    <3>1. rfile # 0
      BY <2>11 DEF BeginCopy, Watched, HoldInv
    <3> QED
      BY <2>11, <3>1 DEF BeginCopy, Watched, EpochAccepted
  <2>12. ASSUME NEW h \in Halves, CopyHalf(h) PROVE CheckInv' /\ ReaderSafety'
    BY <2>12 DEF CopyHalf
  <2>13. CASE CopyFails
    BY <2>1, <2>2, <2>13 DEF CopyFails
  <2>14. CASE SceneRefused
    BY <2>1, <2>2, <2>14 DEF SceneRefused
  <2>15. CASE SceneDecoded
    BY <2>1, <2>15 DEF SceneDecoded, CopyChecked, Without
  <2>16. ASSUME NEW ok \in BOOLEAN, Prepare(ok) PROVE CheckInv' /\ ReaderSafety'
    BY <2>16 DEF Prepare
  <2>17. CASE Certify
    BY <2>17 DEF Certify
  <2>18. CASE CertifyFails
    BY <2>1, <2>2, <2>18 DEF CertifyFails
  <2>19. CASE RecheckWord
    BY <2>19 DEF RecheckWord
  <2>20. CASE RecheckWriter
    BY <2>20 DEF RecheckWriter
  <2>21. CASE RecheckFails
    BY <2>1, <2>2, <2>21 DEF RecheckFails
  <2>22. CASE Accept
    <3>1. rcache.scene = rscene
      BY <2>22, CacheIsDecoded DEF Accept
    <3>2. rfile # 0
      BY <2>22 DEF Accept, HoldInv
    <3>3. rcert - rscene.made <= SlotTimeout
      <4>1. rscene \in Scenes /\ rcert \in Times
        BY <2>22 DEF Accept, HoldInv, TypeOK, ReaderTypeOK, Content
      <4>2. rscene.made \in Int /\ rcert \in Int /\ SlotTimeout \in Int
        BY <4>1 DEF Scenes, Times
      <4> QED
        BY <2>22, <4>2 DEF Accept, Expired
    <3>4. /\ result'.status = OK /\ result'.epoch = rfile
          /\ result'.scene = rscene /\ result'.at = rcert
          /\ rpc' = "ready"
          /\ UNCHANGED <<rfile, repoch, rfault>>
      BY <2>22, <3>1 DEF Accept, Leave
    <3>5. /\ ~rfault /\ repoch = rfile /\ rfile \notin ForeignEpochs
          /\ Admissible(rscene, rcert)
      BY <2>22 DEF Accept
    <3> QED
      BY <3>2, <3>3, <3>4, <3>5
  <2>23. CASE ResetFault
    BY <2>23 DEF ResetFault
  <2>24. ASSUME NEW e \in Epochs, AcceptEpoch(e) PROVE CheckInv' /\ ReaderSafety'
    BY <2>1, <2>24 DEF AcceptEpoch, Without
  <2>25. CASE CloseReader
    BY <2>1, <2>25 DEF CloseReader, Without
  <2>26. CASE Construct
    BY <2>26 DEF Construct
  <2> QED
    BY <1>2, <2>3, <2>4, <2>5, <2>6, <2>7, <2>8, <2>9, <2>10, <2>11, <2>12,
       <2>13, <2>14, <2>15, <2>16, <2>17, <2>18, <2>19, <2>20, <2>21, <2>22,
       <2>23, <2>24, <2>25, <2>26 DEF BeginRefresh, RefreshStep, MonitorStep
<1> QED
  BY <1>1, <1>2 DEF Next, RefreshBegins, RefreshContinues, MonitorActs

\* A rejected call shows nothing, so it has nothing to answer for.
LEMMA RejectShowsNothing ==
  ASSUME CheckInv,
         \/ WatchFails \/ EpochChanged \/ WriterUnhealthy \/ RevisionJump
         \/ CopyFails \/ SceneRefused \/ CertifyFails \/ RecheckFails
  PROVE  rpc' = "ready" /\ result'.status # OK
BY DEF WatchFails, EpochChanged, WriterUnhealthy, RevisionJump, CopyFails,
       SceneRefused, CertifyFails, RecheckFails, Reject, Leave, Without,
       PENDING, INVALID, OK

\* The last three reads agree on one instant at which the scene was the
\* authority's.
LEMMA LookStep ==
  ASSUME TypeOK, LockInv, IssueInv, HoldInv, CheckInv, LookInv, ~PidReuse, Next
  PROVE  LookInv'
<1> USE BoundsAssumption
    DEF TypeOK, FileTypeOK, ReaderTypeOK, LookInv, AcceptedWasAuthoritative
<1>1. CASE OthersStep
  <2>1. UNCHANGED readerVars /\ recent \subseteq recent'
    BY <1>1 DEF OthersStep
  <2>2. rpc \in {"writer", "path"} => rfile # 0
    BY DEF HoldInv
  <2>3. WriterNext \/ WorldNext
    BY <1>1 DEF OthersStep
  <2>4. View' = View
    BY <2>1 DEF readerVars, View
  <2>5. Authority' \in recent'
    BY <1>1 DEF OthersStep
  <2> QED
    BY <2>1, <2>2, <2>3, <2>4, <2>5, OthersKeep DEF readerVars
<1>2. CASE RefreshBegins
  <2>1. rpc' # "ready" /\ rpc' # "writer" /\ rpc' # "path"
    BY <1>2 DEF RefreshBegins, BeginRefresh, Keep, Drop
  <2>2. rpidfd' # "stranger" /\ UNCHANGED process
    BY <1>2 DEF RefreshBegins, BeginRefresh, Keep, Drop, fileVars
  <2>3. Authority' \in recent'
    BY <1>2 DEF RefreshBegins, fileVars, Authority
  <2> QED
    BY <2>1, <2>2, <2>3
<1>3. CASE RefreshContinues \/ MonitorActs
  <2> USE <1>3 DEF RefreshContinues, MonitorActs
  <2>1. UNCHANGED <<path, process>> /\ Authority' \in recent'
    BY DEF fileVars, Authority
  <2>s. ~Certify => recent' = recent
    OBVIOUS
  <2>2. rpidfd' # "stranger"
    <3>1. rpc = "watch" => PidTarget # "stranger"
      <4>1. rpc = "watch" => rfile \in Epochs
        BY DEF HoldInv, Epochs
      <4> QED
        BY <4>1 DEF PidTarget
    <3> QED
      BY <3>1 DEF RefreshStep, MonitorStep, Open, LoadWord, WatchFails,
         EpochChanged, WriterUnhealthy, RevisionJump, BeginCopy, Watched,
         CopyHalf, CopyFails, SceneRefused, SceneDecoded, Prepare, Certify,
         CertifyFails, RecheckWord, RecheckWriter, RecheckFails, Accept,
         ResetFault, AcceptEpoch, CloseReader, Construct
  <2>3. CASE RecheckWord
    <3>1. /\ rpc' = "writer" /\ word[rfile] = rbefore
          /\ rfile # 0 /\ rbefore.status = OK
          /\ UNCHANGED <<rfile, rcache>>
      BY <2>3 DEF RecheckWord, HoldInv, CheckInv, PastWatch, Decoded
    <3>5. recent' = recent
      BY <2>3, <2>s DEF RecheckWord, Certify
    <3>2. rcache.scene = issued[<<rfile, rbefore.revision>>]
      BY <2>3 DEF RecheckWord, HoldInv, Decoded, Cached
    <3>3. path = rfile /\ process[rfile] = "running"
            => Authority = [epoch |-> rfile, scene |-> rcache.scene]
      BY <3>1, <3>2 DEF Authority
    <3>4. path = rfile /\ process[rfile] = "running"
            => [epoch |-> rfile, scene |-> rcache.scene] \in recent
      BY <3>3
    <3> QED
      BY <2>1, <2>2, <3>1, <3>4, <3>5
  <2>4. CASE RecheckWriter
    <3>1. rpidfd = "writer"
      BY <2>4 DEF RecheckWriter, CheckInv, PastWatch, Decoded
    <3>2. process[rfile] = "running"
      BY <2>4, <3>1 DEF RecheckWriter, Exited
    <3>3. recent' = recent
      BY <2>4, <2>s DEF RecheckWriter, Certify
    <3> QED
      BY <2>1, <2>2, <2>4, <3>2, <3>3 DEF RecheckWriter
  <2>5. CASE Accept
    <3>1. View' = [epoch |-> rfile, scene |-> rcache.scene]
      BY <2>5 DEF Accept, View
    <3>2. View' \in recent
      BY <2>5, <3>1 DEF Accept
    <3>3. recent' = recent
      BY <2>5, <2>s DEF Accept, Certify
    <3> QED
      BY <2>1, <2>2, <2>5, <3>2, <3>3 DEF Accept, Leave
  <2>6. CASE rpc' \notin {"ready", "writer", "path"}
    BY <2>1, <2>2, <2>6
  <2>7. CASE rpc' = "ready" /\ result'.status # OK
    BY <2>1, <2>2, <2>7 DEF View
  <2>8. CASE UNCHANGED <<rpc, result, recent>> /\ rpc = "ready"
    BY <2>1, <2>2, <2>8 DEF View
  <2>9. CASE RefreshStep
    BY <2>3, <2>4, <2>5, <2>6, <2>7, <2>9, RejectShowsNothing
      DEF RefreshStep, Open, LoadWord, BeginCopy, CopyHalf, SceneDecoded,
          Prepare, Certify
  <2>10. CASE MonitorStep
    <3>1. Construct => rpc' = "ready" /\ result'.status # OK
      BY DEF Construct, CheckInv
    <3> QED
      BY <2>7, <2>8, <2>10, <2>s, <3>1
        DEF MonitorStep, Certify, ResetFault, AcceptEpoch, CloseReader, Without,
            PENDING, INVALID, OK
  <2> QED
    BY <2>9, <2>10
<1> QED
  BY <1>1, <1>2, <1>3 DEF Next

-----------------------------------------------------------------------------
(* The theorems *)

\* The inductive invariant holds at the start.
LEMMA InvInit == Init => IInv
<1> SUFFICES ASSUME Init PROVE IInv
  OBVIOUS
<1> USE BoundsAssumption, NoneAssumption
    DEF Init, FileInit, WriterInit, ReaderInit
<1>1. TypeOK
  BY TypeInit
<1>2. LockInv
  BY DEF LockInv
<1>3. IssueInv
  BY DEF IssueInv, Fresh, Drafting
<1>4. HoldInv
  BY DEF HoldInv, Decoded, PastWatch, NoCopy, NoCache
<1>5. CheckInv /\ ReaderSafety
  BY DEF CheckInv, ReaderSafety, Decoded, PastWatch, Without, PENDING, OK,
         NothingSupersededIsVisible, FaultHidesScene, OnlyTheAcceptedEpoch,
         CertifiedInTime
<1>6. LookInv
  BY DEF LookInv, Authority, AcceptedWasAuthoritative, View, Without, PENDING, OK
<1> QED
  BY <1>1, <1>2, <1>3, <1>4, <1>5, <1>6 DEF IInv

\* What is vouched for is a record of some epoch, or nothing.
LEMMA AuthorityTyped ==
  ASSUME TypeOK
  PROVE  Authority \in [epoch : 0 .. MaxEpoch, scene : Content]
<1>1. CASE path # 0
  <2>1. path \in Epochs /\ word[path].revision \in Revisions
    BY <1>1 DEF TypeOK, FileTypeOK, Epochs, Words
  <2>2. issued[<<path, word[path].revision>>] \in Content
    BY <2>1 DEF TypeOK, FileTypeOK
  <2> QED
    BY <2>2, BoundsAssumption DEF Authority, NoView, Content, TypeOK, FileTypeOK
<1>2. CASE path = 0
  BY <1>2, BoundsAssumption DEF Authority, NoView, Content
<1> QED
  BY <1>1, <1>2

\* Every step keeps every type.
LEMMA TypeStep ==
  ASSUME TypeOK, IssueInv, HoldInv, Next
  PROVE  TypeOK'
<1>1. FileTypeOK' /\ WriterTypeOK' /\ ReaderTypeOK'
  <2>1. CASE OthersStep
    BY <2>1, WriterTypeStep, WorldTypeStep
      DEF OthersStep, TypeOK, ReaderTypeOK, readerVars
  <2>2. CASE RefreshBegins \/ RefreshContinues \/ MonitorActs
    <3>1. ReaderTypeOK'
      BY <2>2, ReaderTypeStep DEF RefreshBegins, RefreshContinues, MonitorActs
    <3>2. UNCHANGED <<fileVars, writerVars>>
      BY <2>2 DEF RefreshBegins, RefreshContinues, MonitorActs
    <3> QED
      BY <3>1, <3>2
        DEF TypeOK, FileTypeOK, WriterTypeOK, fileVars, writerVars
  <2> QED
    BY <2>1, <2>2 DEF Next
<1>2. \/ recent' = recent \cup {Authority'}
      \/ recent' = {Authority}
      \/ recent' = recent
  BY DEF Next, OthersStep, RefreshBegins, RefreshContinues, MonitorActs
<1>3. Authority' \in [epoch : 0 .. MaxEpoch, scene : Content]
  <2>1. CASE path' # 0
    <3>1. path' \in Epochs /\ word'[path'].revision \in Revisions
      BY <1>1, <2>1 DEF FileTypeOK, Epochs, Words
    <3>2. issued'[<<path', word'[path'].revision>>] \in Content
      BY <1>1, <3>1 DEF FileTypeOK
    <3> QED
      BY <1>1, <3>2, BoundsAssumption DEF Authority, NoView, Content, FileTypeOK
  <2>2. CASE path' = 0
    BY <2>2, BoundsAssumption DEF Authority, NoView, Content
  <2> QED
    BY <2>1, <2>2
<1>4. recent' \in SUBSET [epoch : 0 .. MaxEpoch, scene : Content]
  BY <1>2, <1>3, AuthorityTyped DEF TypeOK
<1> QED
  BY <1>1, <1>4 DEF TypeOK

\* Every step preserves the inductive invariant.
LEMMA InvStep == IInv /\ [Next]_vars => IInv'
<1> SUFFICES ASSUME IInv, [Next]_vars PROVE IInv'
  OBVIOUS
<1>1. CASE Next
  <2>1. TypeOK' /\ LockInv' /\ IssueInv' /\ HoldInv'
    BY <1>1, TypeStep, LockStep, IssueStep, HoldStep DEF IInv
  <2>2. CheckInv' /\ ReaderSafety'
    BY <1>1, CheckStep DEF IInv
  <2>3. LookInv'
    <3>1. CASE PidReuse
      BY <3>1 DEF LookInv
    <3>2. CASE ~PidReuse
      BY <1>1, <3>2, LookStep DEF IInv
    <3> QED
      BY <3>1, <3>2
  <2> QED
    BY <2>1, <2>2, <2>3 DEF IInv
<1>2. CASE UNCHANGED vars
  <2> USE <1>2 DEF vars, fileVars, writerVars, readerVars
  <2>1. TypeOK'
    BY DEF IInv, TypeOK, FileTypeOK, WriterTypeOK, ReaderTypeOK
  <2>2. LockInv' /\ IssueInv' /\ HoldInv' /\ CheckInv'
    BY DEF IInv, LockInv, IssueInv, HoldInv, CheckInv, Cached
  <2>3. LookInv'
    BY DEF IInv, LookInv, Authority, AcceptedWasAuthoritative, View
  <2>4. ReaderSafety'
    BY DEF IInv, ReaderSafety, NothingSupersededIsVisible, FaultHidesScene,
           OnlyTheAcceptedEpoch, CertifiedInTime
  <2> QED
    BY <2>1, <2>2, <2>3, <2>4 DEF IInv
<1> QED
  BY <1>1, <1>2

\* The inductive invariant holds of every behaviour: what the lock, the issued
\* revisions, the reader's copies and its checks have in common.
THEOREM Invariance == Spec => []IInv
BY InvInit, InvStep, PTL DEF Spec

\* Every variable keeps its type, for every value of the constants.
THEOREM TypeCorrect == Spec => []TypeOK
<1>1. IInv => TypeOK
  BY DEF IInv
<1> QED
  BY <1>1, Invariance, PTL

\* Once refresh has loaded the word, nothing of an earlier word is visible.
THEOREM SupersededIsHidden == Spec => []NothingSupersededIsVisible
<1>1. IInv => NothingSupersededIsVisible
  BY DEF IInv, ReaderSafety
<1> QED
  BY <1>1, Invariance, PTL

\* While _fault is set, result is never OK.
THEOREM FaultsHide == Spec => []FaultHidesScene
<1>1. IInv => FaultHidesScene
  BY DEF IInv, ReaderSafety
<1> QED
  BY <1>1, Invariance, PTL

\* The epoch shown is the one adopted or accepted, and of the expected source.
THEOREM EpochIsAccepted == Spec => []OnlyTheAcceptedEpoch
<1>1. IInv => OnlyTheAcceptedEpoch
  BY DEF IInv, ReaderSafety
<1> QED
  BY <1>1, Invariance, PTL

\* The scene shown was timely when its device preparation ended.
THEOREM SceneIsInTime == Spec => []CertifiedInTime
<1>1. IInv => CertifiedInTime
  BY DEF IInv, ReaderSafety
<1> QED
  BY <1>1, Invariance, PTL

\* Only accept_epoch, between two calls, moves a reader to another epoch.
THEOREM EpochIsKept == Spec => RefreshKeepsEpoch
<1>1. IInv /\ [Next]_vars =>
        [repoch # 0 /\ repoch' # repoch => rpc = "ready"]_vars
  BY DEF Next, OthersStep, readerVars, RefreshBegins, BeginRefresh, Keep, Drop,
     RefreshContinues, RefreshStep, Open, LoadWord, WatchFails, EpochChanged,
     WriterUnhealthy, RevisionJump, BeginCopy, EpochAccepted, CopyHalf,
     CopyFails, SceneRefused, SceneDecoded, Prepare, Certify, CertifyFails,
     RecheckWord, RecheckWriter, RecheckFails, Accept, MonitorActs,
     MonitorStep, Construct, ResetFault, AcceptEpoch, CloseReader
<1> QED
  BY <1>1, Invariance, PTL DEF Spec, RefreshKeepsEpoch

\* A scene consumers may use between two calls was vouched for by the living
\* writer of the public path at one instant after its device preparation had
\* ended, provided the system does not reuse a writer's pid.
THEOREM AcceptedIsAuthoritative ==
  ASSUME ~PidReuse
  PROVE  Spec => []AcceptedWasAuthoritative
<1>1. IInv => AcceptedWasAuthoritative
  BY DEF IInv, LookInv
<1> QED
  BY <1>1, Invariance, PTL

(***************************************************************************)
(* The scene transport implements the regular register of SceneRegister:   *)
(* every step of any process is a step of the register or changes nothing  *)
(* the register sees.                                                      *)
(***************************************************************************)

\* A result that is not OK shows nothing.
LEMMA NothingShown ==
  ASSUME result'.status # OK
  PROVE  View' = NoView
BY DEF View

\* Nothing is vouched for, shown or read at the start.
LEMMA RegisterInit == Init => Register!Init
BY DEF Init, FileInit, ReaderInit, Register!Init, Authority, View, Without,
       PENDING, OK

\* The last part of refresh is the read, what shows nothing is a withdrawal.
LEMMA RegisterStep ==
  ASSUME ~PidReuse, IInv, IInv', [Next]_vars
  PROVE  [Register!Next]_(Register!registerVars)
<1> USE DEF Register!Next, Register!registerVars
<1>1. CASE OthersStep
  <2>1. recent' = recent \cup {Authority'}
    BY <1>1 DEF OthersStep
  <2>2. View' = View /\ rpc' = rpc
    BY <1>1 DEF OthersStep, readerVars, View
  <2>3. Register!Authorize
    BY <2>1, <2>2 DEF Register!Authorize
  <2> QED
    BY <2>3
<1>2. CASE RefreshBegins \/ RefreshContinues \/ MonitorActs
  <2> USE <1>2 DEF RefreshBegins, RefreshContinues, MonitorActs
  <2> DEFINE Looking == {"word", "writer", "path"}
  <2>1. Authority' = Authority
    BY DEF fileVars, Authority
  <2>2. ~Certify => recent' = recent
    OBVIOUS
  <2>3. CASE Certify
    <3>1. /\ rpc \notin Looking /\ rpc' \in Looking
          /\ View' = View
      BY <2>3 DEF Certify, View
    <3>2. recent' = {Authority}
      BY <2>3 DEF Certify, BeginRefresh, Keep, Drop, MonitorStep, Construct,
         ResetFault, AcceptEpoch, CloseReader
    <3>3. Register!BeginRead
      BY <2>1, <3>1, <3>2 DEF Register!BeginRead
    <3> QED
      BY <3>3
  <2>4. CASE /\ recent' = recent
             /\ rpc \in Looking <=> rpc' \in Looking
             /\ View' \in {View, NoView}
    BY <2>1, <2>4 DEF Register!Withdraw
  <2>5. CASE /\ recent' = recent
             /\ rpc' \notin Looking /\ View' = NoView
    <3>1. CASE rpc \in Looking
      BY <2>1, <2>5, <3>1 DEF Register!EndRead
    <3>2. CASE rpc \notin Looking
      BY <2>1, <2>5, <3>2 DEF Register!Withdraw
    <3> QED
      BY <3>1, <3>2
  <2>6. CASE \/ WatchFails \/ EpochChanged \/ WriterUnhealthy \/ RevisionJump
             \/ CopyFails \/ SceneRefused \/ CertifyFails \/ RecheckFails
    <3>1. rpc' = "ready" /\ result'.status # OK
      BY <2>6, RejectShowsNothing DEF IInv
    <3>2. ~Certify
      BY <3>1 DEF Certify
    <3> QED
      BY <2>2, <2>5, <3>1, <3>2, NothingShown
  <2>7. CASE Accept
    <3>1. rpc \in Looking /\ rpc' = "ready" /\ recent' = recent
      BY <2>2, <2>7 DEF Accept, Leave, Certify
    <3>2. View' \in recent' \cup {NoView}
      BY <3>1 DEF IInv, LookInv, AcceptedWasAuthoritative
    <3>3. Register!EndRead
      BY <2>1, <3>1, <3>2 DEF Register!EndRead
    <3> QED
      BY <3>3
  <2>8. CASE BeginRefresh \/ LoadWord \/ SceneDecoded \/ MonitorStep
    <3>1. ~Certify /\ rpc \notin Looking /\ rpc' \notin Looking
      BY <2>8 DEF BeginRefresh, Keep, Drop, LoadWord, SceneDecoded,
         CopyChecked, Certify, MonitorStep, Construct, ResetFault,
         AcceptEpoch, CloseReader
    <3>2. View' \in {View, NoView}
      BY <2>8 DEF BeginRefresh, Keep, Drop, LoadWord, SceneDecoded,
         MonitorStep, Construct, ResetFault, AcceptEpoch, CloseReader, View,
         Without, PENDING, INVALID, OK
    <3> QED
      BY <2>2, <2>4, <3>1, <3>2
  <2>9. CASE \/ Open \/ BeginCopy \/ (\E h \in Halves : CopyHalf(h))
             \/ (\E ok \in BOOLEAN : Prepare(ok))
             \/ RecheckWord \/ RecheckWriter
    <3>1. ~Certify /\ result' = result
      BY <2>9 DEF Open, BeginCopy, Watched, CopyHalf, Prepare, RecheckWord,
         RecheckWriter, Certify
    <3>2. rpc \in Looking <=> rpc' \in Looking
      BY <2>9 DEF Open, BeginCopy, Watched, CopyHalf, Prepare, RecheckWord,
         RecheckWriter
    <3> QED
      BY <2>2, <2>4, <3>1, <3>2 DEF View
  <2> QED
    BY <2>3, <2>6, <2>7, <2>8, <2>9 DEF RefreshStep
<1>3. CASE UNCHANGED vars
  BY <1>3 DEF vars, fileVars, readerVars, Authority, View
<1> QED
  BY <1>1, <1>2, <1>3 DEF Next

\* The transport is a regular register for its readers, provided the system
\* does not reuse a writer's pid.
THEOREM TransportIsARegister ==
  ASSUME ~PidReuse
  PROVE  Spec => ImplementsRegister
<1>1. IInv /\ IInv' /\ [Next]_vars => [Register!Next]_(Register!registerVars)
  BY RegisterStep
<1> QED
  BY <1>1, RegisterInit, Invariance, PTL
    DEF Spec, ImplementsRegister, Register!Spec

(***************************************************************************)
(* A revoked scene goes.  A call of refresh has eleven stages, and while   *)
(* the scene stays visible each step of it leads to a later one, or ends   *)
(* the call by accepting.  The authorities that Certify remembers are      *)
(* those of the rest of the call, so it cannot accept what was revoked     *)
(* before it.                                                              *)
(***************************************************************************)

\* How far a call of refresh is, 0 between two calls.
Depth ==
  CASE rpc = "open" -> 1
    [] rpc = "load" -> 2
    [] rpc = "watch" -> 3
    [] rpc = "copy" -> IF rleft = Halves THEN 4 ELSE IF rleft # {} THEN 5 ELSE 6
    [] rpc = "prepare" -> 7
    [] rpc = "certify" -> 8
    [] rpc = "word" -> 9
    [] rpc = "writer" -> 10
    [] rpc = "path" -> 11
    [] OTHER -> 0

\* What the reader has mapped was at the public path, which is never empty again.
PathInv == rfile # 0 => path # 0

\* Open maps what is at the path, and the path only moves to another file.
LEMMA PathHolds == Spec => []PathInv
<1>1. Init => PathInv
  BY DEF Init, ReaderInit, PathInv
<1>2. IInv /\ PathInv /\ [Next]_vars => PathInv'
  <2> SUFFICES ASSUME IInv, PathInv, [Next]_vars PROVE PathInv'
    OBVIOUS
  <2>1. CASE OthersStep
    <3>1. path # 0 => path' # 0
      BY <2>1, OthersKeep DEF OthersStep, IInv
    <3> QED  BY <2>1, <3>1 DEF OthersStep, readerVars, PathInv
  <2>2. CASE RefreshBegins \/ RefreshContinues \/ MonitorActs
    <3>1. rfile' \in {rfile, 0, path} /\ path' = path
      BY <2>2 DEF RefreshBegins, RefreshContinues, MonitorActs, fileVars,
         BeginRefresh, Keep, Drop, RefreshStep, Open, LoadWord, WatchFails,
         EpochChanged, WriterUnhealthy, RevisionJump, BeginCopy, CopyHalf,
         CopyFails, SceneRefused, SceneDecoded, Prepare, Certify, CertifyFails,
         RecheckWord, RecheckWriter, RecheckFails, Accept, MonitorStep,
         Construct, ResetFault, AcceptEpoch, CloseReader
    <3> QED  BY <3>1 DEF PathInv
  <2>3. CASE UNCHANGED vars
    BY <2>3 DEF vars, readerVars, fileVars, PathInv
  <2> QED  BY <2>1, <2>2, <2>3 DEF Next
<1> QED  BY <1>1, <1>2, Invariance, PTL DEF Spec

\* One step of a call of refresh.
Call == RefreshBegins \/ RefreshContinues

\* A call that still shows something goes on, or ends with Accept.
LEMMA CallGoesOn ==
  ASSUME IInv, Call, View' # NoView, vars' # vars
  PROVE  \/ Depth' > Depth
         \/ Accept /\ Depth = 11 /\ Depth' = 0
<1>0. /\ result'.status = OK /\ CheckInv /\ TypeOK
      /\ PENDING # OK /\ INVALID # OK
  BY DEF View, IInv, PENDING, INVALID, OK
<1>1. CASE Keep
  BY <1>1 DEF Keep, Depth
<1>2. CASE Drop
  BY <1>0, <1>2 DEF Drop, Without
<1>3. CASE \/ WatchFails \/ EpochChanged \/ WriterUnhealthy \/ RevisionJump
           \/ CopyFails \/ SceneRefused \/ CertifyFails \/ RecheckFails
  BY <1>0, <1>3, RejectShowsNothing
<1>4. CASE Open \/ LoadWord
  BY <1>4 DEF Open, LoadWord, Depth
<1>5. CASE BeginCopy
  BY <1>5 DEF BeginCopy, Watched, Depth
<1>6. ASSUME NEW h \in Halves, CopyHalf(h)
      PROVE  Depth' > Depth
  <2>1. /\ rpc = "copy" /\ rpc' = "copy" /\ h \in rleft /\ rleft' = rleft \ {h}
        /\ rleft \subseteq Halves
    BY <1>0, <1>6 DEF CopyHalf, TypeOK, ReaderTypeOK
  <2>2. CASE rleft = Halves
    BY <2>1, <2>2 DEF Depth, Halves
  <2>3. CASE rleft # Halves
    <3>1. rleft' = {}
      BY <2>1, <2>3 DEF Halves
    <3> QED  BY <2>1, <2>3, <3>1 DEF Depth, Halves
  <2> QED  BY <2>2, <2>3
<1>7. CASE SceneDecoded
  BY <1>7 DEF SceneDecoded, CopyChecked, Depth, Halves
<1>8. ASSUME NEW ok \in BOOLEAN, Prepare(ok)
      PROVE  Depth' > Depth
  BY <1>8 DEF Prepare, Depth
<1>9. CASE Certify \/ RecheckWord \/ RecheckWriter
  BY <1>9 DEF Certify, RecheckWord, RecheckWriter, Depth
<1>10. CASE Accept
  BY <1>10 DEF Accept, Leave, Depth
<1> QED
  BY <1>1, <1>2, <1>3, <1>4, <1>5, <1>6, <1>7, <1>8, <1>9, <1>10
  DEF Call, RefreshBegins, BeginRefresh, RefreshContinues, RefreshStep

\* Nobody else moves it.
LEMMA OthersLeaveTheCall ==
  ASSUME OthersStep \/ MonitorActs \/ UNCHANGED vars
  PROVE  Depth' = Depth
<1>1. CASE OthersStep \/ UNCHANGED vars
  BY <1>1 DEF OthersStep, vars, readerVars, Depth
<1>2. CASE MonitorActs
  BY <1>2 DEF MonitorActs, MonitorStep, Construct, ResetFault, AcceptEpoch,
     CloseReader, Depth
<1> QED  BY <1>1, <1>2

\* While the authority is none of the views S, they leave recent with the next
\* certification and do not come back.
Forgotten(S) == recent \cap S = {}

LEMMA ForgottenStays ==
  ASSUME NEW S, Forgotten(S), Authority' \notin S, Authority \notin S, [Next]_vars
  PROVE  Forgotten(S)'
BY DEF Forgotten, Next, vars, OthersStep, RefreshBegins, RefreshContinues,
   MonitorActs

\* Certify is the only way past stage 8, and sets recent to the authority.
LEMMA CertifyForgets ==
  ASSUME NEW S, Authority \notin S, Call, Depth < 9, Depth' >= 9
  PROVE  Forgotten(S)'
<1>1. rpc' \in {"word", "writer", "path"}
  BY DEF Depth
<1>2. rpc \notin {"word", "writer", "path"}
  BY DEF Depth
<1>3. RefreshContinues /\ Certify
  BY <1>1, <1>2 DEF Call, RefreshBegins, BeginRefresh, Keep, Drop,
     RefreshContinues, RefreshStep, Open, LoadWord, WatchFails, EpochChanged,
     WriterUnhealthy, RevisionJump, BeginCopy, CopyHalf, CopyFails, SceneRefused,
     SceneDecoded, Prepare, CertifyFails, RecheckWord, RecheckWriter,
     RecheckFails, Accept, Leave, Reject
<1> QED  BY <1>3 DEF RefreshContinues, Forgotten

\* What is forgotten is not accepted.
LEMMA AcceptedIsRemembered ==
  ASSUME NEW S, ~PidReuse, IInv', Forgotten(S), Call, Accept, View' # NoView
  PROVE  View' \notin S
<1>1. rpc' = "ready" /\ recent' = recent
  BY DEF Call, RefreshBegins, BeginRefresh, Keep, Drop, Accept, Leave,
     RefreshContinues, Certify
<1> QED  BY <1>1 DEF IInv, LookInv, AcceptedWasAuthoritative, Forgotten

\* The call is at stage k or past it.
At(k) == Depth >= k
\* One of the views S is shown, and none of them is vouched for.
Revoked(S) == View \in S /\ Authority \notin S

\* A call of a revoked scene goes on until Certify has seen the authority once
\* more, and then as far as its end, which does not accept the scene again.
LEMMA RevokedGoesOn ==
  ASSUME NEW S, NoView \notin S, ~PidReuse, IInv, IInv', Revoked(S), Revoked(S)',
         <<Call>>_vars, Forgotten(S) \/ ~At(9), NEW k \in 0 .. 11, At(k)
  PROVE  At(k + 1)' /\ (At(9)' => Forgotten(S)')
<1>0. Call /\ vars' # vars
  OBVIOUS
<1>1. View' # NoView /\ View' \in S /\ Authority \notin S /\ Authority' \notin S
  BY DEF Revoked
<1>2. Depth \in 0 .. 11 /\ Depth' \in 0 .. 11
  BY DEF Depth
<1>3. ~(Accept /\ Depth = 11)
  BY <1>0, <1>1, AcceptedIsRemembered DEF At
<1>4. Depth' > Depth
  BY <1>0, <1>1, <1>3, CallGoesOn
<1>5. At(9)' => Forgotten(S)'
  <2>1. CASE Forgotten(S)
    <3>1. [Next]_vars
      BY <1>0 DEF Call, Next
    <3> QED  BY <1>1, <2>1, <3>1, ForgottenStays
  <2>2. CASE ~At(9)
    BY <1>0, <1>1, <1>2, <2>2, CertifyForgets DEF At
  <2> QED  BY <2>1, <2>2
<1> QED  BY <1>2, <1>4, <1>5 DEF At

\* One that has certified before comes to its end.
LEMMA RevokedEnds ==
  ASSUME NEW S, NoView \notin S, IInv, Revoked(S)', <<Call>>_vars,
         NEW k \in 9 .. 11, At(k)
  PROVE  At(k + 1)' \/ ~At(9)'
<1>1. View' # NoView
  BY DEF Revoked
<1>2. Depth' > Depth \/ Depth' = 0
  BY <1>1, CallGoesOn
<1>3. Depth \in 0 .. 11 /\ Depth' \in 0 .. 11
  BY DEF Depth
<1> QED  BY <1>2, <1>3 DEF At

\* The stages stand still while refresh does.
LEMMA WithoutACall ==
  ASSUME [Next]_vars, ~<<Call>>_vars, NEW k
  PROVE  At(k)' <=> At(k)
<1>1. Depth' = Depth
  BY OthersLeaveTheCall DEF Next, Call
<1> QED  BY <1>1 DEF At

\* The guard of refresh: the reader was constructed, and the path exists.
MayCall == rpc # "new" /\ path # 0

\* ENABLED is beyond the provers: that a call whose guard holds can proceed is a
\* hypothesis.
CallsProceed == [](MayCall => ENABLED <<RefreshBegins \/ RefreshContinues>>_vars)

\* Who shows a scene can call refresh.
LEMMA VisibleMayCall ==
  ASSUME IInv, PathInv, View # NoView
  PROVE  MayCall
BY DEF IInv, CheckInv, PathInv, View, MayCall

\* None of the views S stays visible while the authority is none of them: it is
\* dropped or replaced by another, or one of them is vouched for again.  With
\* one view for S this says so of a single scene, with all views of an epoch it
\* says so of that epoch.
LeavesRevoked(S) ==
  View \in S /\ Authority \notin S ~> View \notin S \/ Authority \in S

\* For any scenes S: refresh does not show them for ever while they are revoked,
\* however the writers, the processes and the clock go on around it.
THEOREM RevokedSceneGoes ==
  ASSUME NEW S, NoView \notin S, ~PidReuse
  PROVE  FairSpec /\ CallsProceed => LeavesRevoked(S)
<1> DEFINE P == Revoked(S)
           F == Forgotten(S)
<1>1. /\ IInv /\ IInv' /\ P /\ P' /\ <<Call>>_vars
      /\ F \/ ~At(9)
      => /\ (At(0) => At(1)') /\ (At(1) => At(2)') /\ (At(2) => At(3)')
         /\ (At(3) => At(4)') /\ (At(4) => At(5)') /\ (At(5) => At(6)')
         /\ (At(6) => At(7)') /\ (At(7) => At(8)') /\ (At(8) => At(9)')
         /\ (At(9) => At(10)') /\ (At(10) => At(11)') /\ (At(11) => At(12)')
         /\ (At(0) /\ At(9)' => F')
  <2> SUFFICES ASSUME IInv, IInv', P, P', <<Call>>_vars, F \/ ~At(9)
               PROVE  \A k \in 0 .. 11 : At(k) => At(k + 1)' /\ (At(9)' => F')
    OBVIOUS
  <2> QED  BY RevokedGoesOn
<1>2. IInv /\ P' /\ <<Call>>_vars
      => /\ (At(9) => At(10)' \/ ~At(9)') /\ (At(10) => At(11)' \/ ~At(9)')
         /\ (At(11) => At(12)' \/ ~At(9)')
  <2> SUFFICES ASSUME IInv, P', <<Call>>_vars
               PROVE  \A k \in 9 .. 11 : At(k) => At(k + 1)' \/ ~At(9)'
    OBVIOUS
  <2> QED  BY RevokedEnds
<1>3. [Next]_vars /\ P /\ P' /\ F => F'
  BY ForgottenStays DEF Revoked
<1>4. [Next]_vars /\ ~<<Call>>_vars
      => /\ (At(0)' <=> At(0)) /\ (At(1)' <=> At(1)) /\ (At(2)' <=> At(2))
         /\ (At(3)' <=> At(3)) /\ (At(4)' <=> At(4)) /\ (At(5)' <=> At(5))
         /\ (At(6)' <=> At(6)) /\ (At(7)' <=> At(7)) /\ (At(8)' <=> At(8))
         /\ (At(9)' <=> At(9)) /\ (At(10)' <=> At(10)) /\ (At(11)' <=> At(11))
  BY WithoutACall
<1>5. At(0) /\ ~At(12)
  BY DEF At, Depth
<1>6. IInv /\ PathInv /\ P => MayCall
  BY VisibleMayCall DEF Revoked
<1>7. <<Call>>_vars <=> <<RefreshBegins \/ RefreshContinues>>_vars
  BY DEF Call
<1>8. /\ P <=> View \in S /\ Authority \notin S
      /\ P \/ ~(View \in S /\ Authority \notin S)
      /\ ~P => View \notin S \/ Authority \in S
  BY DEF Revoked
<1> HIDE DEF P, F
<1>9. FairSpec /\ CallsProceed => []<>~P
  BY <1>1, <1>2, <1>3, <1>4, <1>5, <1>6, <1>7, Invariance, PathHolds, PTL
  DEF FairSpec, Spec, CallsProceed
<1> QED  BY <1>8, <1>9, PTL DEF LeavesRevoked

=============================================================================
