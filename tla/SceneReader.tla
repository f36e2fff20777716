----------------------------- MODULE SceneReader -----------------------------
(***************************************************************************)
(* SharedSceneReader.  A reader changes nothing that it shares, so one     *)
(* reader stands for any number of them.  refresh() is one pass from       *)
(* "ready" to "ready", cut wherever another process can move between two   *)
(* of its reads.                                                           *)
(***************************************************************************)
EXTENDS SceneFile

VARIABLES
  rpc,      \* where refresh is; "ready" between two calls, "new" before __init__
  rfile,    \* the mapped file's epoch, 0 while there is no mapping
  rpidfd,   \* what _pidfd was opened on: nothing, the writer, a stranger
  repoch,   \* _epoch, 0 for None
  rlast,    \* _last_revision, -1 for None
  rfault,   \* is _fault set?
  rcache,   \* _cached_key and _cached_scene
  result,   \* _result, what consumers see at any moment
  rbefore,  \* the word this call loaded
  rcopy,    \* the slot bytes it has copied
  rleft,    \* the halves it has not
  rscene,   \* the record it decoded
  rcert     \* "completed", the time after device preparation

readerVars == <<rpc, rfile, rpidfd, repoch, rlast, rfault, rcache, result,
                rbefore, rcopy, rleft, rscene, rcert>>

Stages == {"new", "ready", "open", "load", "watch", "copy", "prepare",
           "certify", "word", "writer", "path"}

Caches == [epoch : 0 .. MaxEpoch, revision : Revisions, scene : Content,
           ok : BOOLEAN]
Results == [status : Statuses, epoch : 0 .. MaxEpoch,
            note : Words \cup {NoWord}, scene : Content, at : Times]

ReaderTypeOK ==
  /\ rpc \in Stages
  /\ rfile \in 0 .. MaxEpoch
  /\ rpidfd \in {"none", "writer", "stranger"}
  /\ repoch \in 0 .. MaxEpoch
  /\ rlast \in -1 .. MaxRevision
  /\ rfault \in BOOLEAN
  /\ rcache \in Caches
  /\ result \in Results
  /\ rbefore \in Words
  /\ rcopy \in [Halves -> Content]
  /\ rleft \in SUBSET Halves
  /\ rscene \in Content
  /\ rcert \in Times

NoCache == [epoch |-> 0, revision |-> 0, scene |-> NoScene, ok |-> FALSE]
NoCopy == [h \in Halves |-> NoScene]

\* A result without a scene; note is NoWord where the code gives no notice.
Without(st, note) ==
  [status |-> st, epoch |-> 0, note |-> note, scene |-> NoScene, at |-> 0]

View == IF result.status = OK
        THEN [epoch |-> result.epoch, scene |-> result.scene]
        ELSE NoView

ReaderInit ==
  /\ rpc = "new"
  /\ rfile = 0
  /\ rpidfd = "none"
  /\ repoch = 0
  /\ rlast = -1
  /\ rfault = FALSE
  /\ rcache = NoCache
  /\ result = Without(PENDING, NoWord)
  /\ rbefore = FirstWord
  /\ rcopy = NoCopy
  /\ rleft = {}
  /\ rscene = NoScene
  /\ rcert = 0

\* The locals of refresh are gone once it returns.
Leave ==
  /\ rpc' = "ready"
  /\ rbefore' = FirstWord
  /\ rcopy' = NoCopy
  /\ rleft' = {}
  /\ rscene' = NoScene
  /\ rcert' = 0

\* _reject(status, reason, notice, latch)
LatchOnly(st, note, latch) ==  \* mutant: what consumers see stays
  /\ rfault' = (rfault \/ latch)
  /\ Leave
  /\ UNCHANGED result
Reject(st, note, latch) ==
  /\ result' = Without(st, note)
  /\ rfault' = (rfault \/ latch)
  /\ Leave

-----------------------------------------------------------------------------
(* One call of refresh *)

\* The stat of the path: another inode, or no mapping, makes refresh close.
Keep ==
  /\ rpc = "ready"
  /\ path # 0
  /\ rfile = path
  /\ rpc' = "load"
  /\ UNCHANGED <<rfile, rpidfd, repoch, rlast, rfault, rcache, result,
                 rbefore, rcopy, rleft, rscene, rcert>>

Drop ==
  /\ rpc = "ready"
  /\ path # 0
  /\ rfile # path
  /\ rfile' = 0
  /\ rpidfd' = "none"
  /\ result' = Without(INVALID, NoWord)
  /\ rpc' = "open"
  /\ UNCHANGED <<repoch, rlast, rfault, rcache, rbefore, rcopy, rleft, rscene,
                 rcert>>

\* _open maps whatever file has the path by now.
Open ==
  /\ rpc = "open"
  /\ rfile' = path
  /\ rpc' = "load"
  /\ UNCHANGED <<rpidfd, repoch, rlast, rfault, rcache, result, rbefore, rcopy,
                 rleft, rscene, rcert>>

\* The acquire load.  A word other than the last notice's withdraws what
\* consumers see, before anything is copied.
LoadQuietly ==  \* mutant: a new word withdraws nothing
  /\ rpc = "load"
  /\ rbefore' = word[rfile]
  /\ rpc' = "watch"
  /\ UNCHANGED <<rfile, rpidfd, repoch, rlast, rfault, rcache, result, rcopy,
                 rleft, rscene, rcert>>
LoadWord ==
  /\ rpc = "load"
  /\ rbefore' = word[rfile]
  /\ result' = IF result.note = word[rfile]
               THEN result ELSE Without(PENDING, NoWord)
  /\ rpc' = "watch"
  /\ UNCHANGED <<rfile, rpidfd, repoch, rlast, rfault, rcache, rcopy, rleft,
                 rscene, rcert>>

\* The pidfd after pidfd_open, if there was none.
PidTarget ==
  IF rpidfd # "none" THEN rpidfd
  ELSE CASE process[rfile] = "running" -> "writer"
         [] process[rfile] = "recycled" -> "stranger"
         [] OTHER -> "none"

\* select on the pidfd: only a real exit of the watched process is readable.
NeverExited(pidfd) == FALSE  \* mutant
Exited(pidfd) == pidfd = "writer" /\ process[rfile] # "running"

\* A header of another source, a pid that no longer exists, an exit.
WatchFails ==
  /\ rpc = "watch"
  /\ \/ rfile \in ForeignEpochs /\ UNCHANGED rpidfd
     \/ /\ rfile \notin ForeignEpochs
        /\ PidTarget = "none" \/ Exited(PidTarget)
        /\ rpidfd' = PidTarget
  /\ Reject(INVALID, NoWord, TRUE)
  /\ UNCHANGED <<rfile, repoch, rlast, rcache>>

Watched ==
  /\ rpc = "watch"
  /\ rfile \notin ForeignEpochs
  /\ PidTarget # "none"
  /\ ~Exited(PidTarget)
  /\ rpidfd' = PidTarget

\* The first epoch seen is adopted, a later one only reported.
EpochAccepted == repoch \in {0, rfile}

EpochChanged ==
  /\ Watched
  /\ ~EpochAccepted
  /\ Reject(PENDING, NoWord, FALSE)
  /\ UNCHANGED <<rfile, repoch, rlast, rcache>>

\* A word that is not OK is remembered, and latched unless it is PENDING.
WriterUnhealthy ==
  /\ Watched
  /\ EpochAccepted
  /\ repoch' = rfile
  /\ rbefore.status # OK
  /\ rlast' = rbefore.revision
  /\ Reject(rbefore.status, NoWord, rbefore.status # PENDING)
  /\ UNCHANGED <<rfile, rcache>>

Consecutive == rlast = -1 \/ rbefore.revision \in {rlast, rlast + 1}

RevisionJump ==
  /\ Watched
  /\ EpochAccepted
  /\ repoch' = rfile
  /\ rbefore.status = OK
  /\ ~Consecutive
  /\ rlast' = rbefore.revision
  /\ Reject(INVALID, NoWord, TRUE)
  /\ UNCHANGED <<rfile, rcache>>

BeginCopy ==
  /\ Watched
  /\ EpochAccepted
  /\ repoch' = rfile
  /\ rbefore.status = OK
  /\ Consecutive
  /\ rlast' = rbefore.revision
  /\ rleft' = Halves
  /\ rpc' = "copy"
  /\ UNCHANGED <<rfile, rfault, rcache, result, rbefore, rcopy, rscene, rcert>>

CopyHalf(h) ==
  /\ rpc = "copy"
  /\ h \in rleft
  /\ rcopy' = [rcopy EXCEPT ![h] = image[<<rfile, rbefore.slot, h>>]]
  /\ rleft' = rleft \ {h}
  /\ UNCHANGED <<rpc, rfile, rpidfd, repoch, rlast, rfault, rcache, result,
                 rbefore, rscene, rcert>>

\* The checksum holds and the copy's own word is the one loaded.
Intact ==
  /\ rcopy["front"] # NoScene
  /\ rcopy["front"] = rcopy["back"]
  /\ rcopy["front"].revision = rbefore.revision
  /\ rcopy["front"].slot = rbefore.slot

CopyChecked ==
  /\ rpc = "copy"
  /\ rleft = {}
  /\ word[rfile] = rbefore
  /\ Intact

\* The word moved, or the bytes are not its record: rejected with no notice.
CopyFails ==
  /\ rpc = "copy"
  /\ rleft = {}
  /\ word[rfile] # rbefore \/ ~Intact
  /\ Reject(INVALID, NoWord, TRUE)
  /\ UNCHANGED <<rfile, rpidfd, repoch, rlast, rcache>>

Timely(c, t) == Admissible(c, t) /\ t - c.made <= SlotTimeout

\* Too old for this epoch, not admissible any more, or a latched fault: the
\* notice is given, and only a new failure latches.
SceneRefused ==
  /\ CopyChecked
  /\ \/ /\ \/ rcopy["front"].made < created[rfile]
           \/ ~Timely(rcopy["front"], now)
        /\ Reject(INVALID, rbefore, TRUE)
     \/ /\ created[rfile] <= rcopy["front"].made
        /\ Timely(rcopy["front"], now)
        /\ rfault
        /\ Reject(INVALID, rbefore, FALSE)
  /\ UNCHANGED <<rfile, rpidfd, repoch, rlast, rcache>>

Cached == rcache.epoch = rfile /\ rcache.revision = rbefore.revision

SceneDecoded ==
  /\ CopyChecked
  /\ created[rfile] <= rcopy["front"].made
  /\ Timely(rcopy["front"], now)
  /\ ~rfault
  /\ rscene' = rcopy["front"]
  /\ IF Cached
     THEN rpc' = "certify" /\ UNCHANGED result
     ELSE rpc' = "prepare" /\ result' = Without(PENDING, rbefore)
  /\ UNCHANGED <<rfile, rpidfd, repoch, rlast, rfault, rcache, rbefore, rcopy,
                 rleft, rcert>>

\* prepare_scene: OK only for a scene still admissible, and even then it may
\* miss its deadline.  The outcome is cached either way.
Prepare(ok) ==
  /\ rpc = "prepare"
  /\ ok => Admissible(rscene, now)
  /\ rcache' = [epoch |-> rfile, revision |-> rbefore.revision,
                scene |-> rscene, ok |-> ok]
  /\ rpc' = "certify"
  /\ UNCHANGED <<rfile, rpidfd, repoch, rlast, rfault, result, rbefore, rcopy,
                 rleft, rscene, rcert>>

\* "completed" is read and the scene admitted once more.
Certify ==
  /\ rpc = "certify"
  /\ Admissible(rscene, now)
  /\ rcert' = now
  /\ rpc' = "word"
  /\ UNCHANGED <<rfile, rpidfd, repoch, rlast, rfault, rcache, result, rbefore,
                 rcopy, rleft, rscene>>

CertifyFails ==
  /\ rpc = "certify"
  /\ ~Admissible(rscene, now)
  /\ Reject(INVALID, rbefore, TRUE)
  /\ UNCHANGED <<rfile, rpidfd, repoch, rlast, rcache>>

\* The last three reads, in their order: the word, the pidfd, the path.
RecheckNothing ==  \* mutant: the word is not read again
  /\ rpc = "word"
  /\ rpc' = "writer"
  /\ UNCHANGED <<rfile, rpidfd, repoch, rlast, rfault, rcache, result, rbefore,
                 rcopy, rleft, rscene, rcert>>
RecheckWord ==
  /\ rpc = "word"
  /\ word[rfile] = rbefore
  /\ rpc' = "writer"
  /\ UNCHANGED <<rfile, rpidfd, repoch, rlast, rfault, rcache, result, rbefore,
                 rcopy, rleft, rscene, rcert>>

RecheckPathOnly ==  \* mutant: the pidfd is not asked again
  /\ rpc = "writer"
  /\ rpc' = "path"
  /\ UNCHANGED <<rfile, rpidfd, repoch, rlast, rfault, rcache, result, rbefore,
                 rcopy, rleft, rscene, rcert>>
RecheckWriter ==
  /\ rpc = "writer"
  /\ ~Exited(rpidfd)
  /\ rpc' = "path"
  /\ UNCHANGED <<rfile, rpidfd, repoch, rlast, rfault, rcache, result, rbefore,
                 rcopy, rleft, rscene, rcert>>

\* The age of the copy and the end of the prepared scene, at "completed".
LifetimeOver == rcert > rcache.scene.until  \* mutant: no slot timeout
Expired == rcert - rscene.made > SlotTimeout \/ rcert > rcache.scene.until

RecheckFails ==
  /\ \/ rpc = "word" /\ word[rfile] # rbefore
     \/ rpc = "writer" /\ Exited(rpidfd)
     \/ rpc = "path" /\ (path # rfile \/ Expired \/ ~rcache.ok)
  /\ Reject(INVALID, rbefore, TRUE)
  /\ UNCHANGED <<rfile, rpidfd, repoch, rlast, rcache>>

Accept ==
  /\ rpc = "path"
  /\ path = rfile
  /\ ~Expired
  /\ rcache.ok
  /\ result' = [status |-> OK, epoch |-> rfile, note |-> rbefore,
                scene |-> rcache.scene, at |-> rcert]
  /\ Leave
  /\ UNCHANGED <<rfile, rpidfd, repoch, rlast, rfault, rcache>>

-----------------------------------------------------------------------------
(* What the monitor around a reader may do between two calls *)

\* __init__ maps the file at the path, and raises as long as there is none.
Construct ==
  /\ rpc = "new"
  /\ path # 0
  /\ rfile' = path
  /\ rpc' = "ready"
  /\ UNCHANGED <<rpidfd, repoch, rlast, rfault, rcache, result, rbefore, rcopy,
                 rleft, rscene, rcert>>

ResetFault ==
  /\ rpc = "ready"
  /\ rfault
  /\ rfault' = FALSE
  /\ UNCHANGED <<rpc, rfile, rpidfd, repoch, rlast, rcache, result, rbefore,
                 rcopy, rleft, rscene, rcert>>

AcceptEpochOnly(e) ==  \* mutant: the old epoch's scene stays visible
  /\ rpc = "ready"
  /\ e <= born
  /\ repoch' = e
  /\ rlast' = -1
  /\ rcache' = NoCache
  /\ rfault' = FALSE
  /\ UNCHANGED <<rpc, rfile, rpidfd, result, rbefore, rcopy, rleft, rscene,
                 rcert>>
AcceptEpoch(e) ==
  /\ rpc = "ready"
  /\ e <= born
  /\ repoch' = e
  /\ rlast' = -1
  /\ rcache' = NoCache
  /\ rfault' = FALSE
  /\ result' = Without(PENDING, NoWord)
  /\ UNCHANGED <<rpc, rfile, rpidfd, rbefore, rcopy, rleft, rscene, rcert>>

CloseReader ==
  /\ rpc = "ready"
  /\ rfile # 0
  /\ rfile' = 0
  /\ rpidfd' = "none"
  /\ result' = Without(INVALID, NoWord)
  /\ UNCHANGED <<rpc, repoch, rlast, rfault, rcache, rbefore, rcopy, rleft,
                 rscene, rcert>>

BeginRefresh == Keep \/ Drop

RefreshStep ==
  \/ Open \/ LoadWord
  \/ WatchFails \/ EpochChanged \/ WriterUnhealthy \/ RevisionJump \/ BeginCopy
  \/ \E h \in Halves : CopyHalf(h)
  \/ CopyFails \/ SceneRefused \/ SceneDecoded
  \/ \E ok \in BOOLEAN : Prepare(ok)
  \/ Certify \/ CertifyFails
  \/ RecheckWord \/ RecheckWriter \/ RecheckFails \/ Accept

MonitorStep ==
  \/ Construct
  \/ ResetFault
  \/ \E e \in Epochs : AcceptEpoch(e)
  \/ CloseReader

=============================================================================
