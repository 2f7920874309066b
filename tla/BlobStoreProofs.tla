---------------------------- MODULE BlobStoreProofs ----------------------------
(***************************************************************************)
(* Proofs about BlobStore: no lock is left behind, whatever fails, and     *)
(* without the overlaps that Hazards lists what an ingest was answered     *)
(* with stays stored under every owner that was promised it.               *)
(*                                                                         *)
(* And about Recorder, which fills the store: a signed claim covers the    *)
(* sound of its take, a saved recording has its own sound, a queued upload *)
(* stays until it is stored, and a document loses no blob it lists.        *)
(***************************************************************************)
EXTENDS BlobStore, Recorder, TLAPS

\* Who writes or removes the files of a hash holds its lock.
WorkerHasLock ==
    /\ \A u \in Uploads : up[u].pc = "addref" => lock[up[u].hash] = u
    /\ \A r \in Releases : rel[r].pc # "idle" => lock[rel[r].hash] = r
    /\ gc.pc = "unlink" => lock[gc.hash] = Collector

\* What addRef and releaseRef read under the lock is what is still stored.
ReadIsCurrent ==
    /\ \A u \in Uploads : up[u].pc = "addref" => up[u].read = refs[up[u].hash]
    /\ \A r \in Releases : rel[r].pc = "write" =>
          \A o \in refs[rel[r].hash] \ rel[r].left :
              \A p \in promised : p.hash = rel[r].hash => p.owner # o

\* A release that removes the files of a hash finds nobody to be hurt by it.
ReleaseIsLast ==
    \A r \in Releases :
        /\ rel[r].pc = "unlink" =>
              ~Ingesting(rel[r].hash) /\ \A p \in promised : p.hash # rel[r].hash
        /\ rel[r].pc = "write" =>
              \A u \in Uploads : up[u].pc \in {"stat", "addref"} => up[u].hash # rel[r].hash

\* How far an ingest has come with the files of its hash.
IngestProgress ==
    \A u \in Uploads :
        /\ up[u].pc # "idle" /\ up[u].hash \in object => ctime[up[u].hash] = now
        /\ up[u].pc # "idle" /\ (up[u].pc # "place" \/ up[u].deduped) => up[u].hash \in object
        /\ up[u].pc \in {"ref", "addref"} /\ ~up[u].deduped => up[u].hash \in meta
        /\ up[u].pc \in {"place", "meta"} => ~up[u].deduped
        /\ up[u].pc = "stat" => up[u].owner \in refs[up[u].hash]

\* A promise stands while it is young or kept, and its object is no older.
PromisesStand ==
    \A p \in promised :
        /\ now - p.at < Grace \/ Kept(p.owner, p.hash)
        /\ p.hash \in object \cap meta
        /\ p.owner \in refs[p.hash]
        /\ p.at <= ctime[p.hash] /\ p.at <= now

\* What the collection spares of the owner's documents, as far as it has got.
Spared(o, h) ==
    \/ h \in gc.young
    \/ /\ gc.pc = "recordings"
       /\ IF h \in statements THEN o \in gc.roots \cup gc.recordings
                              ELSE o \in gc.recordings /\ h \in links[o]
    \/ /\ gc.pc \in {"sweep", "remove", "unlink"}
       /\ IF h \in statements THEN o \in gc.roots \cup gc.recordings ELSE h \in gc.live

\* The collection spares what is being ingested and what was promised.
CollectionSpares ==
    gc.pc # "idle" =>
        /\ \A h \in gc.todo :
              /\ Ingesting(h) => h \in gc.young
              /\ \A p \in promised : p.hash = h =>
                    \/ Spared(p.owner, h)
                    \/ gc.pc = "roots" /\ Kept(p.owner, h)
        /\ gc.pc \in {"remove", "unlink"} =>
              /\ gc.hash \notin gc.young
              /\ \A p \in promised : p.hash # gc.hash

Inv ==
    /\ TypeOK /\ LockHasWorker /\ WorkerHasLock
    /\ ReadIsCurrent /\ ReleaseIsLast /\ IngestProgress
    /\ PromisesStand /\ CollectionSpares

-----------------------------------------------------------------------------
LEMMA InitTyped == Init => TypeOK
<1> SUFFICES ASSUME Init PROVE TypeOK
  OBVIOUS
<1> USE BlobAssumption DEF Init
<1>1. gc \in {NoGc} \cup Collections /\ gc.pc \notin {"remove", "unlink"}
  BY DEF NoGc
<1>2. /\ up \in [Uploads -> {NoUpload} \cup UploadRecords]
      /\ rel \in [Releases -> {NoRelease} \cup ReleaseRecords]
  OBVIOUS
<1>3. /\ lock \in [Hashes -> Uploads \cup Releases \cup {Collector, Free}]
      /\ refs \in [Hashes -> SUBSET Owners]
      /\ ctime \in [Hashes -> 0 .. MaxTime]
  OBVIOUS
<1>4. /\ object \subseteq Hashes /\ meta \subseteq Hashes /\ statements \subseteq Hashes
  OBVIOUS
<1>7. now \in 0 .. MaxTime
  OBVIOUS
<1>8. swept \in BOOLEAN
  BY Zenon
<1>6. /\ listed \in [Roots -> SUBSET Recordings]
      /\ links \in [Recordings -> SUBSET Hashes]
  OBVIOUS
<1>5. promised \subseteq [owner : Owners, hash : Hashes, at : 0 .. MaxTime]
  OBVIOUS
<1> QED BY ONLY <1>1, <1>2, <1>3, <1>4, <1>5, <1>6, <1>7, <1>8 DEF TypeOK

LEMMA WorldTyped ==
    ASSUME TypeOK
    PROVE  /\ Tick => TypeOK'
           /\ Relaunch => TypeOK'
           /\ \A r \in Roots, d \in Recordings : ListRecording(r, d) => TypeOK'
           /\ \A d \in Recordings : UnlistRecording(d) => TypeOK'
           /\ \A d \in Recordings, h \in Hashes :
                 LinkBlob(d, h) \/ DropStatement(d, h) => TypeOK'
<1> USE BlobAssumption DEF TypeOK, store, graph, NoUpload, NoRelease, NoGc
<1>1. Tick => TypeOK'
  BY DEF Tick
<1>2. Relaunch => TypeOK'
  <2> SUFFICES ASSUME Relaunch PROVE TypeOK'
    OBVIOUS
  <2>1. gc' \in {NoGc} \cup Collections
    BY DEF Relaunch
  <2>2. gc'.pc \in {"remove", "unlink"} => gc'.hash \in gc'.todo
    BY DEF Relaunch
  <2>3. up' \in [Uploads -> {NoUpload} \cup UploadRecords]
    BY DEF Relaunch
  <2>4. rel' \in [Releases -> {NoRelease} \cup ReleaseRecords]
    BY DEF Relaunch
  <2>5. lock' \in [Hashes -> Uploads \cup Releases \cup {Collector, Free}]
    BY DEF Relaunch
  <2> QED BY <2>1, <2>2, <2>3, <2>4, <2>5 DEF Relaunch
<1>3. \A r \in Roots, d \in Recordings : ListRecording(r, d) => TypeOK'
  BY DEF ListRecording
<1>4. \A d \in Recordings : UnlistRecording(d) => TypeOK'
  BY DEF UnlistRecording
<1>5. \A d \in Recordings, h \in Hashes :
         LinkBlob(d, h) \/ DropStatement(d, h) => TypeOK'
  BY DEF LinkBlob, DropStatement
<1> QED BY <1>1, <1>2, <1>3, <1>4, <1>5

LEMMA UploadTyped ==
    ASSUME TypeOK, NEW u \in Uploads
    PROVE  /\ \A d \in Owners, h \in Hashes : UploadCheck(u, d, h) => TypeOK'
           /\ UploadStep(u) => TypeOK'
           /\ UploadFails(u) => TypeOK'
<1> USE BlobAssumption DEF TypeOK, store, graph
<1>1. ASSUME NEW d \in Owners, NEW h \in Hashes, UploadCheck(u, d, h) PROVE TypeOK'
  <2>1. up' \in [Uploads -> {NoUpload} \cup UploadRecords]
    BY <1>1 DEF UploadCheck, UploadRecords
  <2> QED BY <1>1, <2>1 DEF UploadCheck
<1>2. up[u].pc # "idle" => up[u] \in UploadRecords
  BY DEF NoUpload
<1>3. CASE UploadPlace(u)
  <2>1. up' \in [Uploads -> {NoUpload} \cup UploadRecords]
    BY <1>2, <1>3 DEF UploadPlace, UploadRecords
  <2>2. up[u].hash \in Hashes
    BY <1>2, <1>3 DEF UploadPlace, UploadRecords
  <2> QED BY <1>3, <2>1, <2>2 DEF UploadPlace
<1>4. CASE UploadMeta(u)
  <2>1. up' \in [Uploads -> {NoUpload} \cup UploadRecords]
    BY <1>2, <1>4 DEF UploadMeta, UploadRecords
  <2>2. up[u].hash \in Hashes
    BY <1>2, <1>4 DEF UploadMeta, UploadRecords
  <2> QED BY <1>4, <2>1, <2>2 DEF UploadMeta
<1>5. CASE UploadReadRefs(u)
  <2>1. up[u].hash \in Hashes
    BY <1>2, <1>5 DEF UploadReadRefs, UploadRecords
  <2>2. up' \in [Uploads -> {NoUpload} \cup UploadRecords]
    BY <1>2, <1>5, <2>1 DEF UploadReadRefs, UploadRecords
  <2> QED BY <1>5, <2>1, <2>2 DEF UploadReadRefs
<1>6. CASE UploadAddRef(u)
  <2>1. up[u].hash \in Hashes /\ up[u].owner \in Owners /\ up[u].read \subseteq Owners
    BY <1>2, <1>6 DEF UploadAddRef, UploadRecords
  <2>2. up' \in [Uploads -> {NoUpload} \cup UploadRecords]
    BY <1>2, <1>6, <2>1 DEF UploadAddRef, UploadRecords
  <2>3. promised' \subseteq [owner : Owners, hash : Hashes, at : 0 .. MaxTime]
    BY <1>6, <2>1 DEF UploadAddRef, Answer
  <2> QED BY <1>6, <2>1, <2>2, <2>3 DEF UploadAddRef
<1>7. CASE UploadStat(u)
  <2>1. up[u].hash \in Hashes /\ up[u].owner \in Owners
    BY <1>2, <1>7 DEF UploadStat, UploadRecords
  <2>2. promised' \subseteq [owner : Owners, hash : Hashes, at : 0 .. MaxTime]
    BY <1>7, <2>1 DEF UploadStat, Answer
  <2> QED BY <1>7, <2>1, <2>2 DEF UploadStat
<1>8. CASE UploadFails(u)
  BY <1>8 DEF UploadFails
<1> QED BY <1>1, <1>3, <1>4, <1>5, <1>6, <1>7, <1>8 DEF UploadStep

LEMMA UnlinkTyped ==
    ASSUME TypeOK, NEW h \in Hashes, NEW f \in Files, Unlink(h, f)
    PROVE  /\ object' \subseteq Hashes /\ meta' \subseteq Hashes
           /\ refs' \in [Hashes -> SUBSET Owners]
           /\ ctime' = ctime
BY DEF TypeOK, Unlink

LEMMA ReleaseTyped ==
    ASSUME TypeOK, NEW r \in Releases
    PROVE  /\ \A d \in Owners, h \in Hashes : ReleaseReadRefs(r, d, h) => TypeOK'
           /\ ReleaseStep(r) => TypeOK'
           /\ ReleaseFails(r) => TypeOK'
<1> USE BlobAssumption DEF TypeOK, store, graph
<1>1. ASSUME NEW d \in Owners, NEW h \in Hashes, ReleaseReadRefs(r, d, h) PROVE TypeOK'
  <2>1. rel' \in [Releases -> {NoRelease} \cup ReleaseRecords]
    BY <1>1 DEF ReleaseReadRefs, ReleaseRecords
  <2>2. lock' \in [Hashes -> Uploads \cup Releases \cup {Collector, Free}]
    BY <1>1 DEF ReleaseReadRefs
  <2> QED BY <1>1, <2>1, <2>2 DEF ReleaseReadRefs
<1>2. rel[r].pc # "idle" => rel[r] \in ReleaseRecords
  BY DEF NoRelease
<1>3. CASE ReleaseWrite(r)
  <2>1. rel[r].hash \in Hashes /\ rel[r].left \subseteq Owners
    BY <1>2, <1>3 DEF ReleaseWrite, ReleaseRecords
  <2> QED BY <1>3, <2>1 DEF ReleaseWrite
<1>4. ASSUME NEW f \in Files, ReleaseUnlink(r, f) PROVE TypeOK'
  <2>1. rel[r].hash \in Hashes /\ rel[r].todo \subseteq Files
    BY <1>2, <1>4 DEF ReleaseUnlink, ReleaseRecords
  <2>2. rel' \in [Releases -> {NoRelease} \cup ReleaseRecords]
    BY <1>2, <1>4, <2>1 DEF ReleaseUnlink, ReleaseRecords
  <2>3. lock' \in [Hashes -> Uploads \cup Releases \cup {Collector, Free}]
    BY <1>4, <2>1 DEF ReleaseUnlink
  <2>4. /\ object' \subseteq Hashes /\ meta' \subseteq Hashes
        /\ refs' \in [Hashes -> SUBSET Owners] /\ ctime' = ctime
    BY <1>4, <2>1, UnlinkTyped DEF ReleaseUnlink
  <2> QED BY <1>4, <2>2, <2>3, <2>4 DEF ReleaseUnlink
<1>5. CASE ReleaseFails(r)
  BY <1>5 DEF ReleaseFails
<1> QED BY <1>1, <1>3, <1>4, <1>5 DEF ReleaseStep


LEMMA GcTyped ==
    ASSUME TypeOK
    PROVE  GcList \/ GcAbort \/ GcFails \/ GcStep => TypeOK'
<1> USE BlobAssumption DEF TypeOK, store, graph
<1>1. gc.pc # "idle" => gc \in Collections
  BY DEF NoGc
<1>2. CASE GcList
  <2>1. gc' \in Collections /\ gc'.pc = "roots"
    BY <1>2 DEF GcList, listObjects, Collections
  <2> QED BY <1>2, <2>1 DEF GcList
<1>3. CASE GcAbort \/ GcDone
  <2>1. gc' \in {NoGc} \cup Collections /\ gc'.pc \notin {"remove", "unlink"}
    BY <1>3 DEF GcAbort, GcDone, NoGc
  <2> QED BY <1>3, <2>1 DEF GcAbort, GcDone
<1>4. CASE GcRoots
  <2>1. PICK R \in SUBSET Roots :
            gc' = [gc EXCEPT !.pc = "recordings", !.roots = R,
                             !.recordings = UNION {listed[r] : r \in R}]
    BY <1>4 DEF GcRoots
  <2>2. UNION {listed[r] : r \in R} \subseteq Recordings
    OBVIOUS
  <2>3. gc' \in Collections /\ gc'.pc = "recordings"
    BY <1>1, <1>4, <2>1, <2>2 DEF GcRoots, Collections
  <2> QED BY <1>4, <2>3 DEF GcRoots
<1>5. CASE GcRecordings
  <2>1. gc \in Collections
    BY <1>1, <1>5 DEF GcRecordings
  <2>2. UNION {links[d] : d \in gc.recordings} \subseteq Hashes
    BY <2>1 DEF Collections
  <2>3. gc' \in Collections /\ gc'.pc = "sweep"
    BY <1>5, <2>1, <2>2 DEF GcRecordings, Collections
  <2> QED BY <1>5, <2>3 DEF GcRecordings
<1>6. ASSUME NEW h \in Hashes, GcSkip(h) PROVE TypeOK'
  <2>1. gc' \in Collections /\ gc'.pc = "sweep"
    BY <1>1, <1>6 DEF GcSkip, Collections
  <2> QED BY <1>6, <2>1 DEF GcSkip
<1>7. ASSUME NEW h \in Hashes, GcCondemn(h) PROVE TypeOK'
  <2>1. gc' \in Collections /\ gc'.hash \in gc'.todo
    BY <1>1, <1>7 DEF GcCondemn, Collections
  <2> QED BY <1>7, <2>1 DEF GcCondemn
<1>8. CASE GcLock
  <2>1. gc' \in Collections /\ gc'.hash \in gc'.todo /\ gc.hash \in Hashes
    BY <1>1, <1>8 DEF GcLock, Collections
  <2> QED BY <1>8, <2>1 DEF GcLock
<1>9. ASSUME NEW f \in Files, GcUnlink(f) PROVE TypeOK'
  <2>1. gc.hash \in gc.todo /\ gc.todo \subseteq Hashes
    BY <1>1, <1>9 DEF GcUnlink, Collections
  <2>2. /\ object' \subseteq Hashes /\ meta' \subseteq Hashes
        /\ refs' \in [Hashes -> SUBSET Owners] /\ ctime' = ctime
    BY <1>9, <2>1, UnlinkTyped DEF GcUnlink
  <2>3. CASE gc.files = {f}
    <3>2. gc \in Collections
      BY <1>1, <1>9 DEF GcUnlink
    <3>3. gc' = [gc EXCEPT !.pc = "sweep", !.todo = @ \ {gc.hash}, !.files = {}]
      BY <1>9, <2>3 DEF GcUnlink
    <3>1. gc' \in Collections /\ gc'.pc = "sweep"
      BY ONLY <3>2, <3>3 DEF Collections
    <3> QED BY <1>9, <2>1, <2>2, <3>1, <2>3 DEF GcUnlink
  <2>4. CASE gc.files # {f}
    <3>1. gc' \in Collections /\ gc'.hash \in gc'.todo
      BY <1>1, <1>9, <2>1, <2>4 DEF GcUnlink, Collections
    <3> QED BY <1>9, <2>1, <2>2, <3>1, <2>4 DEF GcUnlink
  <2> QED BY <2>3, <2>4
<1>10. CASE GcFails
  <2>1. gc.hash \in Hashes
    BY <1>1, <1>10 DEF GcFails, Collections
  <2>2. gc' \in {NoGc} \cup Collections /\ gc'.pc \notin {"remove", "unlink"}
    BY <1>10 DEF GcFails, NoGc
  <2>3. lock' \in [Hashes -> Uploads \cup Releases \cup {Collector, Free}]
    BY <1>10, <2>1 DEF GcFails
  <2> QED BY <1>10, <2>2, <2>3 DEF GcFails
<1> QED BY <1>2, <1>3, <1>4, <1>5, <1>6, <1>7, <1>8, <1>9, <1>10 DEF GcStep

LEMMA StepTyped == TypeOK /\ [Next]_vars => TypeOK'
<1> SUFFICES ASSUME TypeOK, [Next]_vars PROVE TypeOK'
  OBVIOUS
<1>1. CASE UNCHANGED vars
  BY <1>1 DEF TypeOK, vars, store, graph
<1> QED BY <1>1, WorldTyped, UploadTyped, ReleaseTyped, GcTyped DEF Next

(***************************************************************************)
(* The state of the store, of its locks and of everybody at work on it     *)
(* keeps its type, whichever overlaps and failures are allowed.            *)
(***************************************************************************)
THEOREM TypeCorrect == Spec => []TypeOK
<1> QED BY InitTyped, StepTyped, PTL DEF Spec


-----------------------------------------------------------------------------
LockInv == TypeOK /\ LockHasWorker /\ WorkerHasLock

\* Nothing changes for the locks while the same hands are at work.
LEMMA SameHands ==
    ASSUME LockInv, lock' = lock, rel' = rel,
           \A u \in Uploads : (up[u].pc = "addref" \/ up'[u].pc = "addref") => up'[u] = up[u],
           gc.pc = "unlink" \/ gc'.pc = "unlink" =>
               gc'.pc = gc.pc /\ gc'.hash = gc.hash
    PROVE  LockHasWorker' /\ WorkerHasLock'
<1>1. LockHasWorker'
  BY DEF LockInv, LockHasWorker
<1>2. WorkerHasLock'
  BY DEF LockInv, WorkerHasLock
<1> QED BY <1>1, <1>2

LEMMA UploadLocks ==
    ASSUME LockInv, NEW u \in Uploads,
           UploadStep(u) \/ UploadFails(u) \/ \E d \in Owners, h \in Hashes : UploadCheck(u, d, h)
    PROVE  LockHasWorker' /\ WorkerHasLock'
<1> USE DEF LockInv, TypeOK
<1>1. up[u].pc # "idle" => up[u] \in UploadRecords /\ up[u].hash \in Hashes
  BY DEF NoUpload, UploadRecords
<1>2. CASE \E d \in Owners, h \in Hashes : UploadCheck(u, d, h)
  <2>1. \A v \in Uploads : (up[v].pc = "addref" \/ up'[v].pc = "addref") => up'[v] = up[v]
    BY <1>2 DEF UploadCheck
  <2> QED BY <1>2, <2>1, SameHands DEF UploadCheck
<1>3. CASE UploadPlace(u) \/ UploadMeta(u) \/ UploadStat(u)
  <2>1. \A v \in Uploads : (up[v].pc = "addref" \/ up'[v].pc = "addref") => up'[v] = up[v]
    BY <1>1, <1>3 DEF UploadPlace, UploadMeta, UploadStat, UploadRecords, NoUpload
  <2> QED BY <1>3, <2>1, SameHands DEF UploadPlace, UploadMeta, UploadStat
<1>4. CASE UploadReadRefs(u)
  <2> DEFINE h == up[u].hash
  <2>1. h \in Hashes /\ up[u] \in UploadRecords /\ lock[h] = Free
        /\ lock' = [lock EXCEPT ![h] = u] /\ rel' = rel /\ gc' = gc
    BY <1>1, <1>4 DEF UploadReadRefs
  <2>2. up'[u].pc = "addref" /\ up'[u].hash = h /\ \A v \in Uploads \ {u} : up'[v] = up[v]
    BY <1>4, <2>1 DEF UploadReadRefs, UploadRecords
  <2>3. u # Free /\ u \notin Releases /\ u # Collector
    BY HolderAssumption
  <2>4. LockHasWorker'
    BY <2>1, <2>2, <2>3 DEF LockHasWorker
  <2>5. WorkerHasLock'
    <3>1. \A v \in Uploads : up'[v].pc = "addref" => lock'[up'[v].hash] = v
      BY <2>1, <2>2, <2>3, HolderAssumption DEF WorkerHasLock
    <3>2. \A r \in Releases : rel[r].pc # "idle" => lock'[rel[r].hash] = r
      BY <2>1, <2>3, HolderAssumption DEF WorkerHasLock
    <3>3. gc.pc = "unlink" => lock'[gc.hash] = Collector
      BY <2>1, <2>3, HolderAssumption DEF WorkerHasLock
    <3> QED BY <2>1, <3>1, <3>2, <3>3 DEF WorkerHasLock
  <2> QED BY <2>4, <2>5
<1>5. CASE UploadAddRef(u)
  <2> DEFINE h == up[u].hash
  <2>1. h \in Hashes /\ up[u] \in UploadRecords /\ lock[h] = u
        /\ lock' = [lock EXCEPT ![h] = Free] /\ rel' = rel /\ gc' = gc
    BY <1>1, <1>5 DEF UploadAddRef, WorkerHasLock
  <2>2. up'[u].pc # "addref" /\ \A v \in Uploads \ {u} : up'[v] = up[v]
    BY <1>5, <2>1 DEF UploadAddRef, UploadRecords, NoUpload
  <2>3. u # Free /\ u \notin Releases /\ u # Collector
    BY HolderAssumption
  <2>4. LockHasWorker'
    BY <2>1, <2>2, <2>3, HolderAssumption DEF LockHasWorker
  <2>5. WorkerHasLock'
    <3>1. \A v \in Uploads : up'[v].pc = "addref" => lock'[up'[v].hash] = v
      BY <2>1, <2>2, <2>3 DEF WorkerHasLock
    <3>2. \A r \in Releases : rel[r].pc # "idle" => lock'[rel[r].hash] = r
      BY <2>1, <2>3 DEF WorkerHasLock
    <3>3. gc.pc = "unlink" => lock'[gc.hash] = Collector
      BY <2>1, <2>3 DEF WorkerHasLock
    <3> QED BY <2>1, <3>1, <3>2, <3>3 DEF WorkerHasLock
  <2> QED BY <2>4, <2>5
<1>6. CASE UploadFails(u)
  <2>1. lock' = [h \in Hashes |-> IF lock[h] = u THEN Free ELSE lock[h]] /\ rel' = rel /\ gc' = gc
    BY <1>6 DEF UploadFails
  <2>2. up'[u].pc # "addref" /\ \A v \in Uploads \ {u} : up'[v] = up[v]
    BY <1>6 DEF UploadFails, NoUpload
  <2>3. u # Free /\ u \notin Releases /\ u # Collector
    BY HolderAssumption
  <2>4. LockHasWorker'
    BY <2>1, <2>2, <2>3 DEF LockHasWorker
  <2>5. WorkerHasLock'
    <3>1. \A v \in Uploads : up'[v].pc = "addref" => lock'[up'[v].hash] = v
      BY <2>1, <2>2 DEF WorkerHasLock, UploadRecords, NoUpload
    <3>2. \A r \in Releases : rel[r].pc # "idle" => lock'[rel[r].hash] = r
      BY <2>1, <2>3 DEF WorkerHasLock, ReleaseRecords, NoRelease
    <3>3. gc.pc = "unlink" => lock'[gc.hash] = Collector
      BY <2>1, <2>3 DEF WorkerHasLock, Collections, NoGc
    <3> QED BY <2>1, <3>1, <3>2, <3>3 DEF WorkerHasLock
  <2> QED BY <2>4, <2>5
<1> QED BY <1>2, <1>3, <1>4, <1>5, <1>6 DEF UploadStep

\* A lock that was taken by, or given back by, release r.
LEMMA ReleaseHands ==
    ASSUME LockInv, NEW r \in Releases, NEW h \in Hashes, up' = up, gc' = gc,
           \A q \in Releases \ {r} : rel'[q] = rel[q],
           \/ /\ lock[h] = Free /\ lock' = [lock EXCEPT ![h] = r]
              /\ rel[r].pc = "idle" /\ rel'[r].pc \in {"write", "unlink"} /\ rel'[r].hash = h
           \/ /\ lock[h] = r /\ lock' = [lock EXCEPT ![h] = Free]
              /\ rel[r].hash = h /\ rel'[r].pc = "idle"
    PROVE  LockHasWorker' /\ WorkerHasLock'
<1> USE DEF LockInv, TypeOK
<1>1. r # Free /\ r \notin Uploads /\ r # Collector /\ Collector # Free /\ Free \notin Uploads
  BY HolderAssumption
<1>2. LockHasWorker'
  BY <1>1 DEF LockHasWorker
<1>3. \A v \in Uploads : up[v].pc = "addref" => lock'[up[v].hash] = v
  BY <1>1 DEF WorkerHasLock, UploadRecords, NoUpload
<1>4. \A q \in Releases : rel'[q].pc # "idle" => lock'[rel'[q].hash] = q
  <2> SUFFICES ASSUME NEW q \in Releases, rel'[q].pc # "idle" PROVE lock'[rel'[q].hash] = q
    OBVIOUS
  <2>1. CASE q = r
    BY <1>1, <2>1
  <2>2. CASE q # r
    <3>1. rel[q].pc # "idle" /\ rel'[q].hash = rel[q].hash /\ rel[q] \in ReleaseRecords
      BY <2>2 DEF NoRelease
    <3>2. lock[rel[q].hash] = q /\ rel[q].hash \in Hashes /\ q # Free
      BY <3>1, HolderAssumption DEF WorkerHasLock, ReleaseRecords
    <3> QED BY <3>1, <3>2, <2>2
  <2> QED BY <2>1, <2>2
<1>5. gc.pc = "unlink" => lock'[gc.hash] = Collector
  BY <1>1 DEF WorkerHasLock, Collections, NoGc
<1> QED BY <1>2, <1>3, <1>4, <1>5 DEF WorkerHasLock

LEMMA ReleaseLocks ==
    ASSUME LockInv, NEW r \in Releases,
           ReleaseStep(r) \/ ReleaseFails(r) \/ \E d \in Owners, h \in Hashes : ReleaseReadRefs(r, d, h)
    PROVE  LockHasWorker' /\ WorkerHasLock'
<1> USE DEF LockInv
<1>1. rel[r].pc # "idle" => /\ rel[r] \in ReleaseRecords /\ rel[r].hash \in Hashes
                            /\ lock[rel[r].hash] = r
  BY DEF TypeOK, NoRelease, ReleaseRecords, WorkerHasLock
<1>2. ASSUME NEW d \in Owners, NEW h \in Hashes, ReleaseReadRefs(r, d, h)
      PROVE  LockHasWorker' /\ WorkerHasLock'
  <2>1. CASE UNCHANGED <<rel, lock>>
    BY <1>2, <2>1, SameHands DEF ReleaseReadRefs
  <2>2. CASE ~UNCHANGED <<rel, lock>>
    <3>1. /\ lock[h] = Free /\ lock' = [lock EXCEPT ![h] = r]
          /\ rel[r].pc = "idle" /\ rel'[r].pc \in {"write", "unlink"} /\ rel'[r].hash = h
          /\ \A q \in Releases \ {r} : rel'[q] = rel[q]
          /\ up' = up /\ gc' = gc
      BY <1>2, <2>2 DEF ReleaseReadRefs, TypeOK
    <3> QED BY <3>1, ReleaseHands
  <2> QED BY <2>1, <2>2
<1>3. CASE ReleaseWrite(r)
  <2>1. /\ lock[rel[r].hash] = r /\ lock' = [lock EXCEPT ![rel[r].hash] = Free]
        /\ rel'[r].pc = "idle" /\ \A q \in Releases \ {r} : rel'[q] = rel[q]
        /\ up' = up /\ gc' = gc /\ rel[r].hash \in Hashes
    BY <1>1, <1>3 DEF ReleaseWrite, TypeOK, NoRelease
  <2> QED BY <2>1, ReleaseHands
<1>4. ASSUME NEW f \in Files, ReleaseUnlink(r, f)
      PROVE  LockHasWorker' /\ WorkerHasLock'
  <2>1. CASE rel[r].todo = {f}
    <3>1. /\ lock[rel[r].hash] = r /\ lock' = [lock EXCEPT ![rel[r].hash] = Free]
          /\ rel'[r].pc = "idle" /\ \A q \in Releases \ {r} : rel'[q] = rel[q]
          /\ up' = up /\ gc' = gc /\ rel[r].hash \in Hashes
      BY <1>1, <1>4, <2>1 DEF ReleaseUnlink, TypeOK, NoRelease
    <3> QED BY <3>1, ReleaseHands
  <2>2. CASE rel[r].todo # {f}
    <3>1. /\ lock' = lock /\ up' = up /\ gc' = gc
          /\ \A q \in Releases : rel'[q].pc = rel[q].pc
          /\ \A q \in Releases : rel[q].pc # "idle" => rel'[q].hash = rel[q].hash
      BY <1>1, <1>4, <2>2 DEF ReleaseUnlink, TypeOK, ReleaseRecords
    <3>2. LockHasWorker'
      BY <3>1 DEF LockHasWorker
    <3>3. WorkerHasLock'
      BY <3>1 DEF WorkerHasLock
    <3> QED BY <3>2, <3>3
  <2> QED BY <2>1, <2>2
<1>5. CASE ReleaseFails(r)
  <2>1. \A h \in Hashes : lock[h] = r => h = rel[r].hash
    BY HolderAssumption DEF LockHasWorker
  <2>2. lock' = [lock EXCEPT ![rel[r].hash] = Free]
    BY <1>1, <1>5, <2>1 DEF ReleaseFails, TypeOK
  <2>3. /\ rel'[r].pc = "idle" /\ \A q \in Releases \ {r} : rel'[q] = rel[q]
        /\ up' = up /\ gc' = gc /\ rel[r].hash \in Hashes /\ lock[rel[r].hash] = r
    BY <1>1, <1>5 DEF ReleaseFails, TypeOK, NoRelease
  <2> QED BY <2>2, <2>3, ReleaseHands
<1> QED BY <1>2, <1>3, <1>4, <1>5 DEF ReleaseStep

LEMMA GcLocks ==
    ASSUME LockInv, GcList \/ GcAbort \/ GcFails \/ GcStep
    PROVE  LockHasWorker' /\ WorkerHasLock'
<1> USE DEF LockInv
<1>1. gc.pc # "idle" => gc \in Collections
  BY DEF TypeOK, NoGc
<1>2. gc.pc \in {"remove", "unlink"} => gc.hash \in Hashes
  BY <1>1 DEF TypeOK, Collections
<1>3. CASE GcList \/ GcAbort \/ GcRoots \/ GcRecordings \/ GcDone
  <2>1. gc.pc # "unlink"
    BY <1>3 DEF GcList, GcAbort, GcRoots, GcRecordings, GcDone
  <2>2. CASE GcList \/ GcAbort \/ GcDone
    <3>1. gc'.pc # "unlink"
      BY <2>2 DEF GcList, GcAbort, GcDone, NoGc
    <3> QED BY <2>1, <2>2, <3>1, SameHands DEF GcList, GcAbort, GcDone
  <2>3. CASE GcRoots
    <3>1. gc \in Collections
      BY <1>1, <2>3 DEF GcRoots
    <3>2. PICK R \in SUBSET Roots :
              gc' = [gc EXCEPT !.pc = "recordings", !.roots = R,
                               !.recordings = UNION {listed[r] : r \in R}]
      BY <2>3 DEF GcRoots
    <3>3. gc'.pc = "recordings"
      BY ONLY <3>1, <3>2 DEF Collections
    <3> QED BY <2>1, <2>3, <3>3, SameHands DEF GcRoots
  <2>4. CASE GcRecordings
    <3>1. gc \in Collections
      BY <1>1, <2>4 DEF GcRecordings
    <3>2. gc'.pc = "sweep"
      BY <2>4, <3>1 DEF GcRecordings, Collections
    <3> QED BY <2>1, <2>4, <3>2, SameHands DEF GcRecordings
  <2> QED BY <1>3, <2>2, <2>3, <2>4
<1>4. ASSUME NEW h \in Hashes, GcSkip(h) \/ GcCondemn(h)
      PROVE  LockHasWorker' /\ WorkerHasLock'
  <2>1. gc.pc # "unlink" /\ gc'.pc # "unlink"
    BY <1>1, <1>4 DEF GcSkip, GcCondemn, Collections
  <2> QED BY <1>4, <2>1, SameHands DEF GcSkip, GcCondemn
<1>5. CASE GcLock
  <2>1. /\ lock[gc.hash] = Free /\ lock' = [lock EXCEPT ![gc.hash] = Collector]
        /\ up' = up /\ rel' = rel /\ gc.hash \in Hashes /\ gc.pc # "unlink"
        /\ gc'.pc = "unlink" /\ gc'.hash = gc.hash
    BY <1>1, <1>2, <1>5 DEF GcLock, Collections
  <2>2. LockHasWorker'
    BY <2>1, HolderAssumption DEF LockHasWorker, TypeOK
  <2>3. \A v \in Uploads : up[v].pc = "addref" => lock'[up[v].hash] = v
    BY <2>1, HolderAssumption DEF WorkerHasLock, TypeOK, UploadRecords, NoUpload
  <2>4. \A q \in Releases : rel[q].pc # "idle" => lock'[rel[q].hash] = q
    BY <2>1, HolderAssumption DEF WorkerHasLock, TypeOK, ReleaseRecords, NoRelease
  <2>5. lock'[gc'.hash] = Collector
    BY <2>1 DEF TypeOK
  <2> QED BY <2>1, <2>2, <2>3, <2>4, <2>5 DEF WorkerHasLock
<1>6. ASSUME GcFails \/ \E f \in Files : GcUnlink(f) /\ gc.files = {f}
      PROVE  LockHasWorker' /\ WorkerHasLock'
  <2>0. gc \in Collections /\ gc.pc = "unlink"
    BY <1>1, <1>6 DEF GcUnlink, GcFails
  <2>5. gc'.pc # "unlink"
    <3>1. CASE GcFails
      BY <3>1 DEF GcFails, NoGc
    <3>2. ASSUME NEW f \in Files, GcUnlink(f), gc.files = {f} PROVE gc'.pc # "unlink"
      <4>1. gc' = [gc EXCEPT !.pc = "sweep", !.todo = @ \ {gc.hash}, !.files = {}]
        BY <3>2 DEF GcUnlink
      <4> QED BY ONLY <2>0, <4>1 DEF Collections
    <3> QED BY <1>6, <3>1, <3>2
  <2>1. /\ lock[gc.hash] = Collector /\ lock' = [lock EXCEPT ![gc.hash] = Free]
        /\ up' = up /\ rel' = rel /\ gc.hash \in Hashes /\ gc.pc = "unlink"
        /\ gc'.pc # "unlink"
    BY <2>0, <2>5, <1>2, <1>6 DEF GcUnlink, GcFails, WorkerHasLock
  <2>2. LockHasWorker'
    BY <2>1, HolderAssumption DEF LockHasWorker, TypeOK
  <2>3. \A v \in Uploads : up[v].pc = "addref" => lock'[up[v].hash] = v
    BY <2>1, HolderAssumption DEF WorkerHasLock, TypeOK, UploadRecords, NoUpload
  <2>4. \A q \in Releases : rel[q].pc # "idle" => lock'[rel[q].hash] = q
    BY <2>1, HolderAssumption DEF WorkerHasLock, TypeOK, ReleaseRecords, NoRelease
  <2> QED BY <2>1, <2>2, <2>3, <2>4 DEF WorkerHasLock
<1>7. ASSUME NEW f \in Files, GcUnlink(f), gc.files # {f}
      PROVE  LockHasWorker' /\ WorkerHasLock'
  <2>1. gc.pc = "unlink" /\ gc'.pc = gc.pc /\ gc'.hash = gc.hash
    BY <1>1, <1>7 DEF GcUnlink, Collections
  <2> QED BY <1>7, <2>1, SameHands DEF GcUnlink
<1> QED BY <1>3, <1>4, <1>5, <1>6, <1>7 DEF GcStep

LEMMA StepLocks ==
    ASSUME LockInv, [Next]_vars
    PROVE  LockHasWorker' /\ WorkerHasLock'
<1>1. CASE UNCHANGED vars
  BY <1>1, SameHands DEF vars
<1>2. CASE Tick
  BY <1>2, SameHands DEF Tick
<1>3. CASE Relaunch
  <2>1. LockHasWorker'
    BY <1>3 DEF Relaunch, LockHasWorker
  <2>2. WorkerHasLock'
    BY <1>3 DEF Relaunch, WorkerHasLock, NoUpload, NoRelease, NoGc
  <2> QED BY <2>1, <2>2
<1>4. ASSUME \/ \E r \in Roots, d \in Recordings : ListRecording(r, d)
             \/ \E d \in Recordings : UnlistRecording(d)
             \/ \E d \in Recordings, h \in Hashes : LinkBlob(d, h) \/ DropStatement(d, h)
      PROVE  LockHasWorker' /\ WorkerHasLock'
  BY <1>4, SameHands DEF ListRecording, UnlistRecording, LinkBlob, DropStatement
<1> QED BY <1>1, <1>2, <1>3, <1>4, UploadLocks, ReleaseLocks, GcLocks DEF Next

(***************************************************************************)
(* No lock is left behind (withLock in blobStore.ts): after any I/O error, *)
(* crash or overlap, who holds the lock of a hash is at work on that hash. *)
(***************************************************************************)
THEOREM LocksAreHeldByWorkers == Spec => []LockHasWorker
<1>1. Init => LockInv
  <2>1. Init => LockHasWorker
    BY DEF Init, LockHasWorker
  <2>2. Init => WorkerHasLock
    BY DEF Init, WorkerHasLock, NoUpload, NoRelease, NoGc
  <2> QED BY <2>1, <2>2, InitTyped DEF LockInv
<1>2. LockInv /\ [Next]_vars => LockInv'
  BY StepTyped, StepLocks DEF LockInv
<1>3. LockInv => LockHasWorker
  BY DEF LockInv
<1> QED BY <1>1, <1>2, <1>3, PTL DEF Spec

-----------------------------------------------------------------------------
Safe == ReadIsCurrent /\ ReleaseIsLast /\ IngestProgress /\ PromisesStand /\ CollectionSpares

\* The clock only moves while nothing is being ingested.
LEMMA TickSafe ==
    ASSUME Inv, Tick
    PROVE  Safe'
<1> USE DEF Inv, Tick, store, graph
<1>1. ReadIsCurrent'
  BY DEF ReadIsCurrent
<1>2. ReleaseIsLast'
  BY DEF ReleaseIsLast, Ingesting
<1>3. IngestProgress'
  BY DEF IngestProgress
<1>4. PromisesStand'
  <2>1. \A p \in promised : p.at \in Nat /\ now \in Nat
    BY BlobAssumption DEF TypeOK
  <2> QED BY <2>1 DEF PromisesStand, Kept, InSomeRoot
<1>5. CollectionSpares'
  BY DEF CollectionSpares, Spared, Kept, InSomeRoot, Ingesting
<1> QED BY <1>1, <1>2, <1>3, <1>4, <1>5 DEF Safe

\* What the documents name of an owner is lost to no promise of that owner.
LEMMA DocumentsSafe ==
    ASSUME Inv,
           \/ \E r \in Roots, d \in Recordings : ListRecording(r, d)
           \/ \E d \in Recordings : UnlistRecording(d)
           \/ \E d \in Recordings, h \in Hashes : LinkBlob(d, h) \/ DropStatement(d, h)
    PROVE  Safe'
<1> USE DEF Inv
<1>1. /\ UNCHANGED <<store, lock, up, rel, gc, statements, now>>
      /\ promised' \subseteq promised
  BY DEF ListRecording, UnlistRecording, LinkBlob, DropStatement
<1>2. \A p \in promised' : Kept(p.owner, p.hash) => Kept(p.owner, p.hash)'
  <2>1. ASSUME NEW r \in Roots, NEW d \in Recordings, ListRecording(r, d)
        PROVE  \A p \in promised' : Kept(p.owner, p.hash) => Kept(p.owner, p.hash)'
    BY <2>1 DEF ListRecording, Kept, InSomeRoot, TypeOK
  <2>2. ASSUME NEW d \in Recordings, UnlistRecording(d)
        PROVE  \A p \in promised' : Kept(p.owner, p.hash) => Kept(p.owner, p.hash)'
    BY <2>2 DEF UnlistRecording, Kept, InSomeRoot, TypeOK
  <2>3. ASSUME NEW d \in Recordings, NEW h \in Hashes, LinkBlob(d, h) \/ DropStatement(d, h)
        PROVE  \A p \in promised' : Kept(p.owner, p.hash) => Kept(p.owner, p.hash)'
    BY <2>3 DEF LinkBlob, DropStatement, Kept, InSomeRoot, TypeOK
  <2> QED BY <2>1, <2>2, <2>3
<1>3. \A d \in Recordings : links[d] \ statements \subseteq links'[d]
  BY DEF ListRecording, UnlistRecording, LinkBlob, DropStatement, TypeOK
<1>4. gc.pc = "recordings" => gc.recordings \subseteq Recordings
  BY DEF TypeOK, Collections, NoGc
<1>5. ReadIsCurrent'
  BY <1>1 DEF ReadIsCurrent, store
<1>6. ReleaseIsLast'
  BY <1>1 DEF ReleaseIsLast, Ingesting
<1>7. IngestProgress'
  BY <1>1 DEF IngestProgress, store
<1>8. PromisesStand'
  BY <1>1, <1>2 DEF PromisesStand, store
<1>9. CollectionSpares'
  BY <1>1, <1>2, <1>3, <1>4 DEF CollectionSpares, Spared, Ingesting
<1> QED BY <1>5, <1>6, <1>7, <1>8, <1>9 DEF Safe

LEMMA RelaunchSafe ==
    ASSUME Inv, Relaunch
    PROVE  Safe'
<1> USE DEF Inv, Relaunch, store, graph
<1>1. /\ \A u \in Uploads : up'[u].pc = "idle"
      /\ \A r \in Releases : rel'[r].pc = "idle"
      /\ gc'.pc = "idle"
  BY DEF NoUpload, NoRelease, NoGc
<1>2. ReadIsCurrent' /\ ReleaseIsLast' /\ IngestProgress' /\ CollectionSpares'
  BY <1>1 DEF ReadIsCurrent, ReleaseIsLast, IngestProgress, CollectionSpares
<1>3. PromisesStand'
  BY DEF PromisesStand, Kept, InSomeRoot
<1> QED BY <1>2, <1>3 DEF Safe

-----------------------------------------------------------------------------
\* An ingest that starts meets no release and no collection of its hash.
LEMMA UploadCheckSafe ==
    ASSUME Inv, Hazards = {}, NEW u \in Uploads, NEW d \in Owners, NEW h \in Hashes,
           UploadCheck(u, d, h)
    PROVE  Safe'
<1> USE DEF Inv
<1>1. /\ up[u].pc = "idle" /\ ~Releasing(h) /\ ~Collecting(h) /\ (h \in object => ctime[h] = now)
      /\ up' = [up EXCEPT ![u] = [pc |-> IF h \in object THEN "ref" ELSE "place",
                                  owner |-> d, hash |-> h,
                                  deduped |-> h \in object, read |-> {}]]
      /\ UNCHANGED <<store, lock, rel, gc, swept, graph, now, promised>>
  BY DEF UploadCheck
<1>2. /\ up'[u] = [pc |-> IF h \in object THEN "ref" ELSE "place", owner |-> d, hash |-> h,
                   deduped |-> h \in object, read |-> {}]
      /\ \A v \in Uploads \ {u} : up'[v] = up[v]
  BY <1>1 DEF TypeOK
<1>3. \A g : Ingesting(g)' => Ingesting(g) \/ g = h
  BY <1>2 DEF Ingesting
<1>4. ReadIsCurrent'
  BY <1>1, <1>2 DEF ReadIsCurrent, store
<1>5. ReleaseIsLast'
  BY <1>1, <1>2, <1>3 DEF ReleaseIsLast, Releasing
<1>6. IngestProgress'
  <2>1. object' = object /\ meta' = meta /\ refs' = refs /\ ctime' = ctime /\ now' = now
    BY <1>1 DEF store
  <2>2. up'[u].pc \in {"ref", "place"} /\ up'[u].hash = h /\ (up'[u].deduped <=> h \in object)
        /\ (up'[u].pc = "ref" <=> h \in object)
    <3>1. up'[u].hash = h /\ up'[u].pc = IF h \in object THEN "ref" ELSE "place"
      BY <1>2
    <3>2. up'[u].deduped <=> h \in object
      <4>1. ASSUME NEW pc, NEW b, NEW x, up'[u] = [pc |-> pc, owner |-> d, hash |-> h, deduped |-> b, read |-> x]
            PROVE  up'[u].deduped = b
        BY ONLY <4>1
      <4>2. up'[u].deduped = (h \in object)
        BY ONLY <1>2, <4>1, Zenon
      <4> QED BY <4>2, Zenon
    <3> QED BY <3>1, <3>2
  <2> QED BY <1>1, <1>2, <2>1, <2>2 DEF IngestProgress
<1>7. PromisesStand'
  BY <1>1 DEF PromisesStand, Kept, InSomeRoot, store, graph
<1>8. CollectionSpares'
  BY <1>1, <1>3 DEF CollectionSpares, Collecting, Spared, Kept, InSomeRoot, store, graph
<1> QED BY <1>4, <1>5, <1>6, <1>7, <1>8 DEF Safe

LEMMA UploadFilesSafe ==
    ASSUME Inv, NEW u \in Uploads, UploadPlace(u) \/ UploadMeta(u)
    PROVE  Safe'
<1> USE DEF Inv
<1> DEFINE h == up[u].hash
<1>1. up[u] \in UploadRecords /\ up[u].pc \in {"place", "meta"} /\ h \in Hashes /\ Ingesting(h)
  BY DEF UploadPlace, UploadMeta, TypeOK, NoUpload, UploadRecords, Ingesting
<1>2. /\ up'[u].pc = IF up[u].pc = "place" THEN "meta" ELSE "ref"
      /\ up'[u].hash = h /\ up'[u].deduped = up[u].deduped
      /\ \A v \in Uploads \ {u} : up'[v] = up[v]
  BY <1>1 DEF UploadPlace, UploadMeta, TypeOK, UploadRecords
<1>3. /\ UNCHANGED <<refs, lock, rel, gc, swept, graph, now, promised>>
      /\ object \subseteq object' /\ meta \subseteq meta'
      /\ h \in object' /\ (up[u].pc = "meta" => h \in meta')
  BY <1>1 DEF UploadPlace, UploadMeta, IngestProgress
<1>4. \A g \in Hashes : g # h => (g \in object' <=> g \in object) /\ ctime'[g] = ctime[g]
  BY <1>1 DEF UploadPlace, UploadMeta, TypeOK
<1>5. ctime'[h] = now
  BY <1>1 DEF UploadPlace, UploadMeta, TypeOK, IngestProgress
<1>6. \A g : Ingesting(g)' <=> Ingesting(g)
  BY <1>1, <1>2 DEF Ingesting
<1>7. \A v \in Uploads : up[v].pc # "idle" => up[v].hash \in Hashes
  BY DEF TypeOK, NoUpload, UploadRecords
<1>8. \A p \in promised : p.hash \in Hashes /\ p.at \in Nat /\ now \in Nat
  BY BlobAssumption DEF TypeOK
<1>9. ReadIsCurrent'
  BY <1>1, <1>2, <1>3 DEF ReadIsCurrent
<1>10. ReleaseIsLast'
  BY <1>1, <1>2, <1>3, <1>6 DEF ReleaseIsLast
<1>11. IngestProgress'
  <2> SUFFICES ASSUME NEW v \in Uploads, up'[v].pc # "idle"
               PROVE  /\ up'[v].hash \in object' => ctime'[up'[v].hash] = now
                      /\ up'[v].pc # "place" \/ up'[v].deduped => up'[v].hash \in object'
                      /\ up'[v].pc \in {"ref", "addref"} /\ ~up'[v].deduped => up'[v].hash \in meta'
                      /\ up'[v].pc \in {"place", "meta"} => ~up'[v].deduped
                      /\ up'[v].pc = "stat" => up'[v].owner \in refs[up'[v].hash]
    BY <1>3 DEF IngestProgress
  <2>1. CASE v = u
    BY <1>1, <1>2, <1>3, <1>5, <2>1 DEF IngestProgress
  <2>2. CASE v # u
    BY <1>2, <1>3, <1>4, <1>5, <1>7, <2>2 DEF IngestProgress
  <2> QED BY <2>1, <2>2
<1>12. PromisesStand'
  BY <1>3, <1>4, <1>5, <1>8 DEF PromisesStand, Kept, InSomeRoot, graph
<1>13. CollectionSpares'
  BY <1>3, <1>6 DEF CollectionSpares, Spared, Kept, InSomeRoot, graph
<1> QED BY <1>9, <1>10, <1>11, <1>12, <1>13 DEF Safe

LEMMA UploadReadRefsSafe ==
    ASSUME Inv, NEW u \in Uploads, UploadReadRefs(u)
    PROVE  Safe'
<1> USE DEF Inv
<1> DEFINE h == up[u].hash
<1>1. up[u] \in UploadRecords /\ up[u].pc = "ref" /\ h \in Hashes /\ lock[h] = Free
      /\ UNCHANGED <<store, rel, gc, swept, graph, now, promised>>
  BY DEF UploadReadRefs, TypeOK, NoUpload, UploadRecords
<1>2. /\ up'[u].pc = "addref" /\ up'[u].read = refs[h]
      /\ up'[u].hash = h /\ up'[u].deduped = up[u].deduped /\ up'[u].owner = up[u].owner
      /\ \A v \in Uploads \ {u} : up'[v] = up[v]
  BY <1>1 DEF UploadReadRefs, TypeOK, UploadRecords
<1>3. \A g : Ingesting(g)' <=> Ingesting(g)
  BY <1>1, <1>2 DEF Ingesting
<1>4. \A r \in Releases : rel[r].pc # "idle" => rel[r].hash # h
  BY <1>1, HolderAssumption DEF WorkerHasLock
<1>5. ReadIsCurrent'
  BY <1>1, <1>2 DEF ReadIsCurrent, store
<1>6. ReleaseIsLast'
  BY <1>1, <1>2, <1>3, <1>4 DEF ReleaseIsLast
<1>7. IngestProgress'
  BY <1>1, <1>2 DEF IngestProgress, store
<1>8. PromisesStand'
  BY <1>1 DEF PromisesStand, Kept, InSomeRoot, store, graph
<1>9. CollectionSpares'
  BY <1>1, <1>3 DEF CollectionSpares, Spared, Kept, InSomeRoot, store, graph
<1> QED BY <1>5, <1>6, <1>7, <1>8, <1>9 DEF Safe

\* A new promise: its bytes are there, its owner is recorded, and nothing that
\* could take them away is under way.
LEMMA AnswerSafe ==
    ASSUME Inv, NEW u \in Uploads, Answer(u), up' = [up EXCEPT ![u] = NoUpload],
           up[u].pc \in {"addref", "stat"}, up[u].hash \in object', up[u].hash \in meta',
           object' = object, ctime' = ctime, UNCHANGED <<rel, gc, graph, now>>,
           meta \subseteq meta', up[u].owner \in refs'[up[u].hash],
           \A g \in Hashes : refs[g] \subseteq refs'[g]
    PROVE  ReleaseIsLast' /\ PromisesStand' /\ CollectionSpares'
<1> USE DEF Inv
<1> DEFINE h == up[u].hash
           new == [owner |-> up[u].owner, hash |-> h, at |-> now]
<1>1. up[u] \in UploadRecords /\ h \in Hashes /\ Ingesting(h)
      /\ promised' = promised \cup {new} /\ now \in Nat /\ Grace \in Nat \ {0}
      /\ \A p \in promised : p.hash \in Hashes
  BY BlobAssumption DEF TypeOK, NoUpload, UploadRecords, Ingesting, Answer
<1>2. \A v \in Uploads : up'[v].pc # "idle" => up'[v] = up[v]
  BY DEF NoUpload, TypeOK
<1>3. \A g : Ingesting(g)' => Ingesting(g)
  BY <1>2 DEF Ingesting
<1>4. \A r \in Releases : rel[r].pc = "unlink" => rel[r].hash # h
  BY <1>1 DEF ReleaseIsLast
<1>5. ReleaseIsLast'
  BY <1>1, <1>2, <1>3, <1>4 DEF ReleaseIsLast
<1>6. ctime[h] = now
  BY DEF IngestProgress
<1>7. PromisesStand'
  <2>1. now' - new.at < Grace /\ new.hash \in object' \cap meta'
        /\ new.owner \in refs'[new.hash] /\ new.at <= ctime'[new.hash] /\ new.at <= now'
    BY <1>1, <1>6
  <2> QED BY <1>1, <2>1 DEF PromisesStand, Kept, InSomeRoot, graph
<1>8. CollectionSpares'
  <2>1. gc.pc # "idle" /\ h \in gc.todo => h \in gc.young
    BY <1>1 DEF CollectionSpares
  <2>2. gc.pc \in {"remove", "unlink"} => gc.hash # h
    BY <2>1 DEF CollectionSpares, TypeOK
  <2> QED BY <1>1, <1>3, <2>1, <2>2 DEF CollectionSpares, Spared, Kept, InSomeRoot, graph
<1> QED BY <1>5, <1>7, <1>8

LEMMA UploadAnswersSafe ==
    ASSUME Inv, NEW u \in Uploads, UploadAddRef(u) \/ UploadStat(u)
    PROVE  Safe'
<1> USE DEF Inv
<1> DEFINE h == up[u].hash
<1>1. up[u] \in UploadRecords /\ up[u].pc \in {"addref", "stat"} /\ h \in Hashes
      /\ h \in object /\ object' = object /\ ctime' = ctime /\ meta \subseteq meta'
      /\ UNCHANGED <<rel, gc, swept, graph, now>>
  BY DEF UploadAddRef, UploadStat, TypeOK, NoUpload, UploadRecords, IngestProgress
<1>2. /\ \A g \in Hashes : refs[g] \subseteq refs'[g] /\ (g # h => refs'[g] = refs[g])
      /\ up[u].owner \in refs'[h]
      /\ up[u].pc = "stat" => refs' = refs
  <2>1. CASE UploadAddRef(u)
    <3>1. up[u].read = refs[h] /\ refs' = [refs EXCEPT ![h] = up[u].read \cup {up[u].owner}]
      BY <2>1 DEF UploadAddRef, ReadIsCurrent
    <3> QED BY <1>1, <2>1, <3>1 DEF TypeOK, UploadAddRef
  <2>2. CASE UploadStat(u)
    BY <1>1, <2>2 DEF UploadStat, IngestProgress
  <2> QED BY <2>1, <2>2
<1>3. /\ \A v \in Uploads \ {u} : up'[v] = up[v]
      /\ \/ up'[u].pc = "idle"
         \/ /\ up[u].pc = "addref" /\ up'[u].pc = "stat" /\ up[u].deduped
            /\ up'[u].hash = h /\ up'[u].owner = up[u].owner /\ up'[u].deduped = up[u].deduped
            /\ promised' = promised
  BY <1>1 DEF UploadAddRef, UploadStat, TypeOK, NoUpload, UploadRecords
<1>4. \A r \in Releases : rel[r].pc # "idle" => rel[r].hash # h
  <2>1. CASE up[u].pc = "addref"
    BY <2>1, HolderAssumption DEF WorkerHasLock
  <2>2. CASE up[u].pc = "stat"
    <3>1. Ingesting(h)
      BY <2>2 DEF Ingesting
    <3> QED BY <2>2, <3>1 DEF ReleaseIsLast, TypeOK, NoRelease, ReleaseRecords
  <2> QED BY <1>1, <2>1, <2>2
<1>5. \A v \in Uploads \ {u} : up[v].pc = "addref" => refs'[up[v].hash] = refs[up[v].hash]
  <2> SUFFICES ASSUME NEW v \in Uploads \ {u}, up[v].pc = "addref"
               PROVE  refs'[up[v].hash] = refs[up[v].hash]
    OBVIOUS
  <2>1. up[v].hash \in Hashes
    BY DEF TypeOK, NoUpload, UploadRecords
  <2>2. up[u].pc = "stat" \/ up[v].hash # h
    BY <1>1 DEF WorkerHasLock
  <2> QED BY <1>2, <2>1, <2>2
<1>6. promised' = promised \/ (Answer(u) /\ up' = [up EXCEPT ![u] = NoUpload])
  BY DEF UploadAddRef, UploadStat
<1>7. ReadIsCurrent'
  <2>1. \A v \in Uploads : up'[v].pc = "addref" => up'[v].read = refs'[up'[v].hash]
    BY <1>3, <1>5 DEF ReadIsCurrent
  <2>2. \A r \in Releases : rel[r].pc = "write" =>
            \A o \in refs'[rel[r].hash] \ rel[r].left :
                \A p \in promised' : p.hash = rel[r].hash => p.owner # o
    <3> SUFFICES ASSUME NEW r \in Releases, rel[r].pc = "write",
                        NEW o \in refs'[rel[r].hash] \ rel[r].left,
                        NEW p \in promised', p.hash = rel[r].hash
                 PROVE  p.owner # o
      OBVIOUS
    <3>1. rel[r].hash # h /\ rel[r].hash \in Hashes
      BY <1>4 DEF TypeOK, NoRelease, ReleaseRecords
    <3>2. p \in promised
      BY <1>6, <3>1 DEF Answer
    <3> QED BY <1>2, <3>1, <3>2 DEF ReadIsCurrent
  <2> QED BY <1>1, <2>1, <2>2 DEF ReadIsCurrent
<1>8. IngestProgress'
  <2> SUFFICES ASSUME NEW v \in Uploads, up'[v].pc # "idle"
               PROVE  /\ up'[v].hash \in object' => ctime'[up'[v].hash] = now'
                      /\ up'[v].pc # "place" \/ up'[v].deduped => up'[v].hash \in object'
                      /\ up'[v].pc \in {"ref", "addref"} /\ ~up'[v].deduped => up'[v].hash \in meta'
                      /\ up'[v].pc \in {"place", "meta"} => ~up'[v].deduped
                      /\ up'[v].pc = "stat" => up'[v].owner \in refs'[up'[v].hash]
    BY DEF IngestProgress
  <2>1. CASE v = u
    BY <1>1, <1>2, <1>3, <2>1 DEF IngestProgress
  <2>2. CASE v # u
    <3>1. up'[v] = up[v] /\ up[v].hash \in Hashes
      BY <1>3, <2>2 DEF TypeOK, NoUpload, UploadRecords
    <3> QED BY <1>1, <1>2, <3>1 DEF IngestProgress
  <2> QED BY <2>1, <2>2
<1>9. ReleaseIsLast' /\ PromisesStand' /\ CollectionSpares'
  <2>1. CASE promised' = promised
    <3>1. \A g : Ingesting(g)' => Ingesting(g)
      BY <1>1, <1>3 DEF Ingesting
    <3>2. ReleaseIsLast'
      BY <1>1, <1>3, <1>4, <2>1, <3>1 DEF ReleaseIsLast
    <3>3. \A p \in promised : p.hash \in Hashes
      BY DEF TypeOK
    <3>4. PromisesStand'
      BY <1>1, <1>2, <2>1, <3>3 DEF PromisesStand, Kept, InSomeRoot, graph
    <3>5. CollectionSpares'
      BY <1>1, <2>1, <3>1 DEF CollectionSpares, Spared, Kept, InSomeRoot, graph
    <3> QED BY <3>2, <3>4, <3>5
  <2>2. CASE Answer(u) /\ up' = [up EXCEPT ![u] = NoUpload]
    <3>1. h \in meta'
      BY <1>1, <1>3, <2>2 DEF UploadAddRef, UploadStat, IngestProgress, TypeOK, NoUpload
    <3> QED BY <1>1, <1>2, <2>2, <3>1, AnswerSafe
  <2> QED BY <1>6, <2>1, <2>2
<1> QED BY <1>7, <1>8, <1>9 DEF Safe

LEMMA UploadFailsSafe ==
    ASSUME Inv, NEW u \in Uploads, UploadFails(u)
    PROVE  Safe'
<1> USE DEF Inv
<1>1. UNCHANGED <<store, rel, gc, swept, graph, now, promised>>
  BY DEF UploadFails
<1>2. \A v \in Uploads : up'[v].pc # "idle" => up'[v] = up[v]
  BY DEF UploadFails, TypeOK, NoUpload
<1>3. \A g : Ingesting(g)' => Ingesting(g)
  BY <1>2 DEF Ingesting
<1>4. ReadIsCurrent'
  BY <1>1, <1>2 DEF ReadIsCurrent, store
<1>5. ReleaseIsLast'
  BY <1>1, <1>2, <1>3 DEF ReleaseIsLast
<1>6. IngestProgress'
  BY <1>1, <1>2 DEF IngestProgress, store
<1>7. PromisesStand'
  BY <1>1 DEF PromisesStand, Kept, InSomeRoot, store, graph
<1>8. CollectionSpares'
  BY <1>1, <1>3 DEF CollectionSpares, Spared, Kept, InSomeRoot, store, graph
<1> QED BY <1>4, <1>5, <1>6, <1>7, <1>8 DEF Safe

-----------------------------------------------------------------------------
LEMMA ReleaseReadRefsSafe ==
    ASSUME Inv, Hazards = {}, NEW r \in Releases, NEW d \in Owners, NEW h \in Hashes,
           ReleaseReadRefs(r, d, h)
    PROVE  Safe'
<1> USE DEF Inv
<1>1. /\ UNCHANGED <<store, up, gc, swept, graph, now>>
      /\ promised' = {p \in promised : p.owner # d \/ p.hash # h}
      /\ ~Ingesting(h) /\ lock[h] = Free
  BY DEF ReleaseReadRefs
<1>2. /\ \A q \in Releases \ {r} : rel'[q] = rel[q]
      /\ \/ rel'[r] = rel[r]
         \/ rel'[r].pc = "write" /\ rel'[r].hash = h /\ rel'[r].left = refs[h] \ {d}
         \/ rel'[r].pc = "unlink" /\ rel'[r].hash = h /\ refs[h] \subseteq {d}
  BY DEF ReleaseReadRefs, TypeOK
<1>3. ReadIsCurrent'
  <2>1. \A v \in Uploads : up'[v].pc = "addref" => up'[v].read = refs'[up'[v].hash]
    BY <1>1 DEF ReadIsCurrent, store
  <2>2. \A q \in Releases : rel'[q].pc = "write" =>
            \A o \in refs[rel'[q].hash] \ rel'[q].left :
                \A p \in promised' : p.hash = rel'[q].hash => p.owner # o
    BY <1>1, <1>2 DEF ReadIsCurrent
  <2> QED BY <1>1, <2>1, <2>2 DEF ReadIsCurrent, store
<1>4. ReleaseIsLast'
  <2>1. \A g : Ingesting(g)' <=> Ingesting(g)
    BY <1>1 DEF Ingesting
  <2>2. refs[h] \subseteq {d} => \A p \in promised' : p.hash # h
    BY <1>1 DEF PromisesStand
  <2>3. \A u \in Uploads : up[u].pc \in {"stat", "addref"} => up[u].hash # h
    BY <1>1 DEF Ingesting
  <2> QED BY <1>1, <1>2, <2>1, <2>2, <2>3 DEF ReleaseIsLast
<1>5. IngestProgress'
  BY <1>1 DEF IngestProgress, store
<1>6. PromisesStand'
  BY <1>1 DEF PromisesStand, Kept, InSomeRoot, store, graph
<1>7. CollectionSpares'
  BY <1>1 DEF CollectionSpares, Ingesting, Spared, Kept, InSomeRoot, store, graph
<1> QED BY <1>3, <1>4, <1>5, <1>6, <1>7 DEF Safe

LEMMA ReleaseWriteSafe ==
    ASSUME Inv, NEW r \in Releases, ReleaseWrite(r)
    PROVE  Safe'
<1> USE DEF Inv
<1> DEFINE h == rel[r].hash
<1>1. /\ UNCHANGED <<object, meta, ctime, up, gc, swept, graph, now, promised>>
      /\ h \in Hashes /\ rel[r].pc = "write" /\ lock[h] = r
      /\ refs' = [refs EXCEPT ![h] = rel[r].left]
  BY DEF ReleaseWrite, TypeOK, NoRelease, ReleaseRecords, WorkerHasLock
<1>2. rel'[r].pc = "idle" /\ \A q \in Releases \ {r} : rel'[q] = rel[q]
  BY DEF ReleaseWrite, TypeOK, NoRelease
<1>3. refs'[h] = rel[r].left /\ \A g \in Hashes \ {h} : refs'[g] = refs[g]
  BY <1>1 DEF TypeOK
<1>4. \A q \in Releases \ {r} : rel[q].pc # "idle" => rel[q].hash \in Hashes \ {h}
  BY <1>1 DEF WorkerHasLock, TypeOK, NoRelease, ReleaseRecords
<1>5. \A u \in Uploads : up[u].pc \in {"addref", "stat"} => up[u].hash \in Hashes \ {h}
  BY <1>1 DEF ReleaseIsLast, TypeOK, NoUpload, UploadRecords
<1>6. ReadIsCurrent'
  <2>1. \A u \in Uploads : up'[u].pc = "addref" => up'[u].read = refs'[up'[u].hash]
    BY <1>1, <1>3, <1>5 DEF ReadIsCurrent
  <2>2. \A q \in Releases : rel'[q].pc = "write" =>
            \A o \in refs'[rel'[q].hash] \ rel'[q].left :
                \A p \in promised' : p.hash = rel'[q].hash => p.owner # o
    BY <1>1, <1>2, <1>3, <1>4 DEF ReadIsCurrent
  <2> QED BY <2>1, <2>2 DEF ReadIsCurrent
<1>7. ReleaseIsLast'
  BY <1>1, <1>2 DEF ReleaseIsLast, Ingesting
<1>8. IngestProgress'
  BY <1>1, <1>3, <1>5 DEF IngestProgress
<1>9. PromisesStand'
  <2>1. \A p \in promised : p.hash \in Hashes /\ p.owner \in refs'[p.hash]
    BY <1>1, <1>3 DEF PromisesStand, ReadIsCurrent, TypeOK
  <2> QED BY <1>1, <2>1 DEF PromisesStand, Kept, InSomeRoot, graph
<1>10. CollectionSpares'
  BY <1>1 DEF CollectionSpares, Ingesting, Spared, Kept, InSomeRoot, graph
<1> QED BY <1>6, <1>7, <1>8, <1>9, <1>10 DEF Safe

\* The files of a hash may go when it is neither being ingested nor promised.
LEMMA FilesGone ==
    ASSUME Inv, NEW h \in Hashes, NEW f \in Files, Unlink(h, f),
           ~Ingesting(h), \A p \in promised : p.hash # h,
           UNCHANGED <<up, graph, now, promised>>
    PROVE  /\ \A u \in Uploads : up[u].pc = "addref" => up[u].read = refs'[up[u].hash]
           /\ \A g \in Hashes : refs'[g] \subseteq refs[g]
           /\ IngestProgress' /\ PromisesStand'
<1> USE DEF Inv
<1>1. /\ ctime' = ctime
      /\ \A g : g # h => (g \in object' <=> g \in object) /\ (g \in meta' <=> g \in meta)
      /\ \A g \in Hashes : refs'[g] \subseteq refs[g] /\ (g # h => refs'[g] = refs[g])
      /\ object' \subseteq object
  BY DEF Unlink, TypeOK
<1>2. \A u \in Uploads : up[u].pc # "idle" => up[u].hash \in Hashes /\ up[u].hash # h
  BY DEF Ingesting, TypeOK, NoUpload, UploadRecords
<1>3. \A u \in Uploads : up[u].pc = "addref" => up[u].read = refs'[up[u].hash]
  BY <1>1, <1>2 DEF ReadIsCurrent
<1>4. IngestProgress'
  BY <1>1, <1>2 DEF IngestProgress
<1>5. \A p \in promised : p.hash \in Hashes /\ p.hash # h
  BY DEF TypeOK
<1>6. PromisesStand'
  BY <1>1, <1>5 DEF PromisesStand, Kept, InSomeRoot, graph
<1> QED BY <1>1, <1>3, <1>4, <1>6

LEMMA ReleaseUnlinkSafe ==
    ASSUME Inv, NEW r \in Releases, NEW f \in Files, ReleaseUnlink(r, f)
    PROVE  Safe'
<1> USE DEF Inv
<1> DEFINE h == rel[r].hash
<1>1. /\ h \in Hashes /\ rel[r].pc = "unlink" /\ Unlink(h, f)
      /\ UNCHANGED <<up, gc, swept, graph, now, promised>>
      /\ ~Ingesting(h) /\ \A p \in promised : p.hash # h
  BY DEF ReleaseUnlink, TypeOK, NoRelease, ReleaseRecords, ReleaseIsLast
<1>2. /\ rel'[r].pc = "idle" \/ (rel'[r].pc = "unlink" /\ rel'[r].hash = h)
      /\ \A q \in Releases \ {r} : rel'[q] = rel[q]
  BY <1>1 DEF ReleaseUnlink, TypeOK, NoRelease, ReleaseRecords
<1>3. /\ \A u \in Uploads : up[u].pc = "addref" => up[u].read = refs'[up[u].hash]
      /\ \A g \in Hashes : refs'[g] \subseteq refs[g]
      /\ IngestProgress' /\ PromisesStand'
  BY <1>1, FilesGone
<1>4. ReadIsCurrent'
  <2>1. \A q \in Releases : rel[q].pc = "write" => rel[q].hash \in Hashes
    BY DEF TypeOK, NoRelease, ReleaseRecords
  <2> QED BY <1>1, <1>2, <1>3, <2>1 DEF ReadIsCurrent
<1>5. ReleaseIsLast'
  BY <1>1, <1>2 DEF ReleaseIsLast, Ingesting
<1>6. CollectionSpares'
  BY <1>1 DEF CollectionSpares, Ingesting, Spared, Kept, InSomeRoot, graph
<1> QED BY <1>3, <1>4, <1>5, <1>6 DEF Safe

LEMMA ReleaseFailsSafe ==
    ASSUME Inv, NEW r \in Releases, ReleaseFails(r)
    PROVE  Safe'
<1> USE DEF Inv
<1>1. UNCHANGED <<store, up, gc, swept, graph, now, promised>>
  BY DEF ReleaseFails
<1>2. \A q \in Releases : rel'[q].pc # "idle" => rel'[q] = rel[q]
  BY DEF ReleaseFails, TypeOK, NoRelease
<1>3. ReadIsCurrent'
  BY <1>1, <1>2 DEF ReadIsCurrent, store
<1>4. ReleaseIsLast'
  BY <1>1, <1>2 DEF ReleaseIsLast, Ingesting
<1>5. IngestProgress'
  BY <1>1 DEF IngestProgress, store
<1>6. PromisesStand'
  BY <1>1 DEF PromisesStand, Kept, InSomeRoot, store, graph
<1>7. CollectionSpares'
  BY <1>1 DEF CollectionSpares, Ingesting, Spared, Kept, InSomeRoot, store, graph
<1> QED BY <1>3, <1>4, <1>5, <1>6, <1>7 DEF Safe

-----------------------------------------------------------------------------
\* While the store, the requests and the documents stay as they are, only what
\* the collection knows is at stake.
LEMMA CollectionOnly ==
    ASSUME Inv, UNCHANGED <<store, up, rel, graph, now, promised>>, CollectionSpares'
    PROVE  Safe'
<1> USE DEF Inv
<1>1. ReadIsCurrent'
  BY DEF ReadIsCurrent, store
<1>2. ReleaseIsLast'
  BY DEF ReleaseIsLast, Ingesting
<1>3. IngestProgress'
  BY DEF IngestProgress, store
<1>4. PromisesStand'
  BY DEF PromisesStand, Kept, InSomeRoot, store, graph
<1> QED BY <1>1, <1>2, <1>3, <1>4 DEF Safe

LEMMA GcListSafe ==
    ASSUME Inv, GcList
    PROVE  Safe'
<1> USE DEF Inv
<1>1. /\ UNCHANGED <<store, lock, up, rel, graph, now, promised>>
      /\ gc'.pc = "roots" /\ gc'.todo = object
      /\ gc'.young = {h \in object : now - ctime[h] < Grace}
  BY DEF GcList, listObjects
<1>2. now \in Nat /\ Grace \in Nat \ {0} /\ \A h \in object : ctime[h] \in Nat
  BY BlobAssumption DEF TypeOK
<1>3. \A h \in object : Ingesting(h) => h \in gc'.young
  BY <1>1, <1>2 DEF Ingesting, IngestProgress
<1>4. \A p \in promised : p.hash \in object => p.hash \in gc'.young \/ Kept(p.owner, p.hash)
  <2>1. \A p \in promised : p.at \in Nat
    BY DEF TypeOK
  <2> QED BY <1>1, <1>2, <2>1 DEF PromisesStand
<1>5. CollectionSpares'
  BY <1>1, <1>3, <1>4 DEF CollectionSpares, Ingesting, Spared, Kept, InSomeRoot, graph
<1> QED BY <1>1, <1>5, CollectionOnly

\* Every root resolves, so whatever a document keeps is found on the way.
LEMMA GcRootsSafe ==
    ASSUME Inv, Hazards = {}, GcRoots
    PROVE  Safe'
<1> USE DEF Inv
<1>1. gc \in Collections /\ gc.pc = "roots"
  BY DEF GcRoots, TypeOK, NoGc
<1>2. /\ UNCHANGED <<store, lock, up, rel, swept, graph, now, promised>>
      /\ gc' = [gc EXCEPT !.pc = "recordings", !.roots = Roots,
                          !.recordings = UNION {listed[r] : r \in Roots}]
  BY DEF GcRoots
<1>3. gc'.pc = "recordings" /\ gc'.roots = Roots /\ gc'.todo = gc.todo /\ gc'.young = gc.young
      /\ gc'.recordings = UNION {listed[r] : r \in Roots}
  BY ONLY <1>1, <1>2 DEF Collections
<1>4. \A d : InSomeRoot(d) => d \in gc'.recordings
  BY <1>3 DEF InSomeRoot
<1>5. \A p \in promised : Kept(p.owner, p.hash) =>
          IF p.hash \in statements
            THEN p.owner \in gc'.roots \cup gc'.recordings
            ELSE p.owner \in gc'.recordings /\ p.hash \in links[p.owner]
  BY <1>3, <1>4 DEF Kept
<1>6. CollectionSpares'
  BY <1>1, <1>2, <1>3, <1>5 DEF CollectionSpares, Ingesting, Spared, Kept, graph
<1> QED BY <1>2, <1>6, CollectionOnly

LEMMA GcRecordingsSafe ==
    ASSUME Inv, GcRecordings
    PROVE  Safe'
<1> USE DEF Inv
<1>1. gc \in Collections /\ gc.pc = "recordings"
  BY DEF GcRecordings, TypeOK, NoGc
<1>2. UNCHANGED <<store, lock, up, rel, swept, graph, now, promised>>
  BY DEF GcRecordings
<1>3. /\ gc'.pc = "sweep" /\ gc'.roots = gc.roots /\ gc'.recordings = gc.recordings
      /\ gc'.todo = gc.todo /\ gc'.young = gc.young
      /\ gc'.live = UNION {links[d] : d \in gc.recordings}
  BY <1>1 DEF GcRecordings, Collections
<1>4. \A o \in gc.recordings : links[o] \subseteq gc'.live
  BY <1>3
<1>5. CollectionSpares'
  BY <1>1, <1>2, <1>3, <1>4 DEF CollectionSpares, Ingesting, Spared, graph
<1> QED BY <1>2, <1>5, CollectionOnly

LEMMA GcSweepSafe ==
    ASSUME Inv, NEW h \in Hashes, GcSkip(h) \/ GcCondemn(h)
    PROVE  Safe'
<1> USE DEF Inv
<1>1. gc \in Collections /\ gc.pc = "sweep" /\ h \in gc.todo
  BY DEF GcSkip, GcCondemn, TypeOK, NoGc
<1>2. UNCHANGED <<store, lock, up, rel, swept, graph, now, promised>>
  BY DEF GcSkip, GcCondemn
<1>3. CASE GcSkip(h)
  <2>1. /\ gc'.pc = "sweep" /\ gc'.roots = gc.roots /\ gc'.recordings = gc.recordings
        /\ gc'.todo \subseteq gc.todo /\ gc'.young = gc.young /\ gc'.live = gc.live
    BY <1>1, <1>3 DEF GcSkip, Collections
  <2>2. CollectionSpares'
    BY <1>1, <1>2, <2>1 DEF CollectionSpares, Ingesting, Spared, graph
  <2> QED BY <1>2, <2>2, CollectionOnly
<1>4. CASE GcCondemn(h)
  <2>1. /\ gc'.pc = "remove" /\ gc'.roots = gc.roots /\ gc'.recordings = gc.recordings
        /\ gc'.todo = gc.todo /\ gc'.young = gc.young /\ gc'.live = gc.live /\ gc'.hash = h
    BY <1>1, <1>4 DEF GcCondemn, Collections
  <2>2. \A p \in promised : p.hash # h
    <3> SUFFICES ASSUME NEW p \in promised, p.hash = h PROVE FALSE
      OBVIOUS
    <3>1. h \in object \cap meta /\ p.owner \in refs[h]
      BY DEF PromisesStand
    <3>2. Spared(p.owner, h)
      BY <1>1 DEF CollectionSpares
    <3>3. h \notin gc.live /\ h \notin gc.young /\ ~OwnedStatement(h)
      BY <1>4 DEF GcCondemn
    <3>4. h \in statements /\ p.owner \in gc.roots \cup gc.recordings
      BY <1>1, <3>2, <3>3 DEF Spared
    <3> QED BY <3>1, <3>3, <3>4 DEF OwnedStatement
  <2>3. h \notin gc.young
    BY <1>4 DEF GcCondemn
  <2>4. CollectionSpares'
    BY <1>1, <1>2, <2>1, <2>2, <2>3 DEF CollectionSpares, Ingesting, Spared, graph
  <2> QED BY <1>2, <2>4, CollectionOnly
<1> QED BY <1>3, <1>4

LEMMA GcLockSafe ==
    ASSUME Inv, GcLock
    PROVE  Safe'
<1> USE DEF Inv
<1>1. gc \in Collections /\ gc.pc = "remove"
  BY DEF GcLock, TypeOK, NoGc
<1>2. UNCHANGED <<store, up, rel, swept, graph, now, promised>>
  BY DEF GcLock
<1>3. /\ gc'.pc = "unlink" /\ gc'.roots = gc.roots /\ gc'.recordings = gc.recordings
      /\ gc'.todo = gc.todo /\ gc'.young = gc.young /\ gc'.live = gc.live /\ gc'.hash = gc.hash
  BY <1>1 DEF GcLock, Collections
<1>4. CollectionSpares'
  BY <1>1, <1>2, <1>3 DEF CollectionSpares, Ingesting, Spared, graph
<1> QED BY <1>2, <1>4, CollectionOnly

LEMMA GcUnlinkSafe ==
    ASSUME Inv, NEW f \in Files, GcUnlink(f)
    PROVE  Safe'
<1> USE DEF Inv
<1> DEFINE h == gc.hash
<1>1. gc \in Collections /\ gc.pc = "unlink" /\ h \in gc.todo /\ h \in Hashes
  BY DEF GcUnlink, TypeOK, NoGc, Collections
<1>2. /\ UNCHANGED <<up, rel, swept, graph, now, promised>> /\ Unlink(h, f)
      /\ ~Ingesting(h) /\ \A p \in promised : p.hash # h
  BY <1>1 DEF GcUnlink, CollectionSpares
<1>3. /\ gc'.pc \in {"sweep", "unlink"} /\ gc'.roots = gc.roots
      /\ gc'.recordings = gc.recordings /\ gc'.todo \subseteq gc.todo
      /\ gc'.young = gc.young /\ gc'.live = gc.live /\ gc'.hash = gc.hash
  <2>1. CASE gc.files = {f}
    <3>1. gc' = [gc EXCEPT !.pc = "sweep", !.todo = @ \ {gc.hash}, !.files = {}]
      BY <2>1 DEF GcUnlink
    <3> QED BY ONLY <1>1, <3>1 DEF Collections
  <2>2. CASE gc.files # {f}
    BY <1>1, <2>2 DEF GcUnlink, Collections
  <2> QED BY <2>1, <2>2
<1>4. /\ \A u \in Uploads : up[u].pc = "addref" => up[u].read = refs'[up[u].hash]
      /\ \A g \in Hashes : refs'[g] \subseteq refs[g]
      /\ IngestProgress' /\ PromisesStand'
  BY <1>1, <1>2, FilesGone
<1>5. ReadIsCurrent'
  <2>1. \A q \in Releases : rel[q].pc = "write" => rel[q].hash \in Hashes
    BY DEF TypeOK, NoRelease, ReleaseRecords
  <2> QED BY <1>2, <1>4, <2>1 DEF ReadIsCurrent
<1>6. ReleaseIsLast'
  BY <1>2 DEF ReleaseIsLast, Ingesting
<1>7. CollectionSpares'
  BY <1>1, <1>2, <1>3 DEF CollectionSpares, Ingesting, Spared, graph
<1> QED BY <1>4, <1>5, <1>6, <1>7 DEF Safe

LEMMA GcEndsSafe ==
    ASSUME Inv, GcAbort \/ GcDone \/ GcFails
    PROVE  Safe'
<1>1. UNCHANGED <<store, up, rel, graph, now, promised>> /\ gc' = NoGc
  BY DEF GcAbort, GcDone, GcFails
<1>2. CollectionSpares'
  BY <1>1 DEF CollectionSpares, NoGc
<1> QED BY <1>1, <1>2, CollectionOnly

LEMMA StepSafe ==
    ASSUME Inv, [Next]_vars, Hazards = {}
    PROVE  Inv'
<1>1. TypeOK' /\ LockHasWorker' /\ WorkerHasLock'
  BY StepTyped, StepLocks DEF Inv, LockInv
<1>2. Safe'
  <2>1. CASE UNCHANGED vars
    <3>1. CollectionSpares'
      BY <2>1 DEF Inv, vars, store, graph, CollectionSpares, Ingesting, Spared, Kept, InSomeRoot
    <3> QED BY <2>1, <3>1, CollectionOnly DEF vars
  <2>2. ASSUME NEW u \in Uploads,
               \/ \E d \in Owners, h \in Hashes : UploadCheck(u, d, h)
               \/ UploadStep(u)
               \/ UploadFails(u)
        PROVE  Safe'
    BY <2>2, UploadCheckSafe, UploadFilesSafe, UploadReadRefsSafe, UploadAnswersSafe,
       UploadFailsSafe DEF UploadStep
  <2>3. ASSUME NEW r \in Releases,
               \/ \E d \in Owners, h \in Hashes : ReleaseReadRefs(r, d, h)
               \/ ReleaseStep(r)
               \/ ReleaseFails(r)
        PROVE  Safe'
    BY <2>3, ReleaseReadRefsSafe, ReleaseWriteSafe, ReleaseUnlinkSafe, ReleaseFailsSafe
       DEF ReleaseStep
  <2>4. CASE GcList \/ GcAbort \/ GcFails \/ GcStep
    BY <2>4, GcListSafe, GcRootsSafe, GcRecordingsSafe, GcSweepSafe, GcLockSafe,
       GcUnlinkSafe, GcEndsSafe DEF GcStep
  <2> QED BY <2>1, <2>2, <2>3, <2>4, TickSafe, RelaunchSafe, DocumentsSafe DEF Next
<1> QED BY <1>1, <1>2 DEF Inv, Safe

LEMMA InitSafe == Init => Inv
<1> SUFFICES ASSUME Init PROVE Inv
  OBVIOUS
<1>1. TypeOK
  BY InitTyped
<1>2. LockHasWorker /\ WorkerHasLock
  BY DEF Init, LockHasWorker, WorkerHasLock, NoUpload, NoRelease, NoGc
<1>3. ReadIsCurrent /\ ReleaseIsLast /\ IngestProgress /\ PromisesStand /\ CollectionSpares
  BY DEF Init, ReadIsCurrent, ReleaseIsLast, IngestProgress, PromisesStand, CollectionSpares,
         NoUpload, NoRelease, NoGc
<1> QED BY <1>1, <1>2, <1>3 DEF Inv

(***************************************************************************)
(* What an ingest was answered with stays (putBlob, collectOrphanedBlobs): *)
(* unless one of the overlaps and failures that Hazards names occurs, the  *)
(* object and the meta file of every promise are there for as long as it   *)
(* is young or its owner still names it, through failures of any ingest,   *)
(* release or collection and through restarts.                             *)
(***************************************************************************)
THEOREM DurableCopies == Hazards = {} => (Spec => []DurableCopy)
<1> SUFFICES ASSUME Hazards = {} PROVE Spec => []DurableCopy
  OBVIOUS
<1>1. Init => Inv
  BY InitSafe
<1>2. Inv /\ [Next]_vars => Inv'
  BY StepSafe
<1>3. Inv => DurableCopy
  BY DEF Inv, PromisesStand, DurableCopy
<1> QED BY <1>1, <1>2, <1>3, PTL DEF Spec

(***************************************************************************)
(* One owner's release never frees another's bytes (addRef, releaseRef):   *)
(* unless one of the overlaps and failures that Hazards names occurs,      *)
(* every owner that was answered is in the refs file.                      *)
(***************************************************************************)
THEOREM OwnersStay == Hazards = {} => (Spec => []OwnersRecorded)
<1> SUFFICES ASSUME Hazards = {} PROVE Spec => []OwnersRecorded
  OBVIOUS
<1>1. Init => Inv
  BY InitSafe
<1>2. Inv /\ [Next]_vars => Inv'
  BY StepSafe
<1>3. Inv => OwnersRecorded
  BY DEF Inv, PromisesStand, OwnersRecorded
<1> QED BY <1>1, <1>2, <1>3, PTL DEF Spec


-----------------------------------------------------------------------------
(***************************************************************************)
(* Recorder: a claim is over the bytes of its file, a recording has its own*)
(* sound and a queued upload stays queued until it is stored, for any      *)
(* number of takes, documents, failures and reloads; the first two if the  *)
(* button is pressed when its last press has had its effect (Patient).     *)
(***************************************************************************)
TakeOrNone == Takes \cup {0}
ClaimSet == [file : TakeOrNone, sound : TakeOrNone]
StopSet == [stage : {"none", "flush", "recorder", "claim", "over"}, take : TakeOrNone,
            shown : TakeOrNone, recorder : TakeOrNone, here : BOOLEAN]
PageSet == [isRecording : BOOLEAN, handleFilename : TakeOrNone, isStarting : BOOLEAN,
            stopRequested : BOOLEAN, recorder : TakeOrNone, take : TakeOrNone]
EditorSet == [open : BOOLEAN, file : TakeOrNone, claim : ClaimSet]

CaptureTypes ==
  /\ client \in {"web", "electron"} /\ page \in PageSet
  /\ start \in [Takes -> {"none", "file", "mic", "over"}]
  /\ tape \in [Takes -> {"off", "on", "stopping", "stopped"}]
  /\ stops \in [Takes -> StopSet]
  /\ handle \in TakeOrNone
  /\ chunk \in [Takes -> {"none", "posted", "writing", "gone"}]
  /\ holds \in [Takes -> TakeOrNone]
  /\ editor \in EditorSet
Document(f, c, b, l) == [file |-> f, claim |-> c, blob |-> b, listed |-> l]
DocsAreMapped == docs = [d \in Docs |-> docs[d]]
LibraryTypes ==
  /\ DocsAreMapped
  /\ \A d \in Docs :
        docs[d] = Document(docs[d].file, docs[d].claim, docs[d].blob, docs[d].listed)
  /\ sending \in [Docs -> Nat] /\ pending \subseteq Docs

\* Take k is over and all it will ever have is written; a part of it is under way.
Done(k) == start[k] = "over" /\ tape[k] \in {"off", "stopped"} /\ chunk[k] \in {"none", "gone"}
Busy(k) == Starting(k) \/ tape[k] \in {"on", "stopping"} \/ chunk[k] \in {"posted", "writing"}
Flushing == \E s \in Takes : stops[s].stage = "flush"

\* A recorder exists only for a start that is over.
Ran == \A k \in Takes : tape[k] # "off" => start[k] = "over"
\* The take of a stop is the one its recorder captures, or an earlier one that is done.
Settled(take, recorder) == take = recorder \/ Done(take)
\* A stop that is about to sign had its recorder stopped.
ClaimsReady ==
  \A s \in Takes : stops[s].stage = "claim" =>
    /\ stops[s].recorder # 0 /\ tape[stops[s].recorder] = "stopped"
    /\ stops[s].take # 0 /\ Settled(stops[s].take, stops[s].recorder)
\* sox writes its file itself.
Unchunked == client = "electron" => \A k \in Takes : chunk[k] = "none"
\* No file holds the sound of another take.
SoundIsOwn == \A k \in Takes : holds[k] \in {0, k}

\* On a guest one take is under way at a time, ...
OneBusy == \A j, k \in Takes : Busy(j) /\ Busy(k) => j = k
\* ... a chunk is of a recorder that stopped, ...
Arrived == \A k \in Takes : chunk[k] # "none" => tape[k] = "stopped"
\* ... a stop that comes during the start is remembered by its flush or its request, ...
StartIsHeard ==
  \A k \in Takes : Starting(k) =>
    page.isStarting /\ (page.isRecording \/ page.stopRequested \/ Flushing)
\* ... a recorder that runs is the one the page knows, ...
OnIsReached ==
  /\ \A k \in Takes : tape[k] = "on" <=> page.recorder = k
  /\ page.recorder # 0 => page.isRecording \/ Flushing
\* ... the open file and the awaited write are those of the take under way, ...
OwnFile ==
  \A k \in Takes : /\ Busy(k) /\ start[k] # "file" => handle \in {0, k}
                   /\ chunk[k] = "writing" => awaited = k
\* ... a stop is answered before the next start, ...
StopIsOver == \A s \in Takes : Stopping(s) => ~page.isRecording
\* ... and the take a stop will read, or has read, is its own or done.
TakeIsOver ==
  page.take # 0 => /\ start[page.take] = "over"
                   /\ page.isRecording => Settled(page.take, page.recorder)
StopTake ==
  \A s \in Takes : stops[s].take # 0 =>
    /\ stops[s].stage = "flush" => Settled(stops[s].take, page.recorder)
    /\ stops[s].stage = "recorder" => Settled(stops[s].take, stops[s].recorder)
StopRecorder ==
  \A s \in Takes : stops[s].stage = "recorder" => stops[s].recorder # 0
OneStop == \A r, s \in Takes : Stopping(r) /\ Stopping(s) => r = s
WebInv ==
  /\ OneStop /\ OneBusy /\ Arrived /\ StartIsHeard /\ OnIsReached /\ OwnFile
  /\ StopIsOver /\ TakeIsOver /\ StopTake

\* A claim over bytes that will not change again.
GoodClaim(c) ==
  c = NoClaim \/ (c.file \in Takes /\ Done(c.file) /\ holds[c.file] \in {c.sound, 0})
ClaimsInv ==
  /\ GoodClaim(editor.claim)
  /\ \A d \in Docs : docs[d].file \in TakeOrNone /\ GoodClaim(docs[d].claim)
\* A document that is not saved has no audio, lists nothing and waits for nothing.
LibraryInv ==
  /\ LibraryTypes
  /\ \A d \in Docs : docs[d].file = 0 => /\ docs[d].blob = "none" /\ docs[d].listed = {}
                                         /\ sending[d] = 0 /\ d \notin pending

CaptureInv == CaptureTypes /\ Ran /\ ClaimsReady /\ StopRecorder /\ Unchunked /\ SoundIsOwn
              /\ (client = "web" => WebInv)
RecorderInv == CaptureInv /\ LibraryInv /\ ClaimsInv

\* A take that is over stays over, and its file keeps its sound or is deleted.
Stable ==
  \A k \in Takes : Done(k) => Done(k)' /\ holds'[k] \in {holds[k], 0}

LEMMA TakesAreNumbers == MaxTakes \in Nat /\ Takes \subseteq Nat /\ 0 \notin Takes
BY RecorderAssumption DEF RecorderAssumption, Takes

LEMMA CaptureStart == RecorderInit => CaptureInv
<1> SUFFICES ASSUME RecorderInit PROVE CaptureInv
  OBVIOUS
<1>1. NoStop \in StopSet /\ Idle \in PageSet /\ Closed \in EditorSet
  BY DEF NoStop, StopSet, TakeOrNone, Idle, PageSet, Closed, EditorSet, NoClaim, ClaimSet
<1>2. CaptureTypes
  BY <1>1, RecorderAssumption DEF RecorderInit, RecorderAssumption, CaptureTypes, TakeOrNone
<1>3. Ran /\ ClaimsReady /\ StopRecorder /\ Unchunked /\ SoundIsOwn
  BY DEF RecorderInit, Ran, ClaimsReady, StopRecorder, NoStop, Unchunked, SoundIsOwn
<1>4. WebInv
  BY TakesAreNumbers
     DEF RecorderInit, WebInv, OneStop, OneBusy, Arrived, StartIsHeard, OnIsReached, OwnFile, StopIsOver,
         TakeIsOver, StopTake, Busy, Starting, Stopping, NoStop, Idle
<1> QED
  BY <1>2, <1>3, <1>4 DEF CaptureInv

\* A start in its own time finds every earlier take over.
LEMMA AllOver ==
  ASSUME CaptureInv, client = "web", ~page.isRecording, ~InFlight
  PROVE  \A k \in Takes : ~Busy(k)
<1>1. ~Flushing
  BY DEF InFlight, Stopping, Flushing
<1>2. \A k \in Takes : tape[k] # "on"
  BY <1>1, TakesAreNumbers DEF CaptureInv, WebInv, OnIsReached
<1> QED
  BY <1>2 DEF InFlight, Arriving, Busy

LEMMA PressStartStep ==
  ASSUME Patient, CaptureInv, pressStart
  PROVE  CaptureInv' /\ Stable
<1> USE DEF CaptureInv
<1>1. PICK k \in Takes : start[k] = "none" /\ start' = [start EXCEPT ![k] = "file"]
  BY DEF pressStart
<1>2. /\ page' = [page EXCEPT !.isRecording = TRUE, !.isStarting = (client = "web"),
                              !.stopRequested = FALSE]
      /\ ~page.isRecording /\ ~InFlight
      /\ UNCHANGED <<client, tape, stops, handle, chunk, awaited, holds, editor>>
  BY DEF pressStart
<1>3. CaptureTypes'
  BY <1>1, <1>2 DEF CaptureTypes, PageSet
<1>4. start \in [Takes -> {"none", "file", "mic", "over"}] /\ page \in PageSet
  BY DEF CaptureTypes
<1>5. Ran' /\ StopRecorder' /\ Unchunked' /\ SoundIsOwn' /\ Stable
  BY <1>1, <1>2, <1>4 DEF Ran, StopRecorder, Unchunked, SoundIsOwn, Stable, Done
<1>6. \A j \in Takes : Done(j) => Done(j)'
  BY <1>5 DEF Stable
<1>7. ClaimsReady'
  BY <1>2, <1>6 DEF ClaimsReady, Settled, CaptureTypes, StopSet, TakeOrNone
<1>8. ASSUME client = "web" PROVE WebInv'
  <2>1. \A j \in Takes : ~Busy(j)
    BY <1>2, <1>8, AllOver
  <2>2. \A j \in Takes : j # k => ~Busy(j)'
    BY <1>1, <1>2, <1>4, <2>1 DEF Busy, Starting
  <2>3. start'[k] = "file" /\ tape'[k] = "off" /\ chunk'[k] = "none"
    BY <1>1, <1>2, <1>4, <1>8 DEF Ran, WebInv, Arrived, CaptureTypes
  <2>4. OneBusy' /\ Arrived' /\ OwnFile'
    BY <1>2, <1>8, <2>2, <2>3 DEF OneBusy, WebInv, Arrived, OwnFile
  <2>5. StartIsHeard' /\ StopIsOver' /\ OneStop'
    BY <1>2, <1>4, <1>8 DEF StartIsHeard, PageSet, InFlight, StopIsOver, OneStop, Stopping
  <2>6. page'.recorder = page.recorder /\ page'.take = page.take
    BY <1>2, <1>4 DEF PageSet
  <2>7. OnIsReached'
    BY <1>2, <1>4, <1>8, <2>6 DEF WebInv, OnIsReached, PageSet
  <2>8. TakeIsOver'
    <3> SUFFICES ASSUME page.take # 0
                 PROVE  start'[page.take] = "over" /\ Settled(page.take, page.recorder)'
      BY <2>6 DEF TakeIsOver
    <3>1. page.take \in Takes /\ start[page.take] = "over" /\ page.take # k
      BY <1>1, <1>4, <1>8 DEF WebInv, TakeIsOver, PageSet, TakeOrNone
    <3>2. Done(page.take)
      BY <2>1, <3>1 DEF Busy, Done, CaptureTypes
    <3>3. Done(page.take)'
      BY <1>1, <1>2, <1>4, <2>6, <3>1, <3>2 DEF Done
    <3> QED
      BY <1>1, <1>4, <2>6, <3>1, <3>3 DEF Settled
  <2>9. StopTake'
    BY <1>2, <1>6, <1>8, <2>6 DEF WebInv, StopTake, Settled, CaptureTypes, StopSet, TakeOrNone
  <2> QED
    BY <2>4, <2>5, <2>7, <2>8, <2>9 DEF WebInv
<1> QED
  BY <1>2, <1>3, <1>5, <1>7, <1>8

LEMMA OpenFileStep ==
  ASSUME CaptureInv, NEW k \in Takes, openFile(k)
  PROVE  CaptureInv' /\ Stable /\ editor' = editor
<1> USE DEF CaptureInv
<1>1. /\ client = "web" /\ start[k] = "file"
      /\ UNCHANGED <<client, tape, stops, chunk, awaited, holds, editor>>
      /\ start \in [Takes -> {"none", "file", "mic", "over"}] /\ page \in PageSet
      /\ handle \in TakeOrNone
  BY DEF openFile, CaptureTypes
<1>2. tape[k] = "off" /\ chunk[k] = "none" /\ Busy(k) /\ WebInv
  BY <1>1 DEF Ran, WebInv, Arrived, CaptureTypes, Busy, Starting
<1>3. \A j \in Takes : j # k => ~Busy(j)
  BY <1>2 DEF WebInv, OneBusy
<1>4. page.recorder = 0
  BY <1>1, <1>2, <1>3 DEF WebInv, OnIsReached, Busy, PageSet, TakeOrNone
<1>5. CASE /\ handle' = opened(k) /\ start' = [start EXCEPT ![k] = "mic"]
           /\ page' = [page EXCEPT !.handleFilename = k]
  <2>1. handle' = k
    BY <1>5 DEF opened
  <2>2. CaptureTypes'
    BY <1>1, <1>5, <2>1 DEF CaptureTypes, PageSet, TakeOrNone
  <2>3. UNCHANGED <<page.isRecording, page.isStarting, page.stopRequested, page.recorder, page.take>>
    BY <1>1, <1>5 DEF PageSet
  <2>4. Ran' /\ StopRecorder' /\ Unchunked' /\ SoundIsOwn' /\ Stable
    BY <1>1, <1>5 DEF Ran, StopRecorder, Unchunked, SoundIsOwn, Stable, Done
  <2>5. \A j \in Takes : Done(j) => Done(j)'
    BY <2>4 DEF Stable
  <2>6. ClaimsReady'
    BY <1>1, <2>5 DEF ClaimsReady, Settled, CaptureTypes, StopSet, TakeOrNone
  <2>7. \A j \in Takes : j # k => ~Busy(j)'
    BY <1>1, <1>3, <1>5 DEF Busy, Starting
  <2>8. OneBusy' /\ Arrived'
    BY <1>1, <1>2, <2>7 DEF OneBusy, WebInv, Arrived
  <2>9. OwnFile'
    BY <1>1, <1>2, <2>1, <2>7 DEF WebInv, OwnFile
  <2>10. StartIsHeard' /\ OnIsReached' /\ StopIsOver' /\ OneStop'
    BY <1>1, <1>2, <1>5, <2>3
       DEF WebInv, OneStop, StartIsHeard, OnIsReached, StopIsOver, Starting, Stopping, Flushing
  <2>11. TakeIsOver' /\ StopTake'
    BY <1>1, <1>2, <1>5, <2>3, <2>5
       DEF WebInv, TakeIsOver, StopTake, Settled, CaptureTypes, StopSet, TakeOrNone, PageSet
  <2> QED
    BY <1>1, <2>2, <2>4, <2>6, <2>8, <2>9, <2>10, <2>11 DEF WebInv
<1>6. CASE /\ start' = [start EXCEPT ![k] = "over"]
           /\ page' = [page EXCEPT !.isRecording = FALSE, !.isStarting = FALSE,
                                   !.stopRequested = FALSE]
           /\ UNCHANGED handle
  <2>2. CaptureTypes'
    BY <1>1, <1>6 DEF CaptureTypes, PageSet
  <2>3. UNCHANGED <<page.recorder, page.take>> /\ ~page'.isRecording
    BY <1>1, <1>6 DEF PageSet
  <2>4. Ran' /\ StopRecorder' /\ Unchunked' /\ SoundIsOwn' /\ Stable
    BY <1>1, <1>6 DEF Ran, StopRecorder, Unchunked, SoundIsOwn, Stable, Done
  <2>5. \A j \in Takes : Done(j) => Done(j)'
    BY <2>4 DEF Stable
  <2>6. ClaimsReady'
    BY <1>1, <2>5 DEF ClaimsReady, Settled, CaptureTypes, StopSet, TakeOrNone
  <2>7. \A j \in Takes : ~Busy(j)'
    BY <1>1, <1>2, <1>3, <1>6 DEF Busy, Starting
  <2>8. OneBusy' /\ Arrived' /\ OwnFile' /\ StartIsHeard'
    BY <1>1, <1>2, <2>7 DEF OneBusy, WebInv, Arrived, OwnFile, StartIsHeard, Busy
  <2>10. OnIsReached' /\ StopIsOver' /\ OneStop'
    BY <1>1, <1>2, <1>4, <1>6, <2>3
       DEF WebInv, OneStop, OnIsReached, StopIsOver, Stopping
  <2>11. TakeIsOver' /\ StopTake'
    BY <1>1, <1>2, <1>6, <2>3, <2>5
       DEF WebInv, TakeIsOver, StopTake, Settled, CaptureTypes, StopSet, TakeOrNone, PageSet
  <2> QED
    BY <1>1, <2>2, <2>4, <2>6, <2>8, <2>10, <2>11 DEF WebInv
<1> QED
  BY <1>1, <1>5, <1>6 DEF openFile

LEMMA OpenMicrophoneStep ==
  ASSUME CaptureInv, NEW k \in Takes, openMicrophone(k)
  PROVE  CaptureInv' /\ Stable /\ editor' = editor
<1> USE DEF CaptureInv
<1>1. /\ client = "web" /\ start[k] = "mic" /\ start' = [start EXCEPT ![k] = "over"]
      /\ UNCHANGED <<client, stops, handle, chunk, awaited, holds, editor>>
      /\ start \in [Takes -> {"none", "file", "mic", "over"}] /\ page \in PageSet
      /\ tape \in [Takes -> {"off", "on", "stopping", "stopped"}]
  BY DEF openMicrophone, CaptureTypes
<1>2. tape[k] = "off" /\ chunk[k] = "none" /\ Busy(k) /\ WebInv /\ handle \in {0, k}
  BY <1>1 DEF Ran, WebInv, Arrived, CaptureTypes, Busy, Starting, OwnFile
<1>3. \A j \in Takes : j # k => ~Busy(j)
  BY <1>2 DEF WebInv, OneBusy
<1>4. page.recorder = 0 /\ \A j \in Takes : tape[j] # "on"
  BY <1>1, <1>2, <1>3 DEF WebInv, OnIsReached, Busy, PageSet, TakeOrNone
<1> DEFINE on == /\ ~stopWasRequested /\ tape' = [tape EXCEPT ![k] = "on"]
                 /\ page'.isRecording = page.isRecording
                 /\ page'.recorder = k /\ page'.take = k
           off == /\ tape' = [tape EXCEPT ![k] = "stopping"]
                  /\ page'.isRecording = page.isRecording
                  /\ page'.recorder = 0 /\ page'.take = 0
           failed == /\ tape' = tape /\ page'.isRecording = FALSE
                     /\ page'.recorder = 0 /\ page'.take = page.take
<1>5. page' \in PageSet /\ (on \/ off \/ failed)
  BY <1>1, <1>4 DEF openMicrophone, PageSet, TakeOrNone
<1>6. CaptureTypes'
  BY <1>1, <1>5 DEF CaptureTypes
<1>7. \A j \in Takes : /\ j # k => start'[j] = start[j] /\ tape'[j] = tape[j]
                       /\ start'[k] = "over"
  BY <1>1, <1>5
<1>8. Ran' /\ StopRecorder' /\ Unchunked' /\ SoundIsOwn' /\ Stable
  BY <1>1, <1>7 DEF Ran, StopRecorder, Unchunked, SoundIsOwn, Stable, Done
<1>9. \A j \in Takes : Done(j) => Done(j)'
  BY <1>8 DEF Stable
<1>10. ClaimsReady'
  <2>1. \A s \in Takes : stops[s].stage = "claim" => stops[s].recorder # k
    BY <1>2 DEF ClaimsReady
  <2> QED
    BY <1>1, <1>7, <1>9, <2>1 DEF ClaimsReady, Settled, CaptureTypes, StopSet, TakeOrNone
<1>11. \A j \in Takes : j # k => ~Busy(j)'
  BY <1>1, <1>3, <1>7 DEF Busy, Starting
<1>12. OneBusy' /\ Arrived' /\ OwnFile' /\ StartIsHeard'
  BY <1>1, <1>2, <1>7, <1>11 DEF OneBusy, WebInv, Arrived, OwnFile, StartIsHeard, Busy, Starting
<1>13. OnIsReached'
  <2>1. on => page.isRecording \/ Flushing
    BY <1>1, <1>2 DEF WebInv, StartIsHeard, Starting, stopWasRequested
  <2>2. on => OnIsReached'
    BY <1>1, <1>4, <1>7, <2>1 DEF OnIsReached, Flushing
  <2>3. off \/ failed => OnIsReached'
    BY <1>1, <1>4, <1>7, TakesAreNumbers DEF OnIsReached
  <2> QED
    BY <1>5, <2>2, <2>3
<1>14. StopIsOver' /\ OneStop'
  BY <1>1, <1>2, <1>5 DEF WebInv, OneStop, StopIsOver, Stopping
<1>15. TakeIsOver'
  BY <1>1, <1>2, <1>5, <1>7, <1>9 DEF WebInv, TakeIsOver, Settled, PageSet, TakeOrNone
<1>16. StopTake'
  BY <1>1, <1>2, <1>4, <1>9 DEF WebInv, StopTake, Settled, CaptureTypes, StopSet, TakeOrNone
<1> QED
  BY <1>1, <1>6, <1>8, <1>10, <1>12, <1>13, <1>14, <1>15, <1>16 DEF WebInv

LEMMA SpawnSoxStep ==
  ASSUME CaptureInv, NEW k \in Takes, spawnSox(k)
  PROVE  CaptureInv' /\ Stable /\ editor' = editor
<1> USE DEF CaptureInv
<1>1. /\ client = "electron" /\ start[k] = "file" /\ start' = [start EXCEPT ![k] = "over"]
      /\ UNCHANGED <<client, stops, handle, chunk, awaited, holds, editor>>
      /\ tape' \in {tape, [tape EXCEPT ![k] = "on"]}
      /\ start \in [Takes -> {"none", "file", "mic", "over"}] /\ page \in PageSet
      /\ tape \in [Takes -> {"off", "on", "stopping", "stopped"}]
  BY DEF spawnSox, CaptureTypes
<1>2. page' \in PageSet /\ tape[k] = "off"
  BY <1>1 DEF spawnSox, PageSet, TakeOrNone, Ran
<1>3. CaptureTypes'
  BY <1>1, <1>2 DEF CaptureTypes
<1>4. Ran' /\ StopRecorder' /\ Unchunked' /\ SoundIsOwn' /\ Stable
  BY <1>1, <1>2 DEF Ran, StopRecorder, Unchunked, SoundIsOwn, Stable, Done
<1>5. ClaimsReady'
  <2>1. \A j \in Takes : Done(j) => Done(j)'
    BY <1>4 DEF Stable
  <2>2. \A s \in Takes : stops[s].stage = "claim" => stops[s].recorder # k
    BY <1>2 DEF ClaimsReady
  <2> QED
    BY <1>1, <2>1, <2>2 DEF ClaimsReady, Settled, CaptureTypes, StopSet, TakeOrNone
<1> QED
  BY <1>1, <1>3, <1>4, <1>5

LEMMA PressStopStep ==
  ASSUME Patient, CaptureInv, pressStop
  PROVE  CaptureInv' /\ Stable /\ editor' = editor
<1> USE DEF CaptureInv
<1>1. PICK s \in Takes :
        stops' = [stops EXCEPT ![s] = [NoStop EXCEPT !.stage = "flush", !.take = page.take,
                                                     !.shown = page.handleFilename]]
  BY DEF pressStop
<1>2. /\ page.isRecording /\ page' = [page EXCEPT !.isRecording = FALSE, !.take = 0]
      /\ UNCHANGED <<client, start, tape, handle, chunk, awaited, holds, editor>>
      /\ page \in PageSet /\ stops \in [Takes -> StopSet]
  BY DEF pressStop, CaptureTypes
<1>3. stops' \in [Takes -> StopSet] /\ stops'[s].stage = "flush" /\ stops'[s].take = page.take
      /\ \A r \in Takes \ {s} : stops'[r] = stops[r]
  <2> DEFINE new == [NoStop EXCEPT !.stage = "flush", !.take = page.take,
                                   !.shown = page.handleFilename]
  <2>1. new \in StopSet /\ new.stage = "flush" /\ new.take = page.take
    BY <1>2 DEF NoStop, StopSet, PageSet, TakeOrNone
  <2>2. stops' = [stops EXCEPT ![s] = new]
    BY <1>1
  <2> HIDE DEF new
  <2> QED
    BY <1>2, <2>1, <2>2
<1>4. page' \in PageSet /\ ~page'.isRecording /\ page'.take = 0
      /\ UNCHANGED <<page.isStarting, page.stopRequested, page.recorder>>
  BY <1>2 DEF PageSet, TakeOrNone
<1>5. CaptureTypes'
  BY <1>2, <1>3, <1>4 DEF CaptureTypes
<1>6. Ran' /\ StopRecorder' /\ Unchunked' /\ SoundIsOwn' /\ Stable
  BY <1>2, <1>3 DEF Ran, StopRecorder, Unchunked, SoundIsOwn, Stable, Done
<1>7. ClaimsReady'
  BY <1>2, <1>3 DEF ClaimsReady, Settled, Done
<1>8. ASSUME client = "web" PROVE WebInv'
  <2>1. Flushing'
    BY <1>3 DEF Flushing
  <2>2. OneBusy' /\ Arrived' /\ OwnFile' /\ StartIsHeard'
    BY <1>2, <1>4, <1>8, <2>1
       DEF WebInv, OneBusy, Arrived, OwnFile, StartIsHeard, Busy, Starting
  <2>3. OnIsReached' /\ StopIsOver' /\ TakeIsOver'
    BY <1>2, <1>4, <1>8, <2>1 DEF WebInv, OnIsReached, StopIsOver, TakeIsOver
  <2>4. StopTake'
    BY <1>2, <1>3, <1>4, <1>8 DEF WebInv, StopTake, TakeIsOver, Settled, Done
  <2>5. OneStop'
    BY <1>2, <1>3 DEF pressStop, OneStop, Stopping
  <2> QED
    BY <2>2, <2>3, <2>4, <2>5 DEF WebInv
<1> QED
  BY <1>2, <1>5, <1>6, <1>7, <1>8

\* What an answered stop leaves: it is over, and the editor has its claim or as before.
LEMMA AnswerStep ==
  ASSUME CaptureInv, NEW s \in Takes, NEW file \in TakeOrNone, NEW c \in ClaimSet,
         opens(s, file, c)
  PROVE  /\ stops' \in [Takes -> StopSet] /\ stops'[s].stage = "over" /\ stops'[s].take = 0
         /\ \A r \in Takes \ {s} : stops'[r] = stops[r]
         /\ editor' \in EditorSet /\ (editor' = editor \/ editor'.claim = c)
<1>1. [NoStop EXCEPT !.stage = "over"] \in StopSet
      /\ [NoStop EXCEPT !.stage = "over"].stage = "over"
      /\ [NoStop EXCEPT !.stage = "over"].take = 0
  BY DEF NoStop, StopSet, TakeOrNone
<1> QED
  BY <1>1 DEF opens, CaptureInv, CaptureTypes, EditorSet

LEMMA NoClaimFits == NoClaim \in ClaimSet
BY DEF NoClaim, ClaimSet, TakeOrNone

LEMMA StopRecorderStep ==
  ASSUME CaptureInv, NEW s \in Takes, stopRecorder(s)
  PROVE  CaptureInv' /\ Stable /\ (editor' = editor \/ editor'.claim = NoClaim)
<1> USE DEF CaptureInv
<1>1. /\ stops[s].stage = "flush" /\ UNCHANGED <<client, start, handle, chunk, awaited, holds>>
      /\ page \in PageSet /\ stops \in [Takes -> StopSet]
      /\ tape \in [Takes -> {"off", "on", "stopping", "stopped"}]
      /\ editor \in EditorSet
  BY DEF stopRecorder, CaptureTypes
<1>2. CASE /\ page.recorder # 0
           /\ tape' = [tape EXCEPT ![page.recorder] = IF @ = "on" THEN "stopping" ELSE @]
           /\ stops' = [stops EXCEPT ![s].stage = "recorder", ![s].recorder = page.recorder]
           /\ page' = IF client = "web" THEN [page EXCEPT !.recorder = 0] ELSE page
           /\ UNCHANGED editor
  <2> DEFINE k == page.recorder
  <2>1. k \in Takes
    BY <1>1, <1>2 DEF PageSet, TakeOrNone
  <2>2. /\ stops' \in [Takes -> StopSet] /\ stops'[s].stage = "recorder"
        /\ stops'[s].take = stops[s].take /\ stops'[s].recorder = k
        /\ \A r \in Takes \ {s} : stops'[r] = stops[r]
    BY <1>1, <1>2, <2>1 DEF StopSet, TakeOrNone
  <2>3. page' \in PageSet /\ page'.isRecording = page.isRecording /\ page'.take = page.take
        /\ page'.isStarting = page.isStarting /\ page'.stopRequested = page.stopRequested
        /\ (client = "web" => page'.recorder = 0)
    BY <1>1, <1>2 DEF PageSet, TakeOrNone
  <2>4. \A j \in Takes : tape'[j] = IF j = k /\ tape[j] = "on" THEN "stopping" ELSE tape[j]
    BY <1>1, <1>2, <2>1
  <2>5. CaptureTypes'
    BY <1>1, <1>2, <2>1, <2>2, <2>3 DEF CaptureTypes
  <2>6. Ran' /\ StopRecorder' /\ Unchunked' /\ SoundIsOwn' /\ Stable
    BY <1>1, <2>1, <2>2, <2>4, TakesAreNumbers
       DEF Ran, StopRecorder, Unchunked, SoundIsOwn, Stable, Done
  <2>7. \A j \in Takes : Done(j) => Done(j)'
    BY <2>6 DEF Stable
  <2>8. ClaimsReady'
    BY <1>1, <2>2, <2>4, <2>7 DEF ClaimsReady, Settled, StopSet, TakeOrNone
  <2>9. ASSUME client = "web" PROVE WebInv'
    <3>1. tape[k] = "on" /\ \A j \in Takes : j # k => ~Busy(j)
      BY <2>1, <2>9 DEF WebInv, OnIsReached, OneBusy, Busy
    <3>2. \A j \in Takes : j # k => ~Busy(j)'
      BY <1>1, <2>4, <3>1 DEF Busy, Starting
    <3>3. start[k] = "over" /\ handle \in {0, k}
      BY <2>1, <2>9, <3>1 DEF Ran, WebInv, OwnFile, Busy
    <3>4. OneBusy' /\ Arrived' /\ OwnFile' /\ StartIsHeard'
      BY <1>1, <2>4, <2>9, <3>1, <3>2, <3>3
         DEF WebInv, OneBusy, Arrived, OwnFile, StartIsHeard, Busy, Starting
    <3>5. OnIsReached'
      BY <2>3, <2>4, <2>9, <3>1, TakesAreNumbers DEF WebInv, OnIsReached
    <3>6. StopIsOver' /\ OneStop'
      BY <1>1, <2>2, <2>3, <2>9 DEF WebInv, OneStop, StopIsOver, Stopping
    <3>7. TakeIsOver'
      BY <1>1, <2>3, <2>9, <3>6 DEF WebInv, TakeIsOver, StopIsOver, Stopping
    <3>8. StopTake'
      <4>1. \A r \in Takes \ {s} : stops[r].stage \notin {"flush", "recorder"}
        BY <1>1, <2>9 DEF WebInv, OneStop, Stopping
      <4>2. stops[s].take # 0 => Settled(stops[s].take, k)
        BY <1>1, <2>9 DEF WebInv, StopTake
      <4>3. stops[s].take # 0 => stops[s].take \in Takes
        BY <1>1 DEF StopSet, TakeOrNone
      <4>4. ASSUME stops[s].take # 0 PROVE Settled(stops[s].take, stops[s].recorder)'
        <5>1. PICK t \in Takes : t = stops[s].take
          BY <4>3, <4>4
        <5>2. t = k \/ Done(t)'
          BY <2>7, <4>2, <4>4, <5>1 DEF Settled
        <5> HIDE DEF k
        <5> QED
          BY <2>2, <5>1, <5>2 DEF Settled
      <4> QED
        BY <2>2, <4>1, <4>4 DEF StopTake, Settled
    <3> QED
      BY <3>4, <3>5, <3>6, <3>7, <3>8 DEF WebInv
  <2> QED
    BY <1>1, <1>2, <2>5, <2>6, <2>8, <2>9
<1>3. CASE /\ page.recorder = 0
           /\ opens(s, stops[s].shown, NoClaim)
           /\ page' = [page EXCEPT !.stopRequested = (client = "web" /\ page.isStarting)]
           /\ UNCHANGED tape
  <2>1. /\ stops' \in [Takes -> StopSet] /\ stops'[s].stage = "over" /\ stops'[s].take = 0
        /\ \A r \in Takes \ {s} : stops'[r] = stops[r]
        /\ editor' \in EditorSet /\ (editor' = editor \/ editor'.claim = NoClaim)
    <3>1. stops[s].shown \in TakeOrNone
      BY <1>1 DEF StopSet
    <3> QED
      BY <1>3, <3>1, AnswerStep, NoClaimFits
  <2>2. page' \in PageSet /\ page'.isRecording = page.isRecording /\ page'.take = page.take
        /\ page'.isStarting = page.isStarting /\ page'.recorder = 0
        /\ page'.stopRequested = (client = "web" /\ page.isStarting)
    BY <1>1, <1>3 DEF PageSet
  <2>3. CaptureTypes'
    BY <1>1, <1>3, <2>1, <2>2 DEF CaptureTypes
  <2>4. Ran' /\ StopRecorder' /\ Unchunked' /\ SoundIsOwn' /\ Stable
    BY <1>1, <1>3, <2>1 DEF Ran, StopRecorder, Unchunked, SoundIsOwn, Stable, Done
  <2>5. ClaimsReady'
    BY <1>1, <1>3, <2>1 DEF ClaimsReady, Settled, Done
  <2>6. ASSUME client = "web" PROVE WebInv'
    <3>1. OneBusy' /\ Arrived' /\ OwnFile'
      BY <1>1, <1>3, <2>6 DEF WebInv, OneBusy, Arrived, OwnFile, Busy, Starting
    <3>2. StartIsHeard'
      BY <1>1, <2>2, <2>6 DEF WebInv, StartIsHeard, Starting
    <3>3. OnIsReached'
      BY <1>3, <2>2, <2>6 DEF WebInv, OnIsReached
    <3>4. StopIsOver' /\ OneStop'
      BY <2>1, <2>2, <2>6 DEF WebInv, StopIsOver, OneStop, Stopping
    <3>5. TakeIsOver' /\ StopTake'
      BY <1>1, <1>3, <2>1, <2>2, <2>6 DEF WebInv, TakeIsOver, StopTake, Settled, Done
    <3> QED
      BY <3>1, <3>2, <3>3, <3>4, <3>5 DEF WebInv
  <2> QED
    BY <1>1, <2>1, <2>3, <2>4, <2>5, <2>6
<1> QED
  BY <1>2, <1>3 DEF stopRecorder

LEMMA RecorderStoppedStep ==
  ASSUME CaptureInv, NEW k \in Takes, recorderStopped(k)
  PROVE  CaptureInv' /\ Stable /\ editor' = editor
<1> USE DEF CaptureInv
<1>1. /\ tape[k] = "stopping" /\ tape' = [tape EXCEPT ![k] = "stopped"]
      /\ UNCHANGED <<client, page, start, stops, handle, awaited, editor>>
      /\ \A j \in Takes : j # k => chunk'[j] = chunk[j] /\ holds'[j] = holds[j]
      /\ chunk' \in [Takes -> {"none", "posted", "writing", "gone"}]
      /\ holds' \in [Takes -> TakeOrNone] /\ holds'[k] \in {holds[k], k}
      /\ client = "web" => chunk'[k] = "posted"
      /\ client = "electron" => chunk' = chunk
      /\ tape \in [Takes -> {"off", "on", "stopping", "stopped"}]
  BY DEF recorderStopped, CaptureTypes, TakeOrNone
<1>2. CaptureTypes'
  BY <1>1 DEF CaptureTypes
<1>3. Ran' /\ StopRecorder' /\ Unchunked' /\ SoundIsOwn' /\ Stable
  BY <1>1 DEF Ran, StopRecorder, Unchunked, SoundIsOwn, Stable, Done
<1>4. \A j \in Takes : Done(j) => Done(j)'
  BY <1>3 DEF Stable
<1>5. ClaimsReady'
  BY <1>1, <1>4 DEF ClaimsReady, Settled, CaptureTypes, StopSet, TakeOrNone
<1>6. ASSUME client = "web" PROVE WebInv'
  <2>1. Busy(k) /\ start[k] = "over" /\ chunk[k] = "none"
    BY <1>1, <1>6 DEF Busy, Ran, WebInv, Arrived
  <2>2. \A j \in Takes : j # k => ~Busy(j)
    BY <1>6, <2>1 DEF WebInv, OneBusy
  <2>3. \A j \in Takes : j # k => ~Busy(j)'
    BY <1>1, <2>2 DEF Busy, Starting
  <2>4. OneBusy' /\ Arrived' /\ OwnFile' /\ StartIsHeard'
    BY <1>1, <1>6, <2>1, <2>3
       DEF WebInv, OneBusy, Arrived, OwnFile, StartIsHeard, Busy, Starting
  <2>5. OnIsReached' /\ StopIsOver' /\ OneStop'
    BY <1>1, <1>6 DEF WebInv, OnIsReached, StopIsOver, OneStop, Stopping, Flushing
  <2>6. TakeIsOver' /\ StopTake'
    BY <1>1, <1>4, <1>6
       DEF WebInv, TakeIsOver, StopTake, Settled, CaptureTypes, StopSet, PageSet, TakeOrNone
  <2> QED
    BY <2>4, <2>5, <2>6 DEF WebInv
<1> QED
  BY <1>1, <1>2, <1>3, <1>5, <1>6

LEMMA ReceiveChunkStep ==
  ASSUME CaptureInv, NEW k \in Takes, receiveChunk(k)
  PROVE  CaptureInv' /\ Stable /\ editor' = editor
<1> USE DEF CaptureInv
<1>1. /\ chunk[k] = "posted" /\ awaited' = k
      /\ \E c \in {"gone", "writing"} : chunk' = [chunk EXCEPT ![k] = c]
      /\ UNCHANGED <<client, page, start, tape, stops, handle, holds, editor>>
      /\ chunk \in [Takes -> {"none", "posted", "writing", "gone"}]
  BY DEF receiveChunk, CaptureTypes
<1>2. CaptureTypes' /\ client = "web"
  BY <1>1 DEF CaptureTypes, Unchunked
<1>3. Ran' /\ StopRecorder' /\ Unchunked' /\ SoundIsOwn' /\ Stable
  BY <1>1, <1>2 DEF Ran, StopRecorder, Unchunked, SoundIsOwn, Stable, Done
<1>4. \A j \in Takes : Done(j) => Done(j)'
  BY <1>3 DEF Stable
<1>5. ClaimsReady'
  BY <1>1, <1>4 DEF ClaimsReady, Settled, CaptureTypes, StopSet, TakeOrNone
<1>6. Busy(k) /\ tape[k] = "stopped"
  BY <1>1, <1>2 DEF Busy, WebInv, Arrived
<1>7. \A j \in Takes : j # k => ~Busy(j)
  BY <1>2, <1>6 DEF WebInv, OneBusy
<1>8. \A j \in Takes : j # k => ~Busy(j)'
  BY <1>1, <1>7 DEF Busy, Starting
<1>9. OneBusy' /\ Arrived' /\ OwnFile' /\ StartIsHeard'
  <2>1. OneBusy' /\ Arrived'
    BY <1>1, <1>2, <1>6, <1>8 DEF WebInv, OneBusy, Arrived
  <2>2. (start[k] # "file" => handle \in {0, k}) /\ awaited' = k
    BY <1>1, <1>2, <1>6 DEF WebInv, OwnFile
  <2>3. \A j \in Takes : j # k => chunk'[j] # "writing"
    BY <1>8 DEF Busy
  <2>4. OwnFile'
    BY <1>1, <1>8, <2>2, <2>3 DEF OwnFile
  <2>5. StartIsHeard'
    BY <1>1, <1>2 DEF WebInv, StartIsHeard, Starting, Flushing
  <2> QED
    BY <2>1, <2>4, <2>5
<1>10. OnIsReached' /\ StopIsOver' /\ OneStop'
  BY <1>1, <1>2 DEF WebInv, OnIsReached, StopIsOver, OneStop, Stopping, Flushing
<1>11. TakeIsOver' /\ StopTake'
  BY <1>1, <1>2, <1>4
     DEF WebInv, TakeIsOver, StopTake, Settled, CaptureTypes, StopSet, PageSet, TakeOrNone
<1> QED
  BY <1>1, <1>2, <1>3, <1>5, <1>9, <1>10, <1>11 DEF WebInv

LEMMA WriteChunkStep ==
  ASSUME CaptureInv, NEW k \in Takes, writeChunk(k)
  PROVE  CaptureInv' /\ Stable /\ editor' = editor
<1> USE DEF CaptureInv
<1>1. /\ chunk[k] = "writing" /\ chunk' = [chunk EXCEPT ![k] = "gone"]
      /\ UNCHANGED <<client, page, start, tape, stops, awaited, editor>>
      /\ chunk \in [Takes -> {"none", "posted", "writing", "gone"}]
      /\ holds \in [Takes -> TakeOrNone] /\ handle \in TakeOrNone
  BY DEF writeChunk, CaptureTypes
<1>2. client = "web" /\ Busy(k)
  BY <1>1 DEF CaptureTypes, Unchunked, Busy
<1>3. tape[k] = "stopped" /\ start[k] = "over" /\ handle \in {0, k}
  BY <1>1, <1>2 DEF WebInv, Arrived, Ran, OwnFile
<1>4. handle' \in {handle, 0} /\ (holds' = holds \/ holds' = [holds EXCEPT ![k] = k])
  BY <1>1, <1>3 DEF writeChunk
<1>5. CaptureTypes'
  BY <1>1, <1>4 DEF CaptureTypes, TakeOrNone
<1>6. Ran' /\ StopRecorder' /\ Unchunked' /\ SoundIsOwn' /\ Stable
  BY <1>1, <1>2, <1>4 DEF Ran, StopRecorder, Unchunked, SoundIsOwn, Stable, Done
<1>7. \A j \in Takes : Done(j) => Done(j)'
  BY <1>6 DEF Stable
<1>8. ClaimsReady'
  BY <1>1, <1>7 DEF ClaimsReady, Settled, CaptureTypes, StopSet, TakeOrNone
<1>9. \A j \in Takes : j # k => ~Busy(j)
  BY <1>2 DEF WebInv, OneBusy
<1>10. \A j \in Takes : ~Busy(j)'
  BY <1>1, <1>3, <1>9 DEF Busy, Starting
<1>11. OneBusy' /\ Arrived' /\ OwnFile' /\ StartIsHeard'
  BY <1>1, <1>2, <1>3, <1>10 DEF WebInv, OneBusy, Arrived, OwnFile, StartIsHeard, Busy
<1>12. OnIsReached' /\ StopIsOver' /\ OneStop'
  BY <1>1, <1>2 DEF WebInv, OnIsReached, StopIsOver, OneStop, Stopping, Flushing
<1>13. TakeIsOver' /\ StopTake'
  BY <1>1, <1>2, <1>7
     DEF WebInv, TakeIsOver, StopTake, Settled, CaptureTypes, StopSet, PageSet, TakeOrNone
<1> QED
  BY <1>1, <1>2, <1>5, <1>6, <1>8, <1>11, <1>12, <1>13 DEF WebInv

\* A stop that ends without any other change of what is captured.
LEMMA AnsweredStep ==
  ASSUME CaptureInv, NEW s \in Takes, NEW file \in TakeOrNone, NEW c \in ClaimSet,
         stops[s].stage # "flush", opens(s, file, c),
         UNCHANGED <<client, page, start, tape, handle, chunk, awaited, holds>>
  PROVE  CaptureInv' /\ Stable /\ (editor' = editor \/ editor'.claim = c)
<1> USE DEF CaptureInv
<1>1. /\ stops' \in [Takes -> StopSet] /\ stops'[s].stage = "over" /\ stops'[s].take = 0
      /\ \A r \in Takes \ {s} : stops'[r] = stops[r]
      /\ editor' \in EditorSet /\ (editor' = editor \/ editor'.claim = c)
  BY AnswerStep
<1>2. CaptureTypes'
  BY <1>1 DEF CaptureTypes
<1>3. Ran' /\ StopRecorder' /\ Unchunked' /\ SoundIsOwn' /\ Stable /\ ClaimsReady'
  BY <1>1 DEF Ran, StopRecorder, Unchunked, SoundIsOwn, Stable, Done, ClaimsReady, Settled
<1>4. ASSUME client = "web" PROVE WebInv'
  <2>1. OneBusy' /\ Arrived' /\ OwnFile'
    BY <1>4 DEF WebInv, OneBusy, Arrived, OwnFile, Busy, Starting
  <2>2. Flushing => Flushing'
    BY <1>1, <1>4 DEF Flushing
  <2>3. StartIsHeard' /\ OnIsReached'
    BY <1>4, <2>2 DEF WebInv, StartIsHeard, OnIsReached, Starting
  <2>4. StopIsOver' /\ OneStop'
    BY <1>1, <1>4 DEF WebInv, StopIsOver, OneStop, Stopping
  <2>5. TakeIsOver' /\ StopTake'
    BY <1>1, <1>4 DEF WebInv, TakeIsOver, StopTake, Settled, Done
  <2> QED
    BY <2>1, <2>3, <2>4, <2>5 DEF WebInv
<1> QED
  BY <1>1, <1>2, <1>3, <1>4

LEMMA StoppedStep ==
  ASSUME CaptureInv, NEW s \in Takes, stopped(s)
  PROVE  CaptureInv' /\ Stable /\ (editor' = editor \/ editor'.claim = NoClaim)
<1> USE DEF CaptureInv
<1>1. /\ stops[s].stage = "recorder" /\ tape[stops[s].recorder] = "stopped"
      /\ UNCHANGED <<client, start, tape, handle, chunk, awaited, holds>>
      /\ page \in PageSet /\ stops \in [Takes -> StopSet] /\ client \in {"web", "electron"}
  BY DEF stopped, CaptureTypes
<1>2. stops[s].recorder \in Takes /\ stops[s].shown \in TakeOrNone
  BY <1>1 DEF StopRecorder, StopSet, TakeOrNone
<1>3. CASE client = "web" /\ stops[s].take = 0
  <2>1. opens(s, stops[s].shown, NoClaim) /\ UNCHANGED page
    BY <1>3 DEF stopped
  <2> QED
    BY <1>1, <1>2, <2>1, AnsweredStep, NoClaimFits
<1>4. CASE client = "web" /\ stops[s].take # 0
  <2>1. stops' = [stops EXCEPT ![s].stage = "claim"] /\ UNCHANGED <<page, editor>>
    BY <1>4 DEF stopped
  <2>2. /\ stops' \in [Takes -> StopSet] /\ stops'[s].stage = "claim"
        /\ stops'[s].take = stops[s].take /\ stops'[s].recorder = stops[s].recorder
        /\ \A r \in Takes \ {s} : stops'[r] = stops[r]
    BY <1>1, <2>1 DEF StopSet
  <2>3. CaptureTypes'
    BY <1>1, <2>1, <2>2 DEF CaptureTypes
  <2>4. Ran' /\ StopRecorder' /\ Unchunked' /\ SoundIsOwn' /\ Stable
    BY <1>1, <2>2 DEF Ran, StopRecorder, Unchunked, SoundIsOwn, Stable, Done
  <2>5. Settled(stops[s].take, stops[s].recorder)
    BY <1>1, <1>4 DEF WebInv, StopTake
  <2>6. ClaimsReady'
    BY <1>1, <1>2, <1>4, <2>2, <2>5, TakesAreNumbers DEF ClaimsReady, Settled, Done
  <2>7. OneBusy' /\ Arrived' /\ OwnFile' /\ StartIsHeard' /\ OnIsReached'
    <3>1. Flushing => Flushing'
      BY <1>1, <2>2 DEF Flushing
    <3> QED
      BY <1>1, <1>4, <2>1, <3>1
         DEF WebInv, OneBusy, Arrived, OwnFile, StartIsHeard, OnIsReached, Busy, Starting
  <2>8. StopIsOver' /\ OneStop'
    BY <1>1, <1>4, <2>1, <2>2 DEF WebInv, StopIsOver, OneStop, Stopping
  <2>9. TakeIsOver' /\ StopTake'
    BY <1>1, <1>4, <2>1, <2>2 DEF WebInv, TakeIsOver, StopTake, Settled, Done
  <2> QED
    BY <1>1, <2>1, <2>3, <2>4, <2>6, <2>7, <2>8, <2>9 DEF WebInv
<1>5. CASE client = "electron"
  <2>1. /\ stops' = [stops EXCEPT ![s].stage = "claim", ![s].take = stops[s].recorder,
                                  ![s].shown = stops[s].recorder]
        /\ page' = [page EXCEPT !.recorder = 0] /\ UNCHANGED editor
    BY <1>5 DEF stopped
  <2>2. /\ stops' \in [Takes -> StopSet] /\ stops'[s].stage = "claim"
        /\ stops'[s].take = stops[s].recorder /\ stops'[s].recorder = stops[s].recorder
        /\ \A r \in Takes \ {s} : stops'[r] = stops[r]
    BY <1>1, <1>2, <2>1 DEF StopSet, TakeOrNone
  <2>3. CaptureTypes'
    BY <1>1, <2>1, <2>2 DEF CaptureTypes, PageSet, TakeOrNone
  <2>4. Ran' /\ StopRecorder' /\ Unchunked' /\ SoundIsOwn' /\ Stable
    BY <1>1, <2>2 DEF Ran, StopRecorder, Unchunked, SoundIsOwn, Stable, Done
  <2>5. ClaimsReady'
    BY <1>1, <1>2, <2>2, TakesAreNumbers DEF ClaimsReady, Settled, Done
  <2> QED
    BY <1>1, <1>5, <2>1, <2>3, <2>4, <2>5
<1> QED
  BY <1>1, <1>3, <1>4, <1>5

\* A claim is signed when the take it is over is done.
LEMMA ClaimStep ==
  ASSUME CaptureInv, NEW s \in Takes, claim(s)
  PROVE  CaptureInv' /\ Stable /\ (editor' = editor \/ GoodClaim(editor.claim)')
<1>1. PICK c \in {NoClaim, [file |-> stops[s].take, sound |-> holds[stops[s].take]]} :
        opens(s, stops[s].shown, c)
  BY DEF claim
<1>2. /\ stops[s].stage = "claim" /\ stops[s].recorder # 0
      /\ UNCHANGED <<client, page, start, tape, handle, chunk, awaited, holds>>
      /\ stops[s] \in StopSet /\ stops[s].take # 0
      /\ Settled(stops[s].take, stops[s].recorder) /\ tape[stops[s].recorder] = "stopped"
      /\ holds \in [Takes -> TakeOrNone]
      /\ client \in {"web", "electron"}
      /\ chunk \in [Takes -> {"none", "posted", "writing", "gone"}]
  BY DEF claim, CaptureInv, CaptureTypes, ClaimsReady
<1>3. stops[s].take \in Takes /\ stops[s].recorder \in Takes /\ stops[s].shown \in TakeOrNone
  BY <1>2 DEF StopSet, TakeOrNone
<1>4. c \in ClaimSet
  BY <1>1, <1>2, <1>3 DEF ClaimSet, TakeOrNone, NoClaim
<1>5. CaptureInv' /\ Stable /\ (editor' = editor \/ editor'.claim = c)
  BY <1>1, <1>2, <1>3, <1>4, AnsweredStep
<1>6. Done(stops[s].take)
  <2> DEFINE k == stops[s].recorder
  <2>1. start[k] = "over" /\ tape[k] = "stopped"
    BY <1>2, <1>3 DEF CaptureInv, Ran
  <2>2. CASE client = "web"
    <3>1. chunk[k] # "posted" /\ (awaited # 0 => chunk[awaited] # "writing")
      BY <2>2 DEF claim, written
    <3>2. chunk[k] = "writing" => awaited = k
      BY <1>3, <2>2 DEF CaptureInv, WebInv, OwnFile
    <3> QED
      BY <1>2, <1>3, <2>1, <3>1, <3>2, TakesAreNumbers DEF Settled, Done
  <2>3. CASE client = "electron"
    BY <1>2, <1>3, <2>1, <2>3 DEF CaptureInv, Unchunked, Settled, Done
  <2> QED
    BY <1>2, <2>2, <2>3
<1>7. GoodClaim(c)
  BY <1>1, <1>3, <1>6 DEF GoodClaim
<1>8. editor'.claim = c => GoodClaim(editor.claim)'
  BY <1>2, <1>7 DEF GoodClaim, Done
<1> QED
  BY <1>5, <1>8

LEMMA CaptureRestStep ==
  ASSUME CaptureInv, UNCHANGED <<client, capture>>, editor' \in EditorSet
  PROVE  CaptureInv' /\ Stable
<1> USE DEF CaptureInv, capture
<1>1. CaptureTypes' /\ Ran' /\ ClaimsReady' /\ StopRecorder' /\ Unchunked' /\ SoundIsOwn'
  BY DEF CaptureTypes, Ran, ClaimsReady, StopRecorder, Unchunked, SoundIsOwn, Settled, Done
<1>2. WebInv => WebInv'
  BY DEF WebInv, OneStop, OneBusy, Arrived, StartIsHeard, OnIsReached, OwnFile, StopIsOver,
         TakeIsOver, StopTake, Settled, Done, Busy, Starting, Stopping, Flushing
<1> QED
  BY <1>1, <1>2 DEF Stable, Done

LEMMA DeleteTakeStep ==
  ASSUME CaptureInv, deleteTake
  PROVE  CaptureInv' /\ Stable /\ editor'.claim = editor.claim
<1> USE DEF CaptureInv
<1>1. /\ UNCHANGED <<client, page, start, tape, stops, handle, chunk, awaited>>
      /\ editor' = [editor EXCEPT !.open = FALSE, !.file = 0] /\ editor \in EditorSet
      /\ holds \in [Takes -> TakeOrNone]
      /\ holds' = holds \/ holds' = [holds EXCEPT ![editor.file] = 0]
  BY DEF deleteTake, CaptureTypes
<1>2. editor' \in EditorSet /\ editor'.claim = editor.claim
  BY <1>1 DEF EditorSet, TakeOrNone
<1>3. CaptureTypes'
  BY <1>1, <1>2 DEF CaptureTypes, TakeOrNone
<1>4. Ran' /\ ClaimsReady' /\ StopRecorder' /\ Unchunked' /\ SoundIsOwn'
  BY <1>1 DEF Ran, ClaimsReady, StopRecorder, Unchunked, SoundIsOwn, Settled, Done
<1>5. WebInv => WebInv'
  BY <1>1
     DEF WebInv, OneStop, OneBusy, Arrived, StartIsHeard, OnIsReached, OwnFile, StopIsOver,
         TakeIsOver, StopTake, Settled, Done, Busy, Starting, Stopping, Flushing
<1> QED
  BY <1>1, <1>2, <1>3, <1>4, <1>5 DEF Stable, Done

LEMMA ShowViewStep ==
  ASSUME CaptureInv, showView
  PROVE  CaptureInv' /\ Stable /\ editor'.claim = NoClaim
<1> USE DEF CaptureInv
<1>1. /\ UNCHANGED <<client, page, start, tape, handle, chunk, awaited, holds>>
      /\ editor' = Closed /\ stops \in [Takes -> StopSet]
      /\ stops' = [k \in Takes |-> IF Stopping(k) THEN [stops[k] EXCEPT !.here = FALSE]
                                   ELSE stops[k]]
  BY DEF showView, CaptureTypes
<1>2. editor' \in EditorSet /\ editor'.claim = NoClaim
  BY <1>1, NoClaimFits DEF EditorSet, Closed, TakeOrNone
<1>3. stops' \in [Takes -> StopSet]
      /\ \A s \in Takes : /\ stops'[s].stage = stops[s].stage /\ stops'[s].take = stops[s].take
                         /\ stops'[s].recorder = stops[s].recorder
  BY <1>1 DEF StopSet
<1>4. CaptureTypes'
  BY <1>1, <1>2, <1>3 DEF CaptureTypes
<1>5. Ran' /\ ClaimsReady' /\ StopRecorder' /\ Unchunked' /\ SoundIsOwn'
  BY <1>1, <1>3 DEF Ran, ClaimsReady, StopRecorder, Unchunked, SoundIsOwn, Settled, Done
<1>6. ASSUME WebInv PROVE WebInv'
  <2>1. OneBusy' /\ Arrived' /\ OwnFile' /\ TakeIsOver'
    BY <1>1, <1>6
       DEF WebInv, OneBusy, Arrived, OwnFile, TakeIsOver, Settled, Done, Busy, Starting
  <2>2. Flushing => Flushing'
    BY <1>3 DEF Flushing
  <2>3. StartIsHeard' /\ OnIsReached'
    BY <1>1, <1>6, <2>2 DEF WebInv, StartIsHeard, OnIsReached, Starting
  <2>4. StopIsOver' /\ OneStop'
    BY <1>1, <1>3, <1>6 DEF WebInv, StopIsOver, OneStop, Stopping
  <2>5. StopTake'
    BY <1>1, <1>3, <1>6 DEF WebInv, StopTake, Settled, Done
  <2> QED
    BY <2>1, <2>3, <2>4, <2>5 DEF WebInv
<1> QED
  BY <1>1, <1>2, <1>4, <1>5, <1>6 DEF Stable, Done

LEMMA ReloadStep ==
  ASSUME CaptureInv, reload
  PROVE  CaptureInv' /\ Stable /\ editor'.claim = NoClaim
<1> USE DEF CaptureInv
<1>1. /\ client = "web" /\ page' = Idle /\ handle' = 0 /\ editor' = Closed
      /\ start' = [k \in Takes |-> IF start[k] = "none" THEN "none" ELSE "over"]
      /\ tape' = [k \in Takes |-> IF tape[k] = "off" THEN "off" ELSE "stopped"]
      /\ stops' = [k \in Takes |-> IF stops[k].stage = "none" THEN NoStop
                                   ELSE [NoStop EXCEPT !.stage = "over"]]
      /\ chunk' = [k \in Takes |-> IF chunk[k] = "none" THEN "none" ELSE "gone"]
      /\ UNCHANGED <<client, holds>>
  BY DEF reload
<1>2. editor' \in EditorSet /\ editor'.claim = NoClaim
  BY <1>1, NoClaimFits DEF EditorSet, Closed, TakeOrNone
<1>3. NoStop \in StopSet /\ [NoStop EXCEPT !.stage = "over"] \in StopSet
      /\ NoStop.take = 0 /\ NoStop.stage = "none"
      /\ [NoStop EXCEPT !.stage = "over"].take = 0
      /\ [NoStop EXCEPT !.stage = "over"].stage = "over"
  BY DEF NoStop, StopSet, TakeOrNone
<1>4. /\ stops' \in [Takes -> StopSet]
      /\ \A s \in Takes : stops'[s].take = 0 /\ stops'[s].stage \in {"none", "over"}
  BY <1>1, <1>3
<1>5. page' \in PageSet /\ ~page'.isRecording /\ page'.recorder = 0 /\ page'.take = 0
  BY <1>1 DEF Idle, PageSet, TakeOrNone
<1>6. CaptureTypes'
  BY <1>1, <1>2, <1>4, <1>5 DEF CaptureTypes, TakeOrNone
<1>7. Ran' /\ ClaimsReady' /\ StopRecorder' /\ Unchunked' /\ SoundIsOwn'
  BY <1>1, <1>4 DEF Ran, ClaimsReady, StopRecorder, Unchunked, SoundIsOwn
<1>8. \A k \in Takes : Done(k) => Done(k)'
  BY <1>1 DEF Done
<1>9. \A k \in Takes : ~Busy(k)'
  BY <1>1 DEF Busy, Starting
<1>10. Arrived'
  BY <1>1 DEF WebInv, Arrived
<1>11. OneBusy' /\ OwnFile' /\ StartIsHeard' /\ OnIsReached'
  BY <1>5, <1>9, TakesAreNumbers DEF OneBusy, OwnFile, StartIsHeard, OnIsReached, Busy
<1>12. OneStop' /\ StopIsOver' /\ TakeIsOver' /\ StopTake'
  BY <1>4, <1>5 DEF OneStop, StopIsOver, TakeIsOver, StopTake, Stopping
<1> QED
  BY <1>1, <1>2, <1>6, <1>7, <1>8, <1>10, <1>11, <1>12 DEF Stable, WebInv

\* What a step does to the documents: one is saved from the editor, or all keep their file
\* and claim.
Saves ==
  \A d \in Docs :
    \/ docs'[d].file = docs[d].file /\ docs'[d].claim = docs[d].claim
    \/ docs'[d].file = editor.file /\ docs'[d].claim = editor.claim
\* ... and to what they list and to the queue.
Keeps ==
  /\ \A d \in pending : d \in pending' \/ docs'[d].blob = "stored"
  /\ \A d \in Docs : docs[d].listed \subseteq docs'[d].listed
LibraryStays == LibraryInv' /\ Saves /\ Keeps

LEMMA LibraryStart == RecorderInit => LibraryInv
<1> SUFFICES ASSUME RecorderInit PROVE LibraryInv
  OBVIOUS
<1>1. docs = [d \in Docs |-> Unsaved] /\ sending = [d \in Docs |-> 0] /\ pending = {}
  BY DEF RecorderInit
<1>2. Unsaved.blob = "none" /\ Unsaved.listed = {}
      /\ Unsaved = Document(Unsaved.file, Unsaved.claim, Unsaved.blob, Unsaved.listed)
  BY DEF Unsaved, Document
<1> QED
  BY <1>1, <1>2 DEF LibraryInv, LibraryTypes, DocsAreMapped

LEMMA LibraryRests == ASSUME LibraryInv, UNCHANGED library PROVE LibraryStays
BY DEF LibraryInv, LibraryTypes, DocsAreMapped, LibraryStays, Saves, Keeps, library

LEMMA StoresQueue ==
  ASSUME LibraryInv, NEW ds \in SUBSET Docs, stores(ds)
  PROVE  /\ sending' \in [Docs -> Nat] /\ pending' \subseteq Docs /\ pending \subseteq pending'
         /\ \A d \in Docs \ ds : sending'[d] = sending[d] /\ (d \in pending' => d \in pending)
<1>1. sending \in [Docs -> Nat] /\ pending \subseteq Docs
  BY DEF LibraryInv, LibraryTypes
<1>2. CASE endpoint'
  <2>1. sending' = [d \in Docs |-> sending[d] + (IF d \in ds THEN 1 ELSE 0)]
        /\ pending' = pending
    BY <1>2 DEF stores
  <2>2. \A d \in Docs : sending[d] + (IF d \in ds THEN 1 ELSE 0) \in Nat
    BY <1>1
  <2>3. \A d \in Docs \ ds : sending'[d] = sending[d]
    BY <1>1, <2>1
  <2> QED
    BY <1>1, <2>1, <2>2, <2>3
<1>3. CASE ~endpoint'
  BY <1>1, <1>3 DEF stores
<1> QED
  BY <1>2, <1>3

\* Trying the queue changes no document.
LEMMA QueueTried ==
  ASSUME LibraryInv, stores(pending) \/ UNCHANGED <<pending, sending>>, UNCHANGED docs
  PROVE  LibraryStays
<1>1. pending \in SUBSET Docs /\ sending \in [Docs -> Nat]
  BY DEF LibraryInv, LibraryTypes
<1>2. /\ sending' \in [Docs -> Nat] /\ pending' \subseteq Docs /\ pending \subseteq pending'
      /\ \A d \in Docs \ pending : sending'[d] = sending[d] /\ d \notin pending'
  BY <1>1, StoresQueue
<1>3. LibraryTypes'
  BY <1>2 DEF LibraryInv, LibraryTypes, DocsAreMapped
<1>4. \A d \in Docs : docs[d].file = 0 => sending'[d] = 0 /\ d \notin pending'
  BY <1>2 DEF LibraryInv
<1>5. LibraryInv'
  BY <1>3, <1>4 DEF LibraryInv
<1> QED
  BY <1>2, <1>5 DEF LibraryStays, Saves, Keeps

\* EXCEPT on the record of a document, a field or two at a time.
LEMMA DocumentChanges ==
  ASSUME NEW f, NEW c, NEW b, NEW l, NEW r, r = Document(f, c, b, l)
  PROVE  /\ \A m : [r EXCEPT !.listed = m] = Document(f, c, b, m)
         /\ \A m : [r EXCEPT !.blob = m] = Document(f, c, m, l)
         /\ \A m : [r EXCEPT !.file = m] = Document(m, c, b, l)
         /\ \A m : [r EXCEPT !.claim = m] = Document(f, m, b, l)
<1>1. \A m : [r EXCEPT !.listed = m] = Document(f, c, b, m)
  BY DEF Document
<1>2. \A m : [r EXCEPT !.blob = m] = Document(f, c, m, l)
  BY DEF Document
<1>3. \A m : [r EXCEPT !.file = m] = Document(m, c, b, l)
  BY DEF Document
<1>4. \A m : [r EXCEPT !.claim = m] = Document(f, m, b, l)
  BY DEF Document
<1> QED
  BY <1>1, <1>2, <1>3, <1>4

LEMMA DocumentSaved ==
  ASSUME NEW m, NEW n
  PROVE  [Unsaved EXCEPT !.file = m, !.claim = n] = Document(m, n, "none", {})
<1> DEFINE x == [Unsaved EXCEPT !.file = m]
<1>1. Unsaved = Document(0, NoClaim, "none", {})
  BY DEF Unsaved, Document
<1>2. x = Document(m, NoClaim, "none", {})
  BY <1>1, DocumentChanges
<1>3. [Unsaved EXCEPT !.file = m, !.claim = n] = [x EXCEPT !.claim = n]
  OBVIOUS
<1> HIDE DEF x
<1>4. [x EXCEPT !.claim = n] = Document(m, n, "none", {})
  BY <1>2, DocumentChanges
<1> QED
  BY <1>3, <1>4

\* One document is replaced by another.
LEMMA OneChanges ==
  ASSUME LibraryTypes, NEW d \in Docs, NEW f, NEW c, NEW b, NEW l,
         docs'[d] = Document(f, c, b, l), \A e \in Docs \ {d} : docs'[e] = docs[e]
  PROVE  /\ \A e \in Docs :
              docs'[e] = Document(docs'[e].file, docs'[e].claim, docs'[e].blob, docs'[e].listed)
         /\ docs'[d].file = f /\ docs'[d].claim = c /\ docs'[d].blob = b /\ docs'[d].listed = l
<1>1. docs'[d].file = f /\ docs'[d].claim = c /\ docs'[d].blob = b /\ docs'[d].listed = l
  BY DEF Document
<1>2. \A e \in Docs : docs[e] = Document(docs[e].file, docs[e].claim, docs[e].blob,
                                         docs[e].listed)
  BY DEF LibraryTypes
<1> QED
  BY <1>1, <1>2

LEMMA SavesDocument == ASSUME LibraryInv, createRecordingDocument PROVE LibraryStays
<1>1. PICK d \in Docs :
        /\ docs[d].file = 0 /\ stores({d})
        /\ docs' = [docs EXCEPT ![d] = [Unsaved EXCEPT !.file = editor.file,
                                                      !.claim = editor.claim]]
  BY DEF createRecordingDocument
<1>2. /\ sending' \in [Docs -> Nat] /\ pending' \subseteq Docs /\ pending \subseteq pending'
      /\ \A e \in Docs \ {d} : sending'[e] = sending[e] /\ (e \in pending' => e \in pending)
  BY <1>1, StoresQueue
<1>3. LibraryTypes /\ docs = [e \in Docs |-> docs[e]]
  BY DEF LibraryInv, LibraryTypes, DocsAreMapped
<1> DEFINE new == [Unsaved EXCEPT !.file = editor.file, !.claim = editor.claim]
<1>4. docs' = [docs EXCEPT ![d] = new] /\ new = Document(editor.file, editor.claim, "none", {})
  BY <1>1, DocumentSaved
<1> HIDE DEF new
<1>5. DocsAreMapped' /\ docs'[d] = Document(editor.file, editor.claim, "none", {})
      /\ \A e \in Docs \ {d} : docs'[e] = docs[e]
  BY <1>3, <1>4 DEF DocsAreMapped
<1>6. /\ \A e \in Docs :
           docs'[e] = Document(docs'[e].file, docs'[e].claim, docs'[e].blob, docs'[e].listed)
      /\ docs'[d].file = editor.file /\ docs'[d].claim = editor.claim
  BY <1>3, <1>5, OneChanges
<1>7. editor.file # 0
  BY DEF createRecordingDocument
<1>8. LibraryInv'
  BY <1>2, <1>5, <1>6, <1>7 DEF LibraryInv, LibraryTypes
<1> QED
  BY <1>1, <1>2, <1>5, <1>6, <1>8 DEF LibraryInv, LibraryStays, Saves, Keeps

LEMMA UploadLists == ASSUME LibraryInv, NEW d \in Docs, uploaded(d) PROVE LibraryStays
<1>1. PICK added : docs' = [docs EXCEPT ![d].blob = "stored", ![d].listed = relist(d, added)]
  BY DEF uploaded
<1>2. /\ sending[d] > 0 /\ sending' = [sending EXCEPT ![d] = @ - 1] /\ pending' = pending \ {d}
      /\ sending \in [Docs -> Nat] /\ pending \subseteq Docs
  BY DEF uploaded, LibraryInv, LibraryTypes
<1>3. sending' \in [Docs -> Nat] /\ \A e \in Docs \ {d} : sending'[e] = sending[e]
  BY <1>2
<1>4. /\ LibraryTypes /\ docs = [e \in Docs |-> docs[e]]
      /\ docs[d] = Document(docs[d].file, docs[d].claim, docs[d].blob, docs[d].listed)
  BY DEF LibraryInv, LibraryTypes, DocsAreMapped
<1> DEFINE old == docs[d]
           new == [old EXCEPT !.blob = "stored", !.listed = relist(d, added)]
<1>5. docs' = [docs EXCEPT ![d] = new] /\ old = Document(old.file, old.claim, old.blob, old.listed)
  BY <1>1, <1>4
<1> HIDE DEF old
<1>6. new = Document(old.file, old.claim, "stored", relist(d, added))
  <2> DEFINE x == [old EXCEPT !.blob = "stored"]
  <2>1. x = Document(old.file, old.claim, "stored", old.listed)
    BY <1>5, DocumentChanges
  <2>2. new = [x EXCEPT !.listed = relist(d, added)]
    OBVIOUS
  <2> HIDE DEF x
  <2> QED
    BY <2>1, <2>2, DocumentChanges
<1> HIDE DEF new
<1>7. DocsAreMapped' /\ docs'[d] = Document(old.file, old.claim, "stored", relist(d, added))
      /\ \A e \in Docs \ {d} : docs'[e] = docs[e]
  BY <1>4, <1>5, <1>6 DEF DocsAreMapped
<1>8. /\ \A e \in Docs :
           docs'[e] = Document(docs'[e].file, docs'[e].claim, docs'[e].blob, docs'[e].listed)
      /\ docs'[d].file = docs[d].file /\ docs'[d].claim = docs[d].claim
      /\ docs'[d].blob = "stored" /\ docs'[d].listed = relist(d, added)
  BY <1>4, <1>7, OneChanges DEF old
<1>9. docs[d].file # 0
  BY <1>2 DEF LibraryInv
<1>10. LibraryInv'
  BY <1>2, <1>3, <1>7, <1>8, <1>9 DEF LibraryInv, LibraryTypes
<1> QED
  BY <1>2, <1>7, <1>8, <1>10 DEF LibraryInv, LibraryStays, Saves, Keeps, relist

LEMMA FailureQueues == ASSUME LibraryInv, NEW d \in Docs, uploadFailed(d) PROVE LibraryStays
<1>1. /\ sending[d] > 0 /\ sending' = [sending EXCEPT ![d] = @ - 1]
      /\ pending' = pending \cup {d} /\ docs' = docs
      /\ sending \in [Docs -> Nat] /\ pending \subseteq Docs
  BY DEF uploadFailed, requeued, LibraryInv, LibraryTypes
<1>2. sending' \in [Docs -> Nat] /\ \A e \in Docs : e # d => sending'[e] = sending[e]
  BY <1>1
<1>3. docs[d].file # 0
  BY <1>1 DEF LibraryInv
<1> QED
  BY <1>1, <1>2, <1>3 DEF LibraryInv, LibraryTypes, DocsAreMapped, LibraryStays, Saves, Keeps

LEMMA HostLists == ASSUME LibraryInv, NEW d \in Docs, hostLists(d) PROVE LibraryStays
<1>1. /\ docs[d].blob = "stored" /\ docs' = [docs EXCEPT ![d].listed = @ \cup {"record"}]
      /\ UNCHANGED <<pending, sending>>
  BY DEF hostLists
<1>2. /\ LibraryTypes /\ docs = [e \in Docs |-> docs[e]]
      /\ docs[d] = Document(docs[d].file, docs[d].claim, docs[d].blob, docs[d].listed)
  BY DEF LibraryInv, LibraryTypes, DocsAreMapped
<1> DEFINE old == docs[d]
           added == old.listed \cup {"record"}
           new == [old EXCEPT !.listed = added]
<1>3. docs' = [docs EXCEPT ![d] = new] /\ old = Document(old.file, old.claim, old.blob, old.listed)
  BY <1>1, <1>2
<1> HIDE DEF old, added
<1>4. new = Document(old.file, old.claim, old.blob, added)
  BY <1>3, DocumentChanges
<1> HIDE DEF new
<1>5. DocsAreMapped' /\ docs'[d] = Document(old.file, old.claim, old.blob, added)
      /\ \A e \in Docs \ {d} : docs'[e] = docs[e]
  BY <1>2, <1>3, <1>4 DEF DocsAreMapped
<1>6. /\ \A e \in Docs :
           docs'[e] = Document(docs'[e].file, docs'[e].claim, docs'[e].blob, docs'[e].listed)
      /\ docs'[d].file = docs[d].file /\ docs'[d].claim = docs[d].claim
      /\ docs'[d].blob = docs[d].blob /\ docs[d].listed \subseteq docs'[d].listed
  <2>1. /\ \A e \in Docs :
             docs'[e] = Document(docs'[e].file, docs'[e].claim, docs'[e].blob, docs'[e].listed)
        /\ docs'[d].file = old.file /\ docs'[d].claim = old.claim
        /\ docs'[d].blob = old.blob /\ docs'[d].listed = added
    BY <1>2, <1>5, OneChanges
  <2> QED
    BY <2>1 DEF old, added
<1>7. docs[d].file # 0
  BY <1>1 DEF LibraryInv
<1>8. LibraryInv'
  BY <1>1, <1>5, <1>6, <1>7 DEF LibraryInv, LibraryTypes
<1> QED
  BY <1>1, <1>5, <1>6, <1>8 DEF LibraryInv, LibraryStays, Saves, Keeps

LEMMA ReloadTries == ASSUME LibraryInv, reload PROVE LibraryStays
<1>1. sending' = [d \in Docs |-> IF endpoint' /\ d \in pending THEN 1 ELSE 0]
      /\ UNCHANGED <<docs, pending>>
  BY DEF reload
<1> QED
  BY <1>1 DEF LibraryInv, LibraryTypes, DocsAreMapped, LibraryStays, Saves, Keeps

LEMMA LibraryStep == ASSUME LibraryInv, [RecorderNext]_recorderVars PROVE LibraryStays
<1>1. CASE UNCHANGED library
  BY <1>1, LibraryRests
<1>2. CASE createRecordingDocument
  BY <1>2, SavesDocument
<1>3. CASE \E d \in Docs : uploaded(d) \/ uploadFailed(d) \/ hostLists(d)
  BY <1>3, UploadLists, FailureQueues, HostLists
<1>4. CASE endpointChanges
  BY <1>4, QueueTried DEF endpointChanges
<1>5. CASE showView
  BY <1>5, QueueTried DEF showView
<1>6. CASE reload
  BY <1>6, ReloadTries
<1>7. pressStart \/ pressStop \/ Capture \/ deleteTake \/ UNCHANGED recorderVars => UNCHANGED library
  BY DEF pressStart, pressStop, Capture, openFile, openMicrophone, spawnSox, stopRecorder,
         recorderStopped, receiveChunk, writeChunk, stopped, claim, deleteTake, recorderVars
<1> QED
  BY <1>1, <1>2, <1>3, <1>4, <1>5, <1>6, <1>7 DEF RecorderNext

\* What a step does to the claim the editor holds.
EditorStays == editor'.claim = editor.claim \/ GoodClaim(editor.claim)'

LEMMA ClaimsStep ==
  ASSUME CaptureInv, ClaimsInv, Stable, Saves, EditorStays PROVE ClaimsInv'
<1>1. ASSUME NEW c, GoodClaim(c)
      PROVE  c = NoClaim \/ (c.file \in Takes /\ Done(c.file)' /\ holds'[c.file] \in {c.sound, 0})
  <2>1. CASE c = NoClaim
    BY <2>1
  <2>2. CASE c # NoClaim
    <3>1. PICK k \in Takes : k = c.file /\ Done(k) /\ holds[k] \in {c.sound, 0}
      BY <1>1, <2>2 DEF GoodClaim
    <3> QED
      BY <3>1 DEF Stable, Done
  <2> QED
    BY <2>1, <2>2
<1>2. ASSUME NEW c, GoodClaim(c) PROVE GoodClaim(c)'
  BY <1>1, <1>2 DEF GoodClaim, Done
<1>3. GoodClaim(editor.claim)'
  BY <1>1, <1>2 DEF ClaimsInv, EditorStays, GoodClaim, Done
<1>4. ASSUME NEW d \in Docs PROVE docs'[d].file \in TakeOrNone /\ GoodClaim(docs[d].claim)'
  BY <1>1 DEF ClaimsInv, Saves, GoodClaim, Done, CaptureInv, CaptureTypes, EditorSet
<1> QED
  BY <1>3, <1>4 DEF ClaimsInv

LEMMA SameClaim ==
  ASSUME editor' = editor \/ editor'.claim = editor.claim \/ editor'.claim = NoClaim
  PROVE  EditorStays
BY DEF EditorStays, GoodClaim

LEMMA CaptureStep ==
  ASSUME Patient, CaptureInv, [RecorderNext]_recorderVars
  PROVE  CaptureInv' /\ Stable /\ EditorStays
<1>1. CASE pressStart
  <2>1. UNCHANGED editor
    BY <1>1 DEF pressStart
  <2> QED
    BY <1>1, <2>1, PressStartStep, SameClaim
<1>2. CASE pressStop
  BY <1>2, PressStopStep, SameClaim
<1>3. ASSUME NEW k \in Takes,
             \/ openFile(k) \/ openMicrophone(k) \/ spawnSox(k)
             \/ recorderStopped(k) \/ receiveChunk(k) \/ writeChunk(k)
      PROVE  CaptureInv' /\ Stable /\ EditorStays
  BY <1>3, OpenFileStep, OpenMicrophoneStep, SpawnSoxStep, RecorderStoppedStep,
     ReceiveChunkStep, WriteChunkStep, SameClaim
<1>4. ASSUME NEW s \in Takes, stopRecorder(s) \/ stopped(s)
      PROVE  CaptureInv' /\ Stable /\ EditorStays
  BY <1>4, StopRecorderStep, StoppedStep, SameClaim
<1>5. ASSUME NEW s \in Takes, claim(s) PROVE CaptureInv' /\ Stable /\ EditorStays
  BY <1>5, ClaimStep, SameClaim DEF EditorStays
<1>6. CASE deleteTake
  BY <1>6, DeleteTakeStep, SameClaim
<1>7. CASE showView
  BY <1>7, ShowViewStep, SameClaim
<1>8. CASE reload
  BY <1>8, ReloadStep, SameClaim
<1>9. editor \in EditorSet
  BY DEF CaptureInv, CaptureTypes
<1>10. CASE createRecordingDocument
  <2>1. editor' \in EditorSet /\ editor'.claim = editor.claim /\ UNCHANGED <<client, capture>>
    BY <1>9, <1>10 DEF createRecordingDocument, EditorSet
  <2> QED
    BY <2>1, CaptureRestStep, SameClaim
<1>11. CASE \/ \E d \in Docs : uploaded(d) \/ uploadFailed(d) \/ hostLists(d)
            \/ endpointChanges \/ UNCHANGED recorderVars
  <2>1. UNCHANGED <<client, capture, editor>>
    BY <1>11 DEF uploaded, uploadFailed, hostLists, endpointChanges, recorderVars
  <2> QED
    BY <1>9, <2>1, CaptureRestStep, SameClaim
<1> QED
  BY <1>1, <1>2, <1>3, <1>4, <1>5, <1>6, <1>7, <1>8, <1>10, <1>11 DEF RecorderNext, Capture

LEMMA LibraryHolds == RecorderSpec => []LibraryInv
<1>1. LibraryInv /\ [RecorderNext]_recorderVars => LibraryInv'
  BY LibraryStep DEF LibraryStays
<1> QED
  BY <1>1, LibraryStart, PTL DEF RecorderSpec

LEMMA RecorderHolds == ASSUME Patient PROVE RecorderSpec => []RecorderInv
<1>1. RecorderInit => RecorderInv
  <2>1. RecorderInit => ClaimsInv
    BY DEF RecorderInit, ClaimsInv, GoodClaim, Closed, Unsaved, TakeOrNone
  <2> QED
    BY <2>1, CaptureStart, LibraryStart DEF RecorderInv
<1>2. RecorderInv /\ [RecorderNext]_recorderVars => RecorderInv'
  BY CaptureStep, LibraryStep, ClaimsStep DEF RecorderInv, LibraryStays
<1> QED
  BY <1>1, <1>2, PTL DEF RecorderSpec

\* A claim is signed over the finished file, however late its chunk was (recorder:claim
\* of worker.ts), and no later take writes to that file.
THEOREM TheClaimsAreTrue == ASSUME Patient PROVE RecorderSpec => []ClaimsAreTrue
<1>1. RecorderInv => ClaimsAreTrue
  BY DEF RecorderInv, ClaimsInv, GoodClaim, ClaimsAreTrue, StillCovers
<1> QED
  BY <1>1, RecorderHolds, PTL

\* A saved recording has its own sound or lost it (RecordingContext.tsx).
THEOREM TheSoundIsOwn == ASSUME Patient PROVE RecorderSpec => []OwnSound
<1>1. RecorderInv => OwnSound
  BY DEF RecorderInv, ClaimsInv, CaptureInv, SoundIsOwn, OwnSound, TakeOrNone
<1> QED
  BY <1>1, RecorderHolds, PTL

\* Whatever is pressed when, a queued upload leaves the queue only when its document has
\* the audio (blobUpload.ts).
THEOREM TheQueueKeeps == RecorderSpec => QueuedUntilStored
<1>1. LibraryInv /\ [RecorderNext]_recorderVars => [\A d \in pending : d \in pending' \/ docs'[d].blob = "stored"]_recorderVars
  BY LibraryStep DEF LibraryStays, Keeps
<1> QED
  BY <1>1, LibraryHolds, PTL DEF RecorderSpec, QueuedUntilStored

\* A retried upload drops nothing a document lists (Recorder.tsx).
THEOREM TheListStays == RecorderSpec => ListedStays
<1>1. LibraryInv /\ [RecorderNext]_recorderVars => [\A d \in Docs : docs[d].listed \subseteq docs'[d].listed]_recorderVars
  BY LibraryStep DEF LibraryStays, Keeps
<1> QED
  BY <1>1, LibraryHolds, PTL DEF RecorderSpec, ListedStays
=============================================================================
