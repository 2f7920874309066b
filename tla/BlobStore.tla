------------------------------- MODULE BlobStore -------------------------------
(***************************************************************************)
(* The host's content-addressed blob store (blobStore.ts), the requests    *)
(* that use it (blobHttp.ts and the electron channels), and the mark and   *)
(* sweep collector that runs over it once per launch (blobGc.ts).          *)
(*                                                                         *)
(* Only the refs file of a hash is guarded by the store's per-hash lock.   *)
(* The check whether an object is present, the rename that places it and   *)
(* the write of its meta file are not: each is a step of its own here.     *)
(***************************************************************************)
EXTENDS Naturals, FiniteSets

CONSTANTS
    Hashes,        \* content addresses
    Recordings,    \* recording documents
    Roots,         \* root documents this host has in storage
    Announced,     \* the roots the renderer announced: the collector's seeds
    Uploads,       \* slots for ingests under way
    Releases,      \* slots for releases under way
    Collector,     \* the collector, as a holder of locks
    Free,          \* a lock nobody holds
    Grace,         \* DEFAULT_GRACE_MS
    MaxTime,       \* bound: how far the clock runs
    Hazards        \* overlaps and failures to allow, see below

(***************************************************************************)
(* releaseRace     a release runs while the same hash is being ingested    *)
(* gcRace          a hash is ingested while a collection that listed it is *)
(*                 still sweeping                                          *)
(* oldObject       an ingest dedupes onto an object stored earlier         *)
(* unresolvedRoot  a root that was not announced fails to load             *)
(***************************************************************************)
HazardKinds == {"releaseRace", "gcRace", "oldObject", "unresolvedRoot"}

ASSUME BlobAssumption ==
    /\ Announced \subseteq Roots
    /\ Grace \in Nat \ {0}
    /\ MaxTime \in Nat
    /\ Hazards \subseteq HazardKinds

\* Who holds a lock can be told apart, and from nobody.
ASSUME HolderAssumption ==
    /\ Uploads \cap Releases = {}
    /\ {Collector, Free} \cap (Uploads \cup Releases) = {}
    /\ Collector # Free

Owners == Recordings \cup Roots
Files  == {"object", "meta", "refs"}

VARIABLES
    object,     \* hashes with an object file
    meta,       \* hashes with a meta file
    refs,       \* refs[h]: owners in the refs file
    ctime,      \* ctime[h]: when the object was placed
    lock,       \* lock[h]: who holds the per-hash lock
    up,         \* up[u]: the ingest in slot u
    rel,        \* rel[r]: the release in slot r
    gc,         \* the collection
    swept,      \* sweptThisLaunch
    listed,     \* listed[r]: recordings in root r, as synced to this host
    links,      \* links[d]: audio and statement hashes recording d names
    statements, \* hashes whose bytes are a signed statement; never changes
    now,
    promised    \* ghost: ingests answered with success, and when

store == <<object, meta, refs, ctime>>
graph == <<listed, links, statements>>
vars  == <<store, lock, up, rel, gc, swept, graph, now, promised>>

NoUpload  == [pc |-> "idle"]
NoRelease == [pc |-> "idle"]
NoGc      == [pc |-> "idle"]

\* An ingest is past its presence check and not yet answered.
Ingesting(h)  == \E u \in Uploads : up[u].pc # "idle" /\ up[u].hash = h
Releasing(h)  == \E r \in Releases : rel[r].pc = "unlink" /\ rel[r].hash = h
Collecting(h) == gc.pc # "idle" /\ h \in gc.todo

InSomeRoot(d) == \E r \in Roots : d \in listed[r]

\* What the documents keep: audio while a listed recording names it, a statement
\* while its owner is a root or a listed recording, named there or not.
Kept(o, h) ==
    IF h \in statements THEN o \in Roots \/ InSomeRoot(o)
                        ELSE o \in Recordings /\ InSomeRoot(o) /\ h \in links[o]

-----------------------------------------------------------------------------
Init ==
    /\ object = {}
    /\ meta = {}
    /\ refs = [h \in Hashes |-> {}]
    /\ ctime = [h \in Hashes |-> 0]
    /\ lock = [h \in Hashes |-> Free]
    /\ up = [u \in Uploads |-> NoUpload]
    /\ rel = [r \in Releases |-> NoRelease]
    /\ gc = NoGc
    /\ swept = FALSE
    /\ listed = [r \in Roots |-> {}]
    /\ links = [d \in Recordings |-> {}]
    /\ statements \in SUBSET Hashes
    /\ now = 0
    /\ promised = {}

(***************************************************************************)
(* The rest of the world: time, and the documents as this host sees them.  *)
(***************************************************************************)
\* Bound: an ingest ends on the day it began.  A promise lapses with the grace
\* period when the document that should name the bytes has not arrived.
Tick ==
    /\ now < MaxTime
    /\ \A u \in Uploads : up[u].pc = "idle"
    /\ now' = now + 1
    /\ promised' = {p \in promised :
                       now' - p.at < Grace \/ Kept(p.owner, p.hash)}
    /\ UNCHANGED <<store, lock, up, rel, gc, swept, graph>>

ListRecording(r, d) ==
    /\ d \notin listed[r]
    /\ listed' = [listed EXCEPT ![r] = @ \cup {d}]
    /\ UNCHANGED <<store, lock, up, rel, gc, swept, links, statements, now, promised>>

\* A recording is deleted, possibly by a peer that releases nothing.
UnlistRecording(d) ==
    /\ InSomeRoot(d)
    /\ listed' = [r \in Roots |-> listed[r] \ {d}]
    /\ promised' = {p \in promised : p.owner # d}
    /\ UNCHANGED <<store, lock, up, rel, gc, swept, links, statements, now>>

\* The device that uploaded writes the hash it was answered into its document.
LinkBlob(d, h) ==
    /\ \E p \in promised : p.owner = d /\ p.hash = h
    /\ h \notin links[d]
    /\ links' = [links EXCEPT ![d] = @ \cup {h}]
    /\ UNCHANGED <<store, lock, up, rel, gc, swept, listed, statements, now, promised>>

\* Any peer can edit a recording's statements list.
DropStatement(d, h) ==
    /\ h \in links[d] \cap statements
    /\ links' = [links EXCEPT ![d] = @ \ {h}]
    /\ UNCHANGED <<store, lock, up, rel, gc, swept, listed, statements, now, promised>>

-----------------------------------------------------------------------------
(***************************************************************************)
(* ingestStream and ingestFile, from the presence check on.  What comes    *)
(* before only touches a scratch file.                                     *)
(***************************************************************************)
\* has(hash), outside the lock, decides which way the ingest goes.
UploadCheck(u, d, h) ==
    /\ up[u].pc = "idle"
    /\ d \in Roots => h \in statements
    /\ "releaseRace" \in Hazards \/ ~Releasing(h)
    /\ "gcRace" \in Hazards \/ ~Collecting(h)
    /\ "oldObject" \in Hazards \/ h \notin object \/ ctime[h] = now
    /\ up' = [up EXCEPT ![u] = [pc |-> IF h \in object THEN "ref" ELSE "place",
                                owner |-> d, hash |-> h,
                                deduped |-> h \in object, read |-> {}]]
    /\ UNCHANGED <<store, lock, rel, gc, swept, graph, now, promised>>

\* A stream (or a copied file) is renamed over whatever is there; a file is
\* linked, and EEXIST leaves the object that is there as it is.
UploadPlace(u) ==
    LET h == up[u].hash
    IN /\ up[u].pc = "place"
       /\ object' = object \cup {h}
       /\ \/ ctime' = [ctime EXCEPT ![h] = now]
          \/ h \in object /\ UNCHANGED ctime
       /\ up' = [up EXCEPT ![u].pc = "meta"]
       /\ UNCHANGED <<meta, refs, lock, rel, gc, swept, graph, now, promised>>

UploadMeta(u) ==
    /\ up[u].pc = "meta"
    /\ meta' = meta \cup {up[u].hash}
    /\ up' = [up EXCEPT ![u].pc = "ref"]
    /\ UNCHANGED <<object, refs, ctime, lock, rel, gc, swept, graph, now, promised>>

\* Mutant: addRef reads the refs file without waiting for the lock.
UploadReadRefs_Unlocked(u) ==
    LET h == up[u].hash
    IN /\ up[u].pc = "ref"
       /\ lock' = [lock EXCEPT ![h] = u]
       /\ up' = [up EXCEPT ![u].pc = "addref", ![u].read = refs[h]]
       /\ UNCHANGED <<store, rel, gc, swept, graph, now, promised>>

\* addRef: take the lock and read the refs file, then write it and let go.
UploadReadRefs(u) ==
    LET h == up[u].hash
    IN /\ up[u].pc = "ref"
       /\ lock[h] = Free
       /\ lock' = [lock EXCEPT ![h] = u]
       /\ up' = [up EXCEPT ![u].pc = "addref", ![u].read = refs[h]]
       /\ UNCHANGED <<store, rel, gc, swept, graph, now, promised>>

Answer(u) ==
    promised' = promised \cup {[owner |-> up[u].owner, hash |-> up[u].hash, at |-> now]}

UploadAddRef(u) ==
    LET h == up[u].hash
    IN /\ up[u].pc = "addref"
       /\ refs' = [refs EXCEPT ![h] = up[u].read \cup {up[u].owner}]
       /\ lock' = [lock EXCEPT ![h] = Free]
       /\ IF up[u].deduped
            THEN /\ up' = [up EXCEPT ![u].pc = "stat"]
                 /\ UNCHANGED promised
            ELSE /\ up' = [up EXCEPT ![u] = NoUpload]
                 /\ Answer(u)
       /\ UNCHANGED <<object, meta, ctime, rel, gc, swept, graph, now>>

\* The deduped ingest reads the meta it will answer with, or writes one.
UploadStat(u) ==
    /\ up[u].pc = "stat"
    /\ meta' = IF up[u].hash \in object \cap meta THEN meta
                                                  ELSE meta \cup {up[u].hash}
    /\ up' = [up EXCEPT ![u] = NoUpload]
    /\ Answer(u)
    /\ UNCHANGED <<object, refs, ctime, lock, rel, gc, swept, graph, now>>

\* Mutant: a failing ingest keeps the lock.
UploadFails_Locked(u) ==
    /\ up[u].pc # "idle"
    /\ up' = [up EXCEPT ![u] = NoUpload]
    /\ UNCHANGED <<store, lock, rel, gc, swept, graph, now, promised>>

\* An I/O error anywhere: the request fails, the lock chain goes on.
UploadFails(u) ==
    /\ up[u].pc # "idle"
    /\ lock' = [h \in Hashes |-> IF lock[h] = u THEN Free ELSE lock[h]]
    /\ up' = [up EXCEPT ![u] = NoUpload]
    /\ UNCHANGED <<store, rel, gc, swept, graph, now, promised>>

-----------------------------------------------------------------------------
(***************************************************************************)
(* releaseRef, for DELETE /blobs and for the delete channel.               *)
(***************************************************************************)
ReleaseReadRefs(r, d, h) ==
    /\ rel[r].pc = "idle"
    /\ lock[h] = Free
    /\ "releaseRace" \in Hazards \/ ~Ingesting(h)
    /\ \/ /\ d \notin refs[h] /\ refs[h] # {}     \* not an owner: ignored
          /\ UNCHANGED <<rel, lock>>
       \/ /\ d \in refs[h] /\ refs[h] # {d}
          /\ rel' = [rel EXCEPT ![r] = [pc |-> "write", hash |-> h,
                                        left |-> refs[h] \ {d}, todo |-> {}]]
          /\ lock' = [lock EXCEPT ![h] = r]
       \/ /\ refs[h] \subseteq {d}
          /\ rel' = [rel EXCEPT ![r] = [pc |-> "unlink", hash |-> h,
                                        left |-> {}, todo |-> Files]]
          /\ lock' = [lock EXCEPT ![h] = r]
    /\ promised' = {p \in promised : p.owner # d \/ p.hash # h}
    /\ UNCHANGED <<store, up, gc, swept, graph, now>>

ReleaseWrite(r) ==
    LET h == rel[r].hash
    IN /\ rel[r].pc = "write"
       /\ refs' = [refs EXCEPT ![h] = rel[r].left]
       /\ lock' = [lock EXCEPT ![h] = Free]
       /\ rel' = [rel EXCEPT ![r] = NoRelease]
       /\ UNCHANGED <<object, meta, ctime, up, gc, swept, graph, now, promised>>

\* unlinkAll removes the files of h in no particular order.
Unlink(h, f) ==
    /\ object' = IF f = "object" THEN object \ {h} ELSE object
    /\ meta' = IF f = "meta" THEN meta \ {h} ELSE meta
    /\ refs' = IF f = "refs" THEN [refs EXCEPT ![h] = {}] ELSE refs
    /\ UNCHANGED ctime

ReleaseUnlink(r, f) ==
    LET h == rel[r].hash
    IN /\ rel[r].pc = "unlink"
       /\ f \in rel[r].todo
       /\ Unlink(h, f)
       /\ IF rel[r].todo = {f}
            THEN /\ rel' = [rel EXCEPT ![r] = NoRelease]
                 /\ lock' = [lock EXCEPT ![h] = Free]
            ELSE /\ rel' = [rel EXCEPT ![r].todo = @ \ {f}]
                 /\ UNCHANGED lock
       /\ UNCHANGED <<up, gc, swept, graph, now, promised>>

\* An I/O error: some of the files may be gone already, the lock goes on.
ReleaseFails(r) ==
    /\ rel[r].pc # "idle"
    /\ lock' = [h \in Hashes |-> IF lock[h] = r THEN Free ELSE lock[h]]
    /\ rel' = [rel EXCEPT ![r] = NoRelease]
    /\ UNCHANGED <<store, up, gc, swept, graph, now, promised>>

-----------------------------------------------------------------------------
(***************************************************************************)
(* collectOrphanedBlobs, once per launch.                                  *)
(***************************************************************************)
\* listObjects: every object with the time it was placed.
listObjects == [h \in object |-> ctime[h]]

GcList ==
    /\ gc.pc = "idle"
    /\ ~swept
    /\ swept' = TRUE
    /\ gc' = [pc |-> "roots", todo |-> DOMAIN listObjects,
              young |-> {h \in DOMAIN listObjects : now - listObjects[h] < Grace},
              roots |-> {}, recordings |-> {}, live |-> {}, hash |-> Free,
              files |-> {}]
    /\ UNCHANGED <<store, lock, up, rel, graph, now, promised>>

\* Abandoned: an announced root or a recording does not resolve, or no root is
\* found while there are objects.
GcAbort ==
    /\ gc.pc \in {"roots", "recordings"}
    /\ gc' = NoGc
    /\ UNCHANGED <<store, lock, up, rel, swept, graph, now, promised>>

\* A root that was not announced and does not resolve is passed over.
GcRoots ==
    /\ gc.pc = "roots"
    /\ \E R \in SUBSET Roots :
          /\ Announced \subseteq R
          /\ R # Roots => "unresolvedRoot" \in Hazards
          /\ R # {} \/ gc.todo = {}
          /\ gc' = [gc EXCEPT !.pc = "recordings", !.roots = R,
                              !.recordings = UNION {listed[r] : r \in R}]
    /\ UNCHANGED <<store, lock, up, rel, swept, graph, now, promised>>

\* Mutant: only statements are marked, not the audio.
GcRecordings_StatementsOnly ==
    /\ gc.pc = "recordings"
    /\ gc' = [gc EXCEPT !.pc = "sweep",
                        !.live = UNION {links[d] \cap statements : d \in gc.recordings}]
    /\ UNCHANGED <<store, lock, up, rel, swept, graph, now, promised>>

GcRecordings ==
    /\ gc.pc = "recordings"
    /\ gc' = [gc EXCEPT !.pc = "sweep",
                        !.live = UNION {links[d] : d \in gc.recordings}]
    /\ UNCHANGED <<store, lock, up, rel, swept, graph, now, promised>>

\* Mutant: a statement counts as owned only through a root document.
OwnedStatement_RootsOnly(h) ==
    h \in statements \cap object \cap meta /\ refs[h] \cap gc.roots # {}

\* isOwnedStatement: a statement whose owner is still in a root document.
OwnedStatement(h) ==
    h \in statements \cap object \cap meta /\ refs[h] \cap (gc.recordings \cup gc.roots) # {}

GcSkip(h) ==
    /\ gc.pc = "sweep"
    /\ h \in gc.todo
    /\ h \in gc.live \/ h \in gc.young \/ OwnedStatement(h)
    /\ gc' = [gc EXCEPT !.todo = @ \ {h}]
    /\ UNCHANGED <<store, lock, up, rel, swept, graph, now, promised>>

\* store.remove takes the lock.
GcCondemn(h) ==
    /\ gc.pc = "sweep"
    /\ h \in gc.todo
    /\ h \notin gc.live /\ h \notin gc.young /\ ~OwnedStatement(h)
    /\ gc' = [gc EXCEPT !.pc = "remove", !.hash = h]
    /\ UNCHANGED <<store, lock, up, rel, swept, graph, now, promised>>

GcLock ==
    /\ gc.pc = "remove"
    /\ lock[gc.hash] = Free
    /\ lock' = [lock EXCEPT ![gc.hash] = Collector]
    /\ gc' = [gc EXCEPT !.pc = "unlink", !.files = Files]
    /\ UNCHANGED <<store, up, rel, swept, graph, now, promised>>

GcUnlink(f) ==
    /\ gc.pc = "unlink"
    /\ f \in gc.files
    /\ Unlink(gc.hash, f)
    /\ IF gc.files = {f}
         THEN /\ gc' = [gc EXCEPT !.pc = "sweep", !.todo = @ \ {gc.hash}, !.files = {}]
              /\ lock' = [lock EXCEPT ![gc.hash] = Free]
         ELSE /\ gc' = [gc EXCEPT !.files = @ \ {f}]
              /\ UNCHANGED lock
    /\ UNCHANGED <<up, rel, swept, graph, now, promised>>

GcDone ==
    /\ gc.pc = "sweep"
    /\ gc.todo = {}
    /\ gc' = NoGc
    /\ UNCHANGED <<store, lock, up, rel, swept, graph, now, promised>>

\* store.remove throws, and with it the whole collection ends.
GcFails ==
    /\ gc.pc = "unlink"
    /\ lock' = [lock EXCEPT ![gc.hash] = Free]
    /\ gc' = NoGc
    /\ UNCHANGED <<store, up, rel, swept, graph, now, promised>>

\* The process ends and starts again: the files stay, everything else goes.
Relaunch ==
    /\ lock' = [h \in Hashes |-> Free]
    /\ up' = [u \in Uploads |-> NoUpload]
    /\ rel' = [r \in Releases |-> NoRelease]
    /\ gc' = NoGc
    /\ swept' = FALSE
    /\ UNCHANGED <<store, graph, now, promised>>

-----------------------------------------------------------------------------
UploadStep(u) ==
    \/ UploadPlace(u)
    \/ UploadMeta(u)
    \/ UploadReadRefs(u)
    \/ UploadAddRef(u)
    \/ UploadStat(u)

ReleaseStep(r) ==
    \/ ReleaseWrite(r)
    \/ \E f \in Files : ReleaseUnlink(r, f)

GcStep ==
    \/ GcRoots
    \/ GcRecordings
    \/ \E h \in Hashes : GcSkip(h) \/ GcCondemn(h)
    \/ GcLock
    \/ \E f \in Files : GcUnlink(f)
    \/ GcDone

Next ==
    \/ Tick
    \/ Relaunch
    \/ \E r \in Roots, d \in Recordings : ListRecording(r, d)
    \/ \E d \in Recordings : UnlistRecording(d)
    \/ \E d \in Recordings, h \in Hashes : LinkBlob(d, h) \/ DropStatement(d, h)
    \/ \E u \in Uploads :
          \/ \E d \in Owners, h \in Hashes : UploadCheck(u, d, h)
          \/ UploadStep(u)
          \/ UploadFails(u)
    \/ \E r \in Releases :
          \/ \E d \in Owners, h \in Hashes : ReleaseReadRefs(r, d, h)
          \/ ReleaseStep(r)
          \/ ReleaseFails(r)
    \/ GcList
    \/ GcAbort
    \/ GcFails
    \/ GcStep

Spec == Init /\ [][Next]_vars

-----------------------------------------------------------------------------
UploadRecords ==
    [pc : {"place", "meta", "ref", "addref", "stat"}, owner : Owners, hash : Hashes,
     deduped : BOOLEAN, read : SUBSET Owners]
ReleaseRecords ==
    [pc : {"write", "unlink"}, hash : Hashes, left : SUBSET Owners, todo : SUBSET Files]
Collections ==
    [pc : {"roots", "recordings", "sweep", "remove", "unlink"}, todo : SUBSET Hashes,
     young : SUBSET Hashes, roots : SUBSET Roots, recordings : SUBSET Recordings,
     live : SUBSET Hashes, hash : Hashes \cup {Free}, files : SUBSET Files]

(***************************************************************************)
(* Every variable keeps its type, through interrupted ingests, releases    *)
(* and collections.                                                        *)
(***************************************************************************)
TypeOK ==
    /\ object \subseteq Hashes
    /\ meta \subseteq Hashes
    /\ refs \in [Hashes -> SUBSET Owners]
    /\ ctime \in [Hashes -> 0 .. MaxTime]
    /\ lock \in [Hashes -> Uploads \cup Releases \cup {Collector, Free}]
    /\ up \in [Uploads -> {NoUpload} \cup UploadRecords]
    /\ rel \in [Releases -> {NoRelease} \cup ReleaseRecords]
    /\ gc \in {NoGc} \cup Collections
    /\ gc.pc \in {"remove", "unlink"} => gc.hash \in gc.todo
    /\ swept \in BOOLEAN
    /\ listed \in [Roots -> SUBSET Recordings]
    /\ links \in [Recordings -> SUBSET Hashes]
    /\ statements \subseteq Hashes
    /\ now \in 0 .. MaxTime
    /\ promised \subseteq [owner : Owners, hash : Hashes, at : 0 .. MaxTime]

(***************************************************************************)
(* An ingest answered with success leaves "the durable copy every other    *)
(* device fetches from" (blobUpload.ts): its object and its meta file, so  *)
(* that a download finds it, stay until its owner releases it or is        *)
(* deleted, or the grace period passes without the owner naming it.        *)
(***************************************************************************)
DurableCopy ==
    \A p \in promised :
        now - p.at < Grace \/ Kept(p.owner, p.hash) => p.hash \in object \cap meta

(***************************************************************************)
(* The refs file names every owner that was answered, so that one owner's  *)
(* release never frees another's bytes, however addRef, releaseRef and a   *)
(* crash interleave.                                                       *)
(***************************************************************************)
OwnersRecorded == \A p \in promised : p.owner \in refs[p.hash]

(***************************************************************************)
(* Nobody wedges the queue behind a hash (withLock in blobStore.ts): who   *)
(* holds its lock is still at work on that hash, also after an I/O error   *)
(* at any step and after a restart.                                        *)
(***************************************************************************)
LockHasWorker ==
    \A h \in Hashes :
        \/ lock[h] = Free
        \/ \E u \in Uploads :
              lock[h] = u /\ up[u].pc = "addref" /\ up[u].hash = h
        \/ \E r \in Releases :
              lock[h] = r /\ rel[r].pc \in {"write", "unlink"} /\ rel[r].hash = h
        \/ lock[h] = Collector /\ gc.pc = "unlink" /\ gc.hash = h
=============================================================================
