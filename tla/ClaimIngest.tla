------------------------------ MODULE ClaimIngest ------------------------------
(***************************************************************************)
(* What a host does with the signed statements it is sent: the claim that  *)
(* comes with an audio upload (claimIngest.ts), and statements uploaded on *)
(* their own (statementUpload.ts), both from the upload route of           *)
(* blobHttp.ts.                                                            *)
(*                                                                         *)
(* A handler is an upload; every await is the end of a step.  A statement  *)
(* is a triple: its kind, the claim it belongs to, and which one it is     *)
(* where several may exist (the receipts this host signs).  The store is   *)
(* the set of statements and audio it holds; its own locks and refs are    *)
(* the subject of BlobStore.                                               *)
(***************************************************************************)
EXTENDS Naturals, Sequences, FiniteSets, SequencesExt

CONSTANTS
    Uploads,       \* upload requests of a behaviour
    Claims,        \* claims, each about one recording's audio
    ClaimOf,       \* ClaimOf[u]: the claim upload u is about
    BodyOf,        \* BodyOf[u]: "audio", or the kind of statement uploaded
    MaxReceipts,   \* bound: receipts this host signs per claim
    MaxMishaps     \* bound: recordings deleted, crashes of the host, and keys,
                   \* writes and index entries that fail

ASSUME IngestAssumption ==
    /\ MaxReceipts \in Nat \ {0} /\ MaxMishaps \in Nat
    /\ ClaimOf \in [Uploads -> Claims]
    /\ BodyOf \in [Uploads -> {"audio", "claim", "receipt", "record", "link", "revocation"}]

VARIABLES
    ups,        \* ups[u]: where upload u is, and what it has found and stored
    queue,      \* queue[c]: uploads in the lock of claim c, its holder first
    held,       \* audio and statements in the blob store
    index,      \* index[c]: the receipt the index names for claim c, 0 for none
    told,       \* claims announced to the session recorder
    mishaps,    \* deletions, crashes and failures so far
    ever,       \* ghost: everything that was ever held
    lostIndex   \* ghost: receipts stored whose index entry was not written

ingestVars == <<ups, queue, held, index, told, mishaps, ever, lostIndex>>

Kinds      == {"audio", "claim", "receipt", "record", "link", "revocation"}
Statements == Kinds \X Claims \X (0 .. MaxReceipts)
The(k, c)  == <<k, c, 0>>

Idle == [pc |-> "idle", mine |-> 0, isNew |-> FALSE, todo |-> <<>>, got |-> {}, names |-> FALSE]

IngestInit ==
    /\ ups = [u \in Uploads |-> Idle]
    /\ queue = [c \in Claims |-> <<>>]
    /\ held = {} /\ ever = {} /\ lostIndex = {}
    /\ index = [c \in Claims |-> 0]
    /\ told = {} /\ mishaps = 0

\* A step fails, if one more mishap is allowed, or does not.
MayFail(fails) ==
    /\ fails => mishaps < MaxMishaps
    /\ mishaps' = IF fails THEN mishaps + 1 ELSE mishaps

Hold(S) ==
    /\ held' = held \cup S
    /\ ever' = ever \cup S

-----------------------------------------------------------------------------
\* checkRecordingClaim: a claim is for the audio that came with it and signed by
\* the device it names, or nothing is done with it.
ClaimVerification == {"unsigned", "unverified", "ok"}

\* The audio route: the bytes are stored first, and whatever the claim is, the
\* upload is answered.  A claim that is absent or does not verify is stored
\* nowhere; one that does joins the queue of its claim.
handleUpload(u) ==
    /\ ups[u].pc = "idle" /\ BodyOf[u] = "audio"
    /\ Hold({The("audio", ClaimOf[u])})
    /\ \E check \in ClaimVerification, names \in BOOLEAN :
         /\ ups' = [ups EXCEPT ![u].pc = IF check = "ok" THEN "locked" ELSE "done",
                               ![u].names = check = "ok" /\ names]
         /\ queue' = IF check = "ok" THEN [queue EXCEPT ![ClaimOf[u]] = Append(@, u)] ELSE queue
    /\ UNCHANGED <<index, told, mishaps, lostIndex>>

\* Mutant: uploads of one claim work side by side.
holdsLock_Shared(u) == u \in ToSet(queue[ClaimOf[u]])

\* withClaimLock: an upload works on its claim when those before it are through.
holdsLock(u) == queue[ClaimOf[u]] # <<>> /\ Head(queue[ClaimOf[u]]) = u

\* readOwnReceipt: the receipt the index names, while it is still stored.
readOwnReceipt(c) ==
    IF <<"receipt", c, index[c]>> \in held THEN index[c] ELSE 0

\* The receipts signed for a claim so far.
signedFor(c) ==
    {n \in 1 .. MaxReceipts :
        \/ <<"receipt", c, n>> \in ever
        \/ \E u \in Uploads : ClaimOf[u] = c /\ ups[u].isNew /\ ups[u].mine = n}

\* What an upload stores, in order: the claim, the receipt if there is one, and
\* the certificate or vouch if it is the one the claim names (certificateFor
\* drops any other).
certificateFor(u) == IF ups[u].names THEN <<The("link", ClaimOf[u])>> ELSE <<>>

receiptAndStore(u, n) ==
    <<The("claim", ClaimOf[u])>>
    \o (IF n = 0 THEN <<>> ELSE <<<<"receipt", ClaimOf[u], n>>>>)
    \o certificateFor(u)

\* receiptFor: no key, no receipt; else the one signed before, or the next.
receiptFor(u) ==
    LET c   == ClaimOf[u]
        own == readOwnReceipt(c)
        new == Cardinality(signedFor(c)) + 1
        Using(n, isNew) == ups' = [ups EXCEPT ![u].pc = "ingesting", ![u].mine = n,
                                     ![u].isNew = isNew, ![u].todo = receiptAndStore(u, n)]
    IN  /\ ups[u].pc = "locked" /\ holdsLock(u)
        /\ \/ MayFail(TRUE) /\ Using(0, FALSE)
           \/ own # 0 /\ Using(own, FALSE) /\ MayFail(FALSE)
           \/ own = 0 /\ new <= MaxReceipts /\ Using(new, TRUE) /\ MayFail(FALSE)
        /\ UNCHANGED <<queue, held, index, told, ever, lostIndex>>

\* storeStatements: one ingest at a time.  One that fails is left out of the
\* answer and the rest go on.
storeStatements(u) ==
    /\ ups[u].pc = "ingesting" /\ ups[u].todo # <<>>
    /\ \E fails \in BOOLEAN :
         LET S == IF fails THEN {} ELSE {Head(ups[u].todo)}
         IN  /\ MayFail(fails)
             /\ ups' = [ups EXCEPT ![u].todo = Tail(@), ![u].got = @ \cup S]
             /\ Hold(S)
    /\ UNCHANGED <<queue, index, told, lostIndex>>

\* indexReceipt: a new receipt that was stored is recorded, and the lock is left.
indexReceipt(u) ==
    LET c    == ClaimOf[u]
        mine == <<"receipt", c, ups[u].mine>>
    IN  /\ ups[u].pc = "ingesting" /\ ups[u].todo = <<>>
        /\ IF ups[u].isNew /\ mine \in ups[u].got
           THEN \E fails \in BOOLEAN :
                  /\ MayFail(fails)
                  /\ index' = IF fails THEN index ELSE [index EXCEPT ![c] = ups[u].mine]
                  /\ lostIndex' = IF fails THEN lostIndex \cup {mine} ELSE lostIndex
           ELSE UNCHANGED <<index, lostIndex, mishaps>>
        /\ queue' = [queue EXCEPT ![c] = Tail(@)]
        /\ ups' = [ups EXCEPT ![u].pc = "verified", ![u].isNew = FALSE]
        /\ UNCHANGED <<held, told, ever>>

\* verifyClaimOnIngest: only a claim that was stored is announced to the session
\* recorder (HostSession has what it does with it), and the upload is answered.
announced(u) == The("claim", ClaimOf[u]) \in ups[u].got

verifyClaimOnIngest(u) ==
    /\ ups[u].pc = "verified"
    /\ ups' = [ups EXCEPT ![u] = [Idle EXCEPT !.pc = "done"]]
    /\ told' = IF announced(u) THEN told \cup {ClaimOf[u]} ELSE told
    /\ UNCHANGED <<queue, held, index, mishaps, ever, lostIndex>>

\* A statement uploaded on its own.  What it must be backed by: a claim by its
\* audio; a receipt, a session record and a certificate or vouch by the claim
\* they name; a revocation by the statement it withdraws.  A certificate is also
\* checked against the claim it came for.
neededBy(kind, c) ==
    IF kind = "claim" THEN The("audio", c)
    ELSE IF kind = "revocation" THEN The("link", c)
    ELSE The("claim", c)

isBacked(u) == neededBy(BodyOf[u], ClaimOf[u]) \in held

checkUploadedStatement(u) ==
    /\ ups[u].pc = "idle" /\ BodyOf[u] # "audio"
    /\ \E valid \in BOOLEAN :
         ups' = [ups EXCEPT ![u].pc =
                   IF valid /\ isBacked(u) THEN "checked" ELSE "done"]
    /\ UNCHANGED <<queue, held, index, told, mishaps, ever, lostIndex>>

handleStatementUpload(u) ==
    /\ ups[u].pc = "checked"
    /\ ups' = [ups EXCEPT ![u].pc = "done"]
    /\ \E fails \in BOOLEAN :
         MayFail(fails) /\ Hold(IF fails THEN {} ELSE {The(BodyOf[u], ClaimOf[u])})
    /\ UNCHANGED <<queue, index, told, lostIndex>>

\* The recording is deleted: its audio and statements lose their last owner.
\* The index file stays (blobStore.ts keeps it beside the blobs).
Release(c) ==
    /\ mishaps < MaxMishaps
    /\ \E x \in held : x[2] = c
    /\ held' = {x \in held : x[2] # c}
    /\ mishaps' = mishaps + 1
    /\ UNCHANGED <<ups, queue, index, told, ever, lostIndex>>

\* The host dies: uploads and locks are gone, a receipt not yet indexed stays.
IngestCrash ==
    /\ lostIndex' = lostIndex \cup {<<"receipt", ClaimOf[u], ups[u].mine>> : u \in
                        {v \in Uploads : ups[v].isNew /\ <<"receipt", ClaimOf[v], ups[v].mine>> \in held}}
    /\ ups' = [u \in Uploads |-> IF ups[u].pc = "idle" THEN ups[u] ELSE [Idle EXCEPT !.pc = "done"]]
    /\ queue' = [c \in Claims |-> <<>>]
    /\ mishaps < MaxMishaps /\ mishaps' = mishaps + 1
    /\ UNCHANGED <<held, index, told, ever>>

-----------------------------------------------------------------------------
IngestTypeOK ==
    /\ ups \in [Uploads -> [pc : {"idle", "locked", "ingesting", "verified",
                                  "checked", "done"},
                            mine : 0 .. MaxReceipts, isNew : BOOLEAN,
                            todo : Seq(Statements), got : SUBSET Statements, names : BOOLEAN]]
    /\ queue \in [Claims -> Seq(Uploads)]
    /\ \A u \in Uploads : ups[u].pc \in {"locked", "ingesting"} <=> u \in ToSet(queue[ClaimOf[u]])
    /\ held \subseteq Statements /\ ever \subseteq Statements /\ lostIndex \subseteq Statements
    /\ told \subseteq Claims
    /\ index \in [Claims -> 0 .. MaxReceipts]
    /\ mishaps \in 0 .. MaxMishaps

\* A claim gets one receipt per host (claimIngest.ts, "A claim gets one receipt
\* per host"): whatever the uploads of one claim do at once, the store never
\* holds two, unless the index could not be written for one of them.
OneReceipt ==
    \A c \in Claims :
        Cardinality({x \in held \ lostIndex : x[1] = "receipt" /\ x[2] = c /\ x[3] # 0}) <= 1

\* Every claim the session recorder is told of was stored ("Only a stored claim
\* can be listed in a session record", claimIngest.ts), so that a record never
\* names what no reader could fetch.
AnnouncedIsStored == \A c \in told : The("claim", c) \in ever

\* No upload waits for ever in a claim's lock: what it is given is answered.
UploadsAnswered ==
    \A u \in Uploads : (ups[u].pc # "idle") ~> (ups[u].pc = "done")
=============================================================================
