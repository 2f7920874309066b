------------------------------ MODULE Provenance ------------------------------
(***************************************************************************)
(* What a reader is told about a recording (recordingProvenance.ts), over  *)
(* every document the program's own writers can leave behind.              *)
(*                                                                         *)
(* A recording's document lists statements.  They get there after an       *)
(* upload (ClaimIngest has what the host stores and answers), from the     *)
(* delivery of a session record, and from the two ways a device is         *)
(* withdrawn: by its person (deviceRevocation.ts) and, for a vouch, by the *)
(* host (vouchRevocation.ts).  Every claim here names the certificate or   *)
(* vouch of its device.  A reader fetches what is listed, from a copy it   *)
(* kept or from the host, and each fetch may fail by itself.  Signatures   *)
(* and addresses hold by assumption: nobody forges.  Clocks agree: a time  *)
(* is the number of revocations signed before.                             *)
(***************************************************************************)
EXTENDS ClaimIngest

CONSTANT ViaVouch       \* devices are vouched for by the host, not certified

ASSUME ProvenanceAssumption == ViaVouch \in BOOLEAN

VARIABLES
    listed,     \* listed[c]: what the document of c's recording lists
    revoked,    \* the signers that withdrew the device, in order: 0 person, 1 host
    stamp,      \* stamp[c][n]: when receipt n of claim c was signed
    received,   \* ghost: received[c]: when the audio of c first came to the host
    deleted     \* the recordings deleted, with their documents

vars == <<ingestVars, listed, revoked, stamp, received, deleted>>

Now == Len(revoked)
Never == 3
Withdrawal(c, who) == <<"revocation", c, who>>
Own(c) == {x \in Statements : x[2] = c /\ x[1] # "audio"}

Init ==
    /\ IngestInit
    /\ listed = [c \in Claims |-> {}]
    /\ revoked = <<>>
    /\ stamp = [c \in Claims |-> [n \in 1 .. MaxReceipts |-> 0]]
    /\ received = [c \in Claims |-> Never]
    /\ deleted = {}

\* A document that is gone lists nothing more.
Lists(c, S) == listed' = IF c \in deleted THEN listed ELSE [listed EXCEPT ![c] = @ \cup S]

-----------------------------------------------------------------------------
(* Who lists what.                                                         *)

Arrives(u) ==
    /\ handleUpload(u)
    /\ received' = [received EXCEPT ![ClaimOf[u]] = IF @ = Never THEN Now ELSE @]
    /\ UNCHANGED <<listed, revoked, stamp, deleted>>

\* A new receipt carries the host's time.
Receives(u) ==
    /\ receiptFor(u)
    /\ stamp' = IF ups'[u].isNew THEN [stamp EXCEPT ![ClaimOf[u]][ups'[u].mine] = Now] ELSE stamp
    /\ UNCHANGED <<listed, revoked, received, deleted>>

Stores(u) ==
    /\ storeStatements(u) \/ indexReceipt(u)
    /\ UNCHANGED <<listed, revoked, stamp, received, deleted>>

\* uploadRecordingBlob: the page lists what the host answered it stored, in one
\* change.  A lost answer lists nothing; the upload is tried again.
Answered(u) ==
    /\ verifyClaimOnIngest(u)
    /\ \/ Lists(ClaimOf[u], ups[u].got)
       \/ UNCHANGED listed
    /\ UNCHANGED <<revoked, stamp, received, deleted>>

\* listSessionRecord: the record is stored under, and listed on, the recordings
\* that list one of its claims.
listSessionRecord(c) ==
    /\ c \in told /\ The("claim", c) \in listed[c]
    /\ The("record", c) \notin listed[c]
    /\ Hold({The("record", c)})
    /\ Lists(c, {The("record", c)})
    /\ UNCHANGED <<ups, queue, index, told, mishaps, lostIndex, revoked, stamp, received, deleted>>

\* revokeDevice and withdrawVouch sign first; the recordings come after, one by
\* one, and one that is uploaded meanwhile is found too.
signs(who) ==
    /\ who = 1 => ViaVouch
    /\ who \notin ToSet(revoked)
    /\ revoked' = Append(revoked, who)
    /\ UNCHANGED <<ingestVars, listed, stamp, received, deleted>>

\* A recording that lists the certificate or vouch gets the person's revocation:
\* it is uploaded to a host, and listed once the host has it.
revokeDevice(u) ==
    /\ BodyOf[u] = "revocation" => /\ 0 \in ToSet(revoked)
                                   /\ The("link", ClaimOf[u]) \in listed[ClaimOf[u]]
    /\ checkUploadedStatement(u)
    /\ UNCHANGED <<listed, revoked, stamp, received, deleted>>

\* Any other statement sent by itself is a copy of one that is listed already.
copyRevocation(u) ==
    /\ handleStatementUpload(u)
    /\ Lists(ClaimOf[u], {The("revocation", ClaimOf[u])} \cap {The(BodyOf[u], ClaimOf[u])} \cap held')
    /\ UNCHANGED <<revoked, stamp, received, deleted>>

\* Mutant: the revocation is listed on every recording.
listDeviceRevocation_Anywhere(c) ==
    /\ 1 \in ToSet(revoked) /\ Withdrawal(c, 1) \notin listed[c]
    /\ The("audio", c) \in held
    /\ Hold({Withdrawal(c, 1)})
    /\ Lists(c, {Withdrawal(c, 1)})
    /\ UNCHANGED <<ups, queue, index, told, mishaps, lostIndex, revoked, stamp, received, deleted>>

\* listDeviceRevocation: the host does the same for a vouch it signed.  A
\* recording its store cannot take it for is left out, to be tried again.
listDeviceRevocation(c) ==
    /\ 1 \in ToSet(revoked) /\ Withdrawal(c, 1) \notin listed[c]
    /\ The("link", c) \in listed[c]
    /\ Hold({Withdrawal(c, 1)})
    /\ Lists(c, {Withdrawal(c, 1)})
    /\ UNCHANGED <<ups, queue, index, told, mishaps, lostIndex, revoked, stamp, received, deleted>>

\* The recording is deleted with its document, or the host dies.
Gone(c) ==
    /\ Release(c)
    /\ listed' = [listed EXCEPT ![c] = {}]
    /\ deleted' = deleted \cup {c}
    /\ UNCHANGED <<revoked, stamp, received>>

Dies == IngestCrash /\ UNCHANGED <<listed, revoked, stamp, received, deleted>>

Next ==
    \/ \E u \in Uploads :
         \/ Arrives(u) \/ Receives(u) \/ Stores(u) \/ Answered(u)
         \/ revokeDevice(u) \/ copyRevocation(u)
    \/ signs(0) \/ signs(1)
    \/ \E c \in Claims : listSessionRecord(c) \/ listDeviceRevocation(c) \/ Gone(c)
    \/ Dies

\* An upload that has begun is carried on by the event loop.
carriesOn(u) == Receives(u) \/ Stores(u) \/ Answered(u) \/ copyRevocation(u)

Spec == Init /\ [][Next]_vars /\ \A u \in Uploads : WF_vars(carriesOn(u))

-----------------------------------------------------------------------------
(* What a reader makes of it.                                              *)

\* checkRecordingProvenance: the statements a reader may have in hand.  A fetch
\* that fails leaves one out, whatever the others did; a copy the reader kept
\* needs no host.
fetched(c) == SUBSET (listed[c] \cap ever)

\* checkStatement: a statement's type, once it is the bytes its address names, in
\* their one encoding, and passed its own check.
checkStatement(x) == x[1]

Of(F, kind) == {x \in F : checkStatement(x) = kind}

\* revocationCovers: the person withdraws what names it, the host a vouch.
revocationCovers(x) == x[3] = 0 \/ ViaVouch

\* A receipt, and a certificate or vouch, are for a claim that passed here.
claimNotListed(c, F) ==
    IF The("claim", c) \in F THEN {} ELSE Of(F, "receipt") \cup Of(F, "link")

\* A session record names one of the claims that passed here.
sessionProblem(c, F) == IF The("claim", c) \in F THEN {} ELSE Of(F, "record")

\* A revocation withdraws what passed here, by a signer with the standing for it.
revocationProblem(c, F) ==
    {x \in Of(F, "revocation") : The("link", c) \notin F \/ ~revocationCovers(x)}

failures(c, F) ==
    claimNotListed(c, F) \cup sessionProblem(c, F) \cup revocationProblem(c, F)

\* What could not be had: a listed statement, and what a claim names unlisted.
missing(c, F) ==
    (listed[c] \ F)
        \cup (IF The("claim", c) \in F THEN {The("link", c)} \ listed[c] ELSE {})

Least(S) == CHOOSE n \in S : \A m \in S : n <= m

\* The earliest receipt's time.
receivedAt(c, F) == Least({stamp[c][x[3]] : x \in Of(F, "receipt")})

\* When a signer withdrew the device.
revokedAt(who) == CHOOSE i \in 1 .. Len(revoked) : revoked[i] = who

\* Mutant: trust ends with the last revocation.
firstRevocation_Last(F) ==
    CHOOSE i \in {revokedAt(x[3]) : x \in Of(F, "revocation")} :
        \A x \in Of(F, "revocation") : revokedAt(x[3]) <= i

\* Trust in the device ended when the first was signed.
firstRevocation(F) == Least({revokedAt(x[3]) : x \in Of(F, "revocation")})

\* A time that is missing leaves the take on the doubtful side.
revokedDeviceLink(c, F) ==
    /\ Of(F, "receipt") # {}
    /\ receivedAt(c, F) < firstRevocation(F)

\* verifyRecordingStatements: the state, who the device is tied to, whether it
\* was withdrawn, and whether the host had the take before that.
verifyRecordingStatements(c, F) ==
    [state |->
        IF failures(c, F) # {} THEN "failed"
        ELSE IF missing(c, F) # {} THEN "unavailable"
        ELSE IF Of(F, "receipt") # {} THEN "verified"
        ELSE IF The("claim", c) \in F THEN "device-only"
        ELSE "unverified",
     person  |-> The("link", c) \in F,
     revoked |-> Of(F, "revocation") # {},
     receivedBeforeRevocation |->
        Of(F, "revocation") # {} /\ revokedDeviceLink(c, F)]

\* Revocation: what is said of a take of a device that was withdrawn.
Revocation(v) ==
    IF ~v.revoked THEN "signed"
    ELSE IF v.receivedBeforeRevocation THEN "stands" ELSE "in doubt"

\* ProvenanceText: what the Library says of the recording.
ProvenanceText(c, F) ==
    LET v == verifyRecordingStatements(c, F)
    IN  IF v.state \in {"verified", "device-only"} THEN Revocation(v) ELSE v.state

-----------------------------------------------------------------------------
\* Nothing the program's own writers do makes a recording look tampered with:
\* whichever answers, deliveries, withdrawals, crashes and deletions came in
\* which order, a reader that has the claim and what it names sees no failure
\* (recordingProvenance.ts, "A listed statement of a known type failed a check").
HonestPasses ==
    \A c \in Claims : \A F \in fetched(c) :
        (/\ The("claim", c) \in F
         /\ The("link", c) \in listed[c] => The("link", c) \in F)
            => verifyRecordingStatements(c, F).state # "failed"

\* "A host already had this recording by then, so it stands"
\* (ProvenanceSummary.tsx): a take is said to stand only if a host had it before
\* any withdrawal the reader sees, however many receipts and revocations there
\* are and in whatever order they were listed.
KeptWasReceived ==
    \A c \in Claims : \A F \in fetched(c) :
        ProvenanceText(c, F) = "stands" =>
            \A i \in 1 .. Len(revoked) : Withdrawal(c, revoked[i]) \in F => received[c] < i

-----------------------------------------------------------------------------
(* Broken by the code: see the README's list of disagreements.             *)

\* "A statement no host could serve is passed on as not fetched, which the
\* verifier reports as can't check right now" (core's recordingProvenance.ts):
\* with a receipt in hand and the claim not, it reports a failure instead.
HonestNeverFails ==
    \A c \in Claims : \A F \in fetched(c) : verifyRecordingStatements(c, F).state # "failed"

\* "A recording is only listed once a host has the bytes" and what a claim names
\* is sent with it (personKey.ts): but a device whose certificate or vouch has
\* changed since the take sends none, and the take cannot be checked.
NamedIsListed ==
    \A c \in Claims : The("claim", c) \in listed[c] => The("link", c) \in listed[c]
=============================================================================
