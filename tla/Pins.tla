--------------------------------- MODULE Pins ---------------------------------
(***************************************************************************)
(* "Keep offline": the pins of one device (PinContext.tsx), what they keep *)
(* in its cache (blobCache.ts and the blob messages of worker.ts on a      *)
(* guest, the blob store on a desktop), the copy of a recording a pin      *)
(* sends to a host that lacks it (blobClient.ts), and the Library's delete.*)
(*                                                                         *)
(* A press starts an operation that runs over many awaits; presses on      *)
(* other recordings, and other operations on the same one, run in between. *)
(* The cache does one message at a time, in the order they were sent.      *)
(***************************************************************************)
EXTENDS Naturals, FiniteSets, Sequences, SequencesExt

CONSTANTS
    Recs,        \* recordings of the library
    Statements,  \* hashes of signed statements
    Kind,        \* Kind[s]: claim, link (certificate or vouch), record or revocation
    Listed,      \* Listed[r]: the statements the document of r lists
    Clients,     \* the shells to look at, of {"web", "electron"}
    MaxPresses,  \* bound: pins, unpins and deletes pressed
    CopyPresses, \* bound: a copy to another host is looked at up to so many of them
    MaxFailures, \* bound: writes to the cache that fail
    MaxReloads   \* bound: reloads of the page

ASSUME PinsAssumption ==
    /\ Recs \cap Statements = {} /\ Listed \in [Recs -> SUBSET Statements]
    /\ Kind \in [Statements -> {"claim", "link", "record", "revocation"}]
    /\ IsFiniteSet(Statements)
    /\ Clients \subseteq {"web", "electron"} /\ Clients # {}
    /\ {MaxPresses, CopyPresses, MaxFailures, MaxReloads} \subseteq Nat

\* The hash of a recording's audio is named by the recording.
Hashes == Recs \cup Statements

VARIABLES
    client,      \* which shell this is
    library,     \* recordings of the root document
    pins,        \* the pins, in React's state and in localStorage alike
    kept,        \* kept[h]: what the cache has under h
    locked,      \* hashes whose file a failed write left open
    pinning,     \* pinning[r]: where the pin of r is, and the statements still to keep
    evicting,    \* the unpins that still have bytes to drop, each with the pins it left
    deleting,    \* deleting[r]: where a delete of r is, and the pins it was pressed on
    copy,        \* what the step just taken copied to a host that lacked a recording
    asked,       \* history: recordings a delete was pressed on
    presses, failures, reloads

vars == <<client, library, pins, kept, locked, pinning, evicting, deleting, copy,
          asked, presses, failures, reloads>>

NotPinning  == [stage |-> "none", left |-> {}]
NotDeleting == [stage |-> "none", saw |-> {}, press |-> 0]
NoCopy      == [sent |-> <<>>, stored |-> {}, failed |-> {}]

Init ==
    /\ client \in Clients /\ library = Recs /\ pins = {}
    /\ kept = [h \in Hashes |-> "nothing"] /\ locked = {}
    /\ pinning = [r \in Recs |-> NotPinning]
    /\ evicting = {}
    /\ deleting = [r \in Recs |-> NotDeleting]
    /\ copy = NoCopy /\ asked = {} /\ presses = 0 /\ failures = 0 /\ reloads = 0

Press == presses < MaxPresses /\ presses' = presses + 1

-----------------------------------------------------------------------------
\* blob:put on a guest, blob:cache-put on a desktop.  On a guest a write that fails
\* after the file was truncated leaves it empty, and open: no write of this page
\* opens it again.  A delete that was sent before is done before.
\* Mutant: the eviction is not sent until later.
InTurn_Any(h) == TRUE
InTurn(h) == \A e \in evicting : e.now # h

Wrote(h) ==
    /\ InTurn(h) /\ h \notin locked
    /\ kept' = [kept EXCEPT ![h] = "whole"]
    /\ UNCHANGED <<locked, failures>>

FailedToWrite(h) ==
    /\ InTurn(h)
    /\ \/ h \in locked /\ UNCHANGED <<kept, locked, failures>>
       \/ /\ h \notin locked /\ failures < MaxFailures /\ failures' = failures + 1
          /\ \/ UNCHANGED <<kept, locked>>
             \/ client = "web" /\ kept' = [kept EXCEPT ![h] = "torn"] /\ locked' = locked \cup {h}

\* blob:delete.  A file that is open cannot be removed, which is not reported.
\* The desktop's store keeps what documents refer to and is not told.
evictCachedBlob(h) ==
    kept' = IF client = "web" /\ h \notin locked THEN [kept EXCEPT ![h] = "nothing"] ELSE kept

-----------------------------------------------------------------------------
pinState(r) ==
    IF pinning[r].stage # "none" THEN "pinning" ELSE IF r \in pins THEN "pinned" ELSE "unpinned"

\* "Keep offline" is pressed.
pin(r) ==
    /\ r \in library /\ pinState(r) = "unpinned" /\ Press
    /\ pinning' = [pinning EXCEPT ![r] = [stage |-> "fetch", left |-> Listed[r]]]
    /\ UNCHANGED <<client, library, pins, kept, locked, evicting, deleting,
                   asked, failures, reloads>>

\* No host had it, or the cache refused it: the button is released, and that is all.
released(p) == NotPinning

gaveUp(r) ==
    /\ pinning[r].stage \in {"fetch", "failed"}
    /\ pinning' = [pinning EXCEPT ![r] = released(@)]
    /\ UNCHANGED <<client, library, pins, kept, locked, evicting, deleting,
                   asked, presses, failures, reloads>>

\* What a statement has to follow when it is sent to another host.
\* Mutant: they go as the document lists them.
rank_Listed(s) == 0
rank(s) ==
    CASE Kind[s] = "claim" -> 0 [] Kind[s] = "link" -> 1
      [] Kind[s] = "record" -> 2 [] Kind[s] = "revocation" -> 3

\* The host takes a statement once it has stored what that is about.
Needs(s) ==
    CASE Kind[s] = "claim" -> {} [] Kind[s] \in {"link", "record"} -> {"claim"}
      [] Kind[s] = "revocation" -> {"link"}

\* The statements are sent one after the other; a failure leaves the next its try.
Takes(stored, s, failed) == s \notin failed /\ Needs(s) \subseteq {Kind[t] : t \in stored}

Stored(sent, failed) ==
    LET after[i \in 0 .. Len(sent)] ==
            IF i = 0 THEN {}
            ELSE after[i - 1] \cup (IF Takes(after[i - 1], sent[i], failed) THEN {sent[i]} ELSE {})
    IN  after[Len(sent)]

copyBlob(sent, failed) == [sent |-> sent, stored |-> Stored(sent, failed), failed |-> failed]

\* fetchStatements: those that could be fetched, in an order a host will take.
InOrder(sent) == \A i, j \in DOMAIN sent : rank(sent[i]) < rank(sent[j]) => i < j
fetchStatements ==
    [r \in Recs |-> UNION {{sent \in SetToSeqs(got) : InOrder(sent)} : got \in SUBSET Listed[r]}]

\* replicateBlob: no host lacked the audio, or it could not be copied; or the
\* statements follow it.
replicateBlob(r) ==
    \/ copy' = NoCopy
    \/ presses <= CopyPresses /\ \E sent \in fetchStatements[r] : \E failed \in SUBSET ToSet(sent) :
            copy' = copyBlob(sent, failed)

fetched(r) ==
    /\ replicateBlob(r)
    /\ pinning[r].stage = "fetch"
    /\ pinning' = [pinning EXCEPT ![r].stage = "cache"]
    /\ UNCHANGED <<client, library, pins, kept, locked, evicting, deleting,
                   asked, presses, failures, reloads>>

\* cacheBlob.  A guest whose worker could not write gives up.  A desktop does not
\* look at what its store answered.
\* Mutant: neither does a guest.
notices_Not == FALSE
notices == client = "web"

cacheBlob(r) ==
    /\ pinning[r].stage = "cache"
    /\ \/ Wrote(r) /\ pinning' = [pinning EXCEPT ![r].stage = "statements"]
       \/ /\ FailedToWrite(r)
          /\ pinning' = [pinning EXCEPT ![r].stage = IF notices THEN "failed" ELSE "statements"]
    /\ UNCHANGED <<client, library, pins, evicting, deleting, asked, presses,
                   reloads>>

\* keepStatements, one of them: fetched and kept, or not.
keepStatement(r, s) ==
    /\ pinning[r].stage = "statements" /\ s \in pinning[r].left
    /\ pinning' = [pinning EXCEPT ![r].left = @ \ {s}]
    /\ \/ UNCHANGED <<kept, locked, failures>>
       \/ client = "web" /\ (Wrote(s) \/ FailedToWrite(s))
    /\ UNCHANGED <<client, library, pins, evicting, deleting, asked, presses,
                   reloads>>

pinned(r) ==
    /\ pinning[r].stage = "statements" /\ pinning[r].left = {}
    /\ pins' = pins \cup {r}
    /\ pinning' = [pinning EXCEPT ![r] = released(@)]
    /\ UNCHANGED <<client, library, kept, locked, evicting, deleting, asked,
                   presses, failures, reloads>>

-----------------------------------------------------------------------------
\* The hashes the pins ps hold.
\* Mutant: only the audio is counted.
heldHashes_Audio(ps) == ps
heldHashes(ps) == ps \cup UNION {Listed[r] : r \in ps}

\* What an unpin of r evicts when it sees the pins saw.
toEvict(r, saw) == IF r \in saw THEN ({r} \cup Listed[r]) \ heldHashes(saw \ {r}) ELSE {}

\* The promise is dropped first, then the bytes, one after the other: the delete of
\* the audio is sent at once.  Two unpins of one recording go on side by side.
unpins(r, saw, press) ==
    /\ pins' = pins \ {r}
    /\ evicting' =
         IF r \in toEvict(r, saw)
         THEN evicting \cup {[of |-> r, press |-> press, now |-> r,
                              left |-> toEvict(r, saw) \ {r}, remaining |-> saw \ {r}]}
         ELSE evicting

\* "Clear from cache" is pressed.
unpin(r) ==
    /\ r \in library /\ pinState(r) = "pinned" /\ Press
    /\ unpins(r, pins, presses')
    /\ UNCHANGED <<client, library, kept, locked, pinning, deleting, asked, failures,
                   reloads>>

\* The delete that was sent is done, and the next one is sent.
evict(e) ==
    /\ e \in evicting
    /\ evictCachedBlob(e.now)
    /\ \/ e.left = {} /\ evicting' = evicting \ {e}
       \/ \E h \in e.left :
              evicting' = (evicting \ {e}) \cup {[e EXCEPT !.now = h, !.left = @ \ {h}]}
    /\ UNCHANGED <<client, library, pins, locked, pinning, deleting, asked, presses,
                   failures, reloads>>

-----------------------------------------------------------------------------
\* "Delete" is pressed: the pins it will unpin from are those of this render.
delete(r) ==
    /\ r \in library /\ deleting[r].stage = "none" /\ Press
    /\ deleting' = [deleting EXCEPT ![r] =
                      [stage |-> IF client = "electron" THEN "own" ELSE "hosts", saw |-> pins,
                       press |-> presses']]
    /\ asked' = asked \cup {r}
    /\ UNCHANGED <<client, library, pins, kept, locked, pinning, evicting,
                   failures, reloads>>

\* storage:delete-recording: an error other than a missing file ends it.
deleteRecording(r) ==
    /\ deleting[r].stage = "own"
    /\ deleting' = [deleting EXCEPT ![r] = [@ EXCEPT !.stage = "hosts"]] \/
       deleting' = [deleting EXCEPT ![r] = NotDeleting]
    /\ UNCHANGED <<client, library, pins, kept, locked, pinning, evicting,
                   asked, presses, failures, reloads>>

\* deleteBlobEverywhere has been through the hashes; a host that failed is not
\* asked again.  The recording is unpinned, with the pins as they were.
deletedEverywhere(r) ==
    /\ deleting[r].stage = "hosts"
    /\ unpins(r, deleting[r].saw, deleting[r].press)
    /\ deleting' = [deleting EXCEPT ![r].stage = "unpinned"]
    /\ UNCHANGED <<client, library, kept, locked, pinning, asked, presses, failures,
                   reloads>>

onDelete(r) ==
    /\ deleting[r].stage = "unpinned" /\ \A e \in evicting : e.press # deleting[r].press
    /\ library' = library \ {r}
    /\ deleting' = [deleting EXCEPT ![r] = NotDeleting]
    /\ UNCHANGED <<client, pins, kept, locked, pinning, evicting, asked,
                   presses, failures, reloads>>

\* The page is reloaded: what was under way is forgotten, the pins are read back
\* and nothing is open.
reload ==
    /\ reloads < MaxReloads /\ reloads' = reloads + 1
    /\ pinning' = [r \in Recs |-> NotPinning]
    /\ evicting' = {}
    /\ deleting' = [r \in Recs |-> NotDeleting]
    /\ locked' = {}
    /\ UNCHANGED <<client, library, pins, kept, asked, presses, failures>>

Work(r) ==
    \/ fetched(r)
    \/ /\ copy' = NoCopy
       /\ \/ gaveUp(r) \/ cacheBlob(r) \/ pinned(r)
          \/ \E e \in evicting : e.of = r /\ evict(e)
          \/ \E s \in Statements : keepStatement(r, s)
          \/ deleteRecording(r) \/ deletedEverywhere(r) \/ onDelete(r)

Next ==
    \/ \E r \in Recs : Work(r) \/ (copy' = NoCopy /\ (pin(r) \/ unpin(r) \/ delete(r)))
    \/ copy' = NoCopy /\ reload

\* Every host answers or times out, and every worker message is answered.
Spec == Init /\ [][Next]_vars /\ \A r \in Recs : WF_vars(Work(r))

-----------------------------------------------------------------------------
TypeOK ==
    /\ client \in Clients /\ library \subseteq Recs /\ pins \subseteq Recs
    /\ kept \in [Hashes -> {"nothing", "whole", "torn"}] /\ locked \subseteq Hashes
    /\ pinning \in [Recs -> [stage : {"none", "fetch", "cache", "failed", "statements"},
                             left : SUBSET Statements]]
    /\ evicting \subseteq [of : Recs, press : 0 .. MaxPresses, now : Hashes,
                           left : SUBSET Statements, remaining : SUBSET Recs]
    /\ deleting \in [Recs -> [stage : {"none", "own", "hosts", "unpinned"}, saw : SUBSET Recs,
                              press : 0 .. MaxPresses]]
    /\ copy \in [sent : Seq(Statements), stored : SUBSET Statements, failed : SUBSET Statements]
    /\ asked \subseteq Recs
    /\ presses \in 0 .. MaxPresses /\ failures \in 0 .. MaxFailures
    /\ reloads \in 0 .. MaxReloads

\* A pin is an explicit promise that a recording stays playable with the host
\* switched off (PinContext.tsx).
PromiseKept == \A r \in pins : kept[r] = "whole"

\* On a guest the promise is kept for every recording no delete was pressed on,
\* whatever else was pressed, failed or reloaded in the meantime.
GuestPromiseKept ==
    client = "web" => \A r \in pins \ asked : kept[r] = "whole"

\* A session record can be listed by several recordings, so keep any hash another
\* pin still holds (PinContext.tsx).
UnpinSparesOthers ==
    [][\A e \in evicting : client = "web" /\ evict(e) =>
           \A q \in pins \ {e.of} : e.now \notin {q} \cup Listed[q]]_vars

\* That much is kept: a pin that stood when another was dropped, and stands, has
\* nothing taken from it, however the evictions and new pins interleave.
StandingPinsSpared ==
    [][\A e \in evicting : evict(e) =>
           \A q \in (e.remaining \cap pins) \ {e.of} : e.now \notin {q} \cup Listed[q]]_vars

\* A host that takes the audio takes every statement it is sent, except one that
\* rests on one that could not be fetched or copied.
CopiedInOrder ==
    LET refused == ToSet(copy.sent) \ (copy.stored \cup copy.failed)
    IN  \A s \in refused : \E k \in Needs(s) :
            \A t \in ToSet(copy.sent) : Kind[t] = k => t \in copy.failed \cup refused

\* A cached blob is always the right bytes (blobCache.ts).
CachedIsRight == \A h \in Hashes : kept[h] # "torn"

\* The button of a recording is released: it is pinned, or it is not.
PinningEnds == \A r \in Recs : (pinning[r].stage # "none") ~> (pinning[r].stage = "none")

\* The space comes back after an unpin, unless the recording is pinned again, its
\* file was left open by a failed write or the page is reloaded half-way.
SpaceComesBack ==
    \A r \in Recs : (client = "web" /\ \E e \in evicting : e.now = r) ~>
        \/ kept[r] = "nothing" \/ pinning[r].stage # "none" \/ r \in locked \/ reloads > 0
=============================================================================
