# A verification project for tapes

tapes is a recorder and audio library that syncs between devices. One device,
the *host*, runs the Electron client with a sync server; the others, *guests*,
are browsers or other Electron clients paired with it. Documents travel as
Automerge documents; audio and signed statements travel as content-addressed
blobs; plays are recorded on the guest and counted on the host; signed claims,
receipts, session records, certificates and vouches say who recorded what.

This directory holds TLA+ modules for the parts in which state, concurrency and
failure meet, TLC configurations that check them on small instances, and proofs
checked by TLAPS. `PROJECT.json` maps every definition to the source lines it
models and lists the hazards, each at its line. Paths below are relative to the
repository; `EC` stands for `apps/electron-client/src`, `WEB` for
`apps/web-client/src`, `CORE` for `packages/core/app` and `PV` for
`packages/provenance/lib`.

## 1. Inventory

| component | state it keeps | operations | what makes it correct | module |
|---|---|---|---|---|
| event log, `EC/eventStore.ts` | one JSONL file per UTC day, dedupe index, write chain | open, append, replay, sweep | an event is in the log at most once; the index covers what can be read back | `EventLog` |
| aggregates, `EC/aggregates.ts` | rollup in memory, frozen baseline `aggregates.json` with `foldedSegments` | open, record, sweep | totals equal what a restart derives; a lifetime count never decreases | `EventLog` |
| events route, `EC/eventHttp.ts` | rate buckets | ingest, read aggregates | an id is acknowledged only when it is counted | `EventLog`, `PlayQueue` |
| play queue, `CORE/eventQueue.ts`, `CORE/hooks/usePlayEventQueue.ts` | queues in localStorage; per tab flushes, pending flags, retry timers | record, flush, retry, mount, unmount, change of hosts | no play is lost or stranded; order is kept | `PlayQueue` |
| blob store and collector, `EC/blobStore.ts`, `EC/blobGc.ts` | object, meta and refs files per hash, lock chain | ingest, release, remove, list, mark, sweep | an answered upload can be downloaded while a document refers to it; refs name every owner | `BlobStore` |
| claims and statements, `EC/claimIngest.ts`, `EC/statementUpload.ts` | receipt index, per-claim lock | verify, sign a receipt, store | one receipt per claim and host | `ClaimIngest` |
| provenance, `PV/recordingProvenance.ts`, `CORE/recordingProvenance.ts`, revocations | what documents list | fetch, check, sum up | honest writers never look like tampering; "it stands" is said only of takes a host had in time | `Provenance` |
| vouching and roster, `EC/hostVouching.ts`, `personRoster.ts`, `vouchHttp.ts`, guests' `RejoinFlow.tsx` | roster file, waiting requests in memory | join, request, PIN, confirm, reject, withdraw | a vouch handed out can be found again; guesses are limited; a waiting page is let go | `HostVouching` |
| person keys, `WEB/personKey*.ts`, `CORE/hooks/usePersonKey.ts`, prompts | one IndexedDB record per guest, pages, backups, passkey records | make, join, back up, record, restore | pages show the key there is; marks are true | `PersonKey` |
| sessions, `EC/sessionRecorder.ts`, `hostSession.ts`, `sessionDelivery.ts` | open session, spans, claims, the published field | start, stop, track, sign, deliver, flush at quit | the document names the open session; the record names what came in time; quitting signs all | `HostSession` |
| server, connections, challenges, `EC/syncServer.ts`, `syncConnections.ts`, `syncChallenges.ts`, `WEB/provenSyncAdapter.ts`, `CORE/hooks/useConnectedDevices.ts` | `current`, sockets, nonces, retry timers, a panel | start, stop, restart, challenge, upgrade, heartbeat, push | one server at a time; guests return; the panel is right | `SyncServer` |
| the desktop window's repo, `EC/rendererRepo.ts`, `ElectronClientAppShell.tsx` | builds in flight, applied key, repo in use | resolve, build, fall back, use, drop | the newest combination wins; a library is never replaced by a fresh one | `RendererRepo` |
| recording, `CORE/context/RecordingContext.tsx`, `CORE/views/Recorder.tsx`, `WEB/worker.ts`, `EC/channels/soxRecorder.ts`, `CORE/blobUpload.ts` | recorder, worker file, editor, upload queue | start, stop, sign, save, upload, retry | a claim is over the bytes of its file; a queued upload stays queued until stored | `Recorder` |
| player, `CORE/context/AudioPlayerContext.tsx`, `CORE/blobClient.ts` | effect runs, source, play session | play, look up, seek, fail, end | what is heard is what is named; a play is reported only if heard | `Playback` |
| pins, `CORE/context/PinContext.tsx`, `CORE/blobCache.ts` | pins, cached files | pin, unpin, evict, delete, copy | a pin keeps its audio; shared statements are spared | `Pins` |
| certificates, play counts on a page, identity pages, API gateway, presentation | files; none | | | not modelled, section 7 |

How they interact. A tab's player hands a finished play to the queue; the queue
posts batches to the host's events route; the route appends to the log and
records in the aggregates; the answer clears the queue. A recorder's take is
signed, saved as a document and uploaded; the upload route stores the audio in
the blob store, verifies the claim, signs a receipt, and announces the claim to
the session recorder, whose record is listed on the recordings it names. A
reader fetches what a document lists and sums it up. The document arrives
separately by sync; deleting a recording releases its hashes; once per launch
the collector marks what the synced documents name and removes the rest. Guests
prove a device key before each connection, and a person key or a vouch ties that
device to a person on the host's roster. Toggling LAN or HTTPS restarts the
server under all of this.

What is hard here: handlers that await in the middle and act on what they read
before; a retention sweep beside ingests, cut off between fold, persist and
unlink; answers that are lost and batches re-sent; appends that tear; a restart
that leaves the old server's work running; tabs that share one store without a
lock; React effects that are cancelled but not stopped; pushes and snapshots in
any order; the collector acting on a listing that has aged; several signers of
one withdrawal. The hazards the runs cover, and the two worst of the others, are
under `hazards` in `PROJECT.json`, each at its line; what the code loses to the
rest is in the table of faults and in section 5.

## 2. Modules and their actions

| module | extends | models |
|---|---|---|
| `PlayCounter` | | what the host promises of plays, abstractly |
| `EventLog` | | event log, aggregates, events route, start and stop of the server |
| `PlayQueue` | | the guest's queues and the flushing hook |
| `BlobStore` | | blob store, its callers, the collector |
| `ClaimIngest` | | the host's side of claims and statements |
| `Provenance` | `ClaimIngest` | who lists what, and what a reader makes of it: the composition of uploads, sessions and withdrawals |
| `HostVouching` | | joins, requests, PINs, vouches, withdrawals and the guest's waiting page |
| `PersonKey` | | a guest's person key over several tabs |
| `HostSession` | | the operator's session from the button to the listed record, and quitting |
| `SyncServer` | | server lifecycle, registry, challenges, guests, panel |
| `RendererRepo` | | the desktop window's choice of library and server |
| `Recorder` | | capture, saving and the queue of uploads |
| `Playback` | | the player and its search for the audio |
| `Pins` | | keeping offline |
| `MC...` | each part | model values, symmetry and function constants for TLC |
| `EventLogProofs`, `PlayQueueProofs`, `BlobStoreProofs`, `ProvenanceProofs`, `VouchingProofs`, `HostSessionProofs`, `PlaybackProofs`, `PinsProofs` | the part they name, and four of them a second one | inductive invariants, lemmas and theorems (section 4) |

Conventions. A handler that awaits is cut at every await at which shared state
can change, and named after the function it continues; a ghost variable is
marked `ghost` where it is declared and read by no guard except to bound a
behaviour. Every bound is a constant whose comment says `bound`. Fingerprints,
signatures and addresses hold by assumption: nobody forges, and equal hashes are
equal bytes.

### EventLog

State: `segs`, `lines`, `torn`, `openLine` are the segment files, a file being
the number of readable lines per event; `baseDisk` is `aggregates.json`;
`seen`, `base`, `rollup`, `hasAgg`, `app` and `sw` belong to one *instance*, one
run of `startSyncServer`, because a restart inside the process leaves what the
old one had under way. `cur` is `current`. `first`, `acked` and `struck` are
ghosts: the day an event first landed, what guests were told, and which faults
have struck.

| action | code |
|---|---|
| `Start` | `startSyncServer`: `open` of the log, `open` of the aggregates (or its failure), the sweep left running |
| `Stop` | `stopSyncServer` |
| `Ingest` | `handleIngest` up to `store.append`, and the index update of `append` |
| `AppendWritten`, `AppendFails`, `AppendFailsPartly` | `appendFile` resolving, and the catch around it |
| `Answer` | `aggregates.record` and the 200 |
| `SweepList`, `SweepFold`, `SweepPersist(Fails)`, `SweepUnlink(Fails)`, `SweepSettle`, `SweepDone` | `eventStore.sweep` with `aggregates.sweep`'s `onSegment`, one step per await |
| `Crash`, `CrashTearing` | the process ends, perhaps within an append |
| `NextDay` | the UTC clock |

Totals are per event, since a fold only adds; validation and `isKnownRecording`
are the choice of the batch; a request that waits in the write chain is taken up
when its turn comes; a store that fails to open is a server without events, so
no `Start`; a write crosses at most one midnight.

The faults. Crashes, write errors that write nothing and unlinks that fail may
happen at any time and break nothing. Six more kinds may strike (`Strike`), each
once and `MaxFaults` in all, and the code loses something to every one of them:

| fault | code | what no longer holds once it struck |
|---|---|---|
| `torn`: a crash leaves a line without its end | `eventStore.ts:271` appends to it | `AckedIsCounted`, `RollupMatchesDisk`, `PlaysNeverDecrease`, `ImplementsCounter` |
| `partialError`: a failed append did write some lines | `eventStore.ts:275` forgets the ids of all | all but `BaselineNeverShrinks` |
| `overlap`: a restart while the old instance still works | `syncServer.ts:947`, `652` | all |
| `noAggregates`: the aggregates do not open | `syncServer.ts`, events are kept and not recorded; the sweep unlinks them | `AckedIsCounted`, `PlaysNeverDecrease`, `ImplementsCounter` |
| `noBaseline`: any read error makes the baseline empty | `aggregates.ts:148` | the same, `RollupMatchesDisk`, `BaselineNeverShrinks` |
| `noSegment`: a segment that cannot be read is unlinked all the same | `eventStore.ts:326` | `AckedIsCounted`, `RollupMatchesDisk`, `PlaysNeverDecrease`, `ImplementsCounter` |

So every property says up to which faults it holds: `AtMostOnce` and
`IndexCoversLog` through all that only lose lines (`IndexSpared`), the promise to
the guest up to the first of any kind (`Clean`). That a guest re-sends within the
retention period (`ResendWindow`) is an assumption on guests whose queue is
capped but has no age; with a longer window TLC finds `AtMostOnce` broken,
because ids leave the index with their segment (`eventStore.ts:347`).

### PlayQueue

`queue` is the one localStorage key; `flight`, `pending`, `timers` are the refs
of one mounted hook. `FlushAll`, `Mount`, `SetEndpoints` and `RecordPlay` reach
`flushEndpoint`, modelled by `FlushEndpoints` for a set of hosts up to the
fetch; `HostAnswers` (event by event), `HostRefuses` (400, 413, 415),
`HostTurnsAway` (any other status) and `FetchFails` settle the request;
`FlushEnds` is everything after it: `flushQueue`'s write back, the re-armed or
cleared timer, the flush that was asked for meanwhile. The host is its contract
only. Back-off delays are reduced to a timer that is armed, and each
read-modify-write of localStorage is one step.

### BlobStore

`object`, `meta`, `refs` are the files; `lock` is the per-hash chain of
`withLock`; `up` and `rel` are ingests and releases between their awaits; `gc`
is the collection (`GcList` with `listObjects`, `GcAbort`, `GcFails`, `GcStep`
for roots, recordings, grace, ownership and removal). `listed` and `links` are
the documents as this host has them and change by sync; `statements` are the
hashes whose bytes are a signed statement. `promised` is a ghost: ingests that
were answered with success. The constant `Hazards` switches the overlaps with
which the code loses a promised object; the run leaves them out, and section 5
lists them.

### ClaimIngest and Provenance

`ups[u]` is an upload between awaits, `queue[c]` the per-claim lock, `held` the
statements stored, `index` the receipt index. `handleUpload`, `receiptFor`,
`storeStatements`, `indexReceipt`, `verifyClaimOnIngest` are the steps of an
audio upload; `checkUploadedStatement` and `handleStatementUpload` those of a
statement sent alone; `Release` deletes a recording, `IngestCrash` ends the host.

`Provenance` wraps these in the program that surrounds them. `listed[c]` is what
the document of a recording lists: what an upload's answer named (`Answered`,
which may be lost), a session record (`listSessionRecord`), the person's
revocation (`revokeDevice`, `copyRevocation`) and the host's
(`listDeviceRevocation`). The reader is a set of operators over any subset of
what is listed and was ever stored, since each fetch may fail by itself:
`checkStatement`, `failures`, `missing`, `firstRevocation`,
`verifyRecordingStatements`, `ProvenanceText`.

### HostVouching

`roster` is the stored file, `entries` the waiting requests in memory,
`calls[s]` a handler that awaits. `joinHostRoster` and `JoinArrives` are a signed
join that may be delivered twice; `Rejoin`, `PollVouch`, `Leaves` the page that
waits; `confirm`, `reject`, `submitPin`, `saveWithOldPin`, `setPin`,
`unlockPin`, `revokeVouch` the operator's and the guest's requests; `HostStep`
continues whichever handler is at a stage (comparing a PIN, signing, writing the
roster, listing a revocation); `Throws` is a failed write or delivery; `Ages`
makes a request ten minutes old; `Restart` forgets what is in memory.

### PersonKey

`db` is the IndexedDB of a guest, `pages[t]` a tab with its worker and the step
its task is at, `host` what the roster and the passkey record store have. A task
reads, awaits and writes in separate steps: making a key (`addCreated`), a join,
a backup, a passkey record (`storePasskeyRecord`, `hostStores`,
`givesRecords`), a restore (`restorePersonIdentity`, `restoreWith`,
`storeRestored`), marks. `Answers` is what the host says or fails to say,
`newOrigin` the loss of the storage.

### HostSession

`phase[s]` follows a session from open through grace and signing to listed;
`spans` are the connections it records, `conns` the registry, `docSession` and
`publishedIn` the root document's field and what `hostSession.ts` believes it
wrote there; `calls` are starts, stops and sweeps of a stale field that wait for
the root document. `beginTake` and `announce` bring claims; `onWillQuit`,
`flush`, `exit`, `crash`, `stopSyncServer` end things; `view` is the operator's
strip.

### SyncServer

A call is the launch or one press of a checkbox: `stopSyncServer` (flush, close
the sockets) then `startSyncServer` (open the log, load the key, listen). `home`
is the holder of the port, `registry`, `alive`, `sock` the connections,
`issued` the challenges. A guest proves its key, dials, is checked, judged and
let in or refused, retries on a timer and falls away; `heartbeat` pings and
evicts; `Panel` takes snapshots and pushes in the order they come.

### RendererRepo

`replies` are answers of `get-server-info` that have not arrived, `builds` the
calls of `bootstrapRendererRepo` in flight, `applied` is `appliedKeyRef`, `repo`
the repo in use, `stored` the root document's url, `disk` and `browser` who
holds which document. `initialize` is the effect; `Drop`, `Stay` and `Use` are
its three endings.

### Recorder, Playback, Pins

`Recorder`: `pressStart`, `pressStop` and `Capture` (opening the file, the
microphone and sox, the chunk that is written across an await, the claim made by
another handler), then `createRecordingDocument`, `uploaded`, `uploadFailed`,
`hostLists`, `endpointChanges`, `showView`, `reload`. With `Patient` the button
is pressed when the last press has had its effect, except for the stop of a
guest whose microphone is still opening.

`Playback`: `job` is the run of the resolving effect in force and `stale` the
one before it, which goes on to its end (`Steps(j)`): document, local stores,
hosts in the order of `resolveBlobEndpoints`, streamed or fetched whole. The
element's events are `loadedMetadata`, `timeUpdate`, `ended`, `onError`.

`Pins`: `pinning[r]` and `deleting[r]` are operations between awaits, `kept` the
cache, `copy` what a pin sent to a host that lacked the recording. `evicting` is
a set: every unpin that has bytes to drop is a loop of its own, with the hash it
drops now and those it has left, and two of one recording run side by side.

## 3. Runs

Twelve runs, one for each part. Each property has a *mutant* in `PROJECT.json`:
a plausible slip in the code (a dropped guard, a missing reset, a swapped
order), written just before the definition it replaces, under which TLC finds
the property violated in the same run.

| run | properties | what it shows |
|---|---|---|
| `EventLog` | `AtMostOnce`, `AckedIsCounted`, `RollupMatchesDisk`, `IndexCoversLog`, `PlaysNeverDecrease`, `ImplementsCounter` | with re-sends, clean write errors, crashes, restarts, an interruptible sweep and one fault of any of six kinds, a play counts exactly once and the log implements `PlayCounter`, each up to the first fault that breaks it |
| `PlayQueue` | `PlaysAccountedFor`, `QueueInOrder`, `NoStrandedPlay` | with two tabs, a full queue, lost answers and refusals, a play is queued, delivered, refused or dropped at the cap, never overtaken, and never left without somebody who will send it |
| `BlobStore` | `DurableCopy`, `OwnersRecorded`, `LockHasWorker` | two uploads, a release and a collection of one hash, with failures and relaunches: an answered upload is there while a document refers to it, the refs file names every owner, no lock is left behind |
| `Provenance` | `OneReceipt`, `HonestPasses`, `KeptWasReceived` | uploads of one claim, two withdrawals, a session record, a mishap: one receipt, nothing looks tampered with while what it names can be fetched, and no take received too late is said to stand |
| `HostVouching` | `HandedOutFindable`, `GuessesLimited`, `WithdrawnIsDelivered`, `WaitingEnds` | requests and operator in any order around awaits: a vouch handed out is on the roster, parallel guesses stay limited, a withdrawn vouch is withdrawn on the documents, a waiting page is let go |
| `PersonKey` | `ShownIsStored`, `MarksAreTrue`, `TasksEnd` | two tabs making, joining, backing up and restoring: no page goes on with a key that is not the stored one, a mark that the host has something is so, no request hangs |
| `HostSession` | `OpenIsPublished`, `InTimeIsNamed`, `QuitSignsAll`, `StripLearns` | starts, stops and stale sweeps overlap: the document names the open session, in-time claims are named, quitting leaves nothing unsigned, the strip gets its answer |
| `SyncServer` | `OneServer`, `PanelIsRight`, `GuestsReturn` | a launch and a restart under a guest that connects, vanishes and returns |
| `RendererRepo` | `LatestRepoWins`, `KeepsLibrary` | overlapping builds: the newest combination wins, and no stored library gives way to a fresh one |
| `Recorder` | `ClaimsAreTrue`, `QueuedUntilStored`, `MicrophoneReleased` | captures and saves around awaits: a claim is over the bytes of its file, a queued upload leaves the queue only when stored, a microphone that was opened is released |
| `Playback` | `HeardIsCurrent`, `PlaysWereHeard`, `TransportIsTrue` | overtaken lookups, seeks and media errors: the element plays, the buttons show and the play counts are of the recording in the player |
| `Pins` | `GuestPromiseKept`, `CopiedInOrder`, `StandingPinsSpared` | overlapping pins, unpins and deletes |

Bounds, and why they reach the cases that matter.

* `EventLog`: two events make a batch of several lines and a duplicate beside an
  accepted event; a retention of one day in four lets a segment expire, be
  folded, be cut off, be unlinked and settled while newer ones live; two
  instances are a restart with work left running; two copies of an event in one
  segment are one more than a correct history has. All six faults, one per
  behaviour: a second fault cannot break what the first has not already, since
  every property ends with the first fault that breaks it.
* `PlayQueue`: a cap of two with three plays bites while a flush is open. With
  one remote host and the device's own, plays go to several queues.
* `BlobStore`: one hash is enough, since locks, files and the collector's decision
  are per hash. Two uploads and a release are the least that race for one refs
  file. A grace of one and a clock of one tell young from old.
* `Provenance`: three uploads, the third a revocation, of one claim; two receipts
  are one more than there may be; one mishap is a crash, a failed write or a
  deletion at any step.
* `HostVouching`: one person, one device, two handlers at once (the least that
  race), four calls, one wrong guess before the lock.
* `PersonKey`: two tabs; three keys are one each and one restored; one lost
  answer or failed write; one loss of the origin's storage.
* `HostSession`: two sessions, since what a second does to the first is the
  question; one socket, one claim, one failure or restart, two calls waiting.
* `SyncServer`: two calls are a launch and a restart; two sockets are one that
  is dead and the guest's next; one challenge makes the store overflow.
* `RendererRepo`: three builds are one in use, one in flight and one newer.
* `Recorder`: two takes and two documents, a failure, a reload, and two changes
  of the host; a guest and a desktop.
* `Playback`: two recordings and three runs of the effect: one overtakes another
  twice. A guest of its host, a desktop with a second host, and a page alone.
* `Pins`: two recordings that share a session record; four presses, so that one
  recording is pinned and unpinned twice while its first unpin is at work.

Deadlock is checked in `EventLog`, `PlayQueue` and `BlobStore`; the other modules
bound what users do, and stop when it has all been done.

Fairness is stated for what the code does by itself and never for users, peers or
the network. Awaits of a handler go on (`HostVouching`, `HostSession`,
`SyncServer`, `Provenance`, `Recorder`, `Playback`, `Pins`): a promise of the file
system or of a database settles. Timers fire: the ten minutes of a vouch request
and the guest's polling, the grace period, the heartbeat, the guest's retry.
`PersonKey` takes it that a request of a page is answered or fails. Two
cases are stronger. `SyncServer` has strong fairness for the heartbeat: the
interval timer never stops and a tick visits every entry, but the bound
`MaxEvents` may hold the step up for a moment. And that a guest's dial is
answered or fails is an assumption about the network; `GuestsReturn` speaks of a
server that stands for good, and of guests whose key is not revoked.

## 4. Theorems

Every safety property the runs check is a theorem, for every value of the
constants: any number of tabs, hosts, uploads, sockets or handlers, any bound.
What a theorem assumes beside the named assumptions on constants stands in its
statement. A proof module is named after its part. Four hold a second part as
well, below a line: `HostSessionProofs` that of `RendererRepo`, `PlayQueueProofs`
that of `SyncServer`, `ProvenanceProofs` that of `PersonKey`, `BlobStoreProofs`
that of `Recorder`. So that two parts can be extended at once, those second ones
name their specification after the part: `RepoSpec`, `ServerSpec`, `KeySpec` and
`RecorderSpec`, with `RepoInit`, `RepoNext` and so on.

| module | theorem | property | assumes |
|---|---|---|---|
| `EventLogProofs` | `AckedStaysCounted` | `AckedIsCounted` | `InTime` |
| | `LifetimeCountGrows` | `PlaysNeverDecrease` | `InTime` |
| | `LogImplementsCounter` | `ImplementsCounter` | `InTime` |
| | `CountedAtMostOnce` | `AtMostOnce` | `InTime` |
| | `RollupIsDerived` | `RollupMatchesDisk` | `InTime` |
| | `IndexIsComplete` | `IndexCoversLog` | `InTime` |
| | `BaselineStays` | `BaselineNeverShrinks` (no run lists it) | |
| `PlayQueueProofs` | `NoPlayVanishes` | `PlaysAccountedFor` | |
| | `QueuesStayInOrder` | `QueueInOrder` | |
| | `NobodyIsStranded` | `NoStrandedPlay` | |
| `BlobStoreProofs` | `LocksAreHeldByWorkers` | `LockHasWorker` | |
| | `DurableCopies` | `DurableCopy` | `Hazards = {}` |
| | `OwnersStay` | `OwnersRecorded` | `Hazards = {}` |
| `ProvenanceProofs` | `OneReceiptEach` | `OneReceipt` | |
| | `HonestLooksHonest` | `HonestPasses` | |
| | `StandsWasReceived` | `KeptWasReceived` | |
| `VouchingProofs` | `HandedOut` | `HandedOutFindable` | |
| | `GuessesStayLimited` | `GuessesLimited` | |
| | `WithdrawnWasDelivered` | `WithdrawnIsDelivered` | |
| `HostSessionProofs` | `OpenStaysPublished` | `OpenIsPublished` | |
| | `NamedInTime` | `InTimeIsNamed` | |
| | `QuitLeavesNone` | `QuitSignsAll` | |
| | `SpansAreConnected` | `LiveIsConnected` (no run lists it) | |
| `PlaybackProofs` | `ElementIsCurrent` | `HeardIsCurrent` | |
| | `TransportSaysSo` | `TransportIsTrue` | |
| | `ReportsWereHeard` | `PlaysWereHeard` | |
| `HostSessionProofs` | `TheLatestRepoWins` | `LatestRepoWins` (`RendererRepo`) | |
| | `TheLibraryIsKept` | `KeepsLibrary` | |
| | `TheSupersededAreClosed` | `SupersededClosed` (no run lists it) | |
| `PlayQueueProofs` | `OneServerStands` | `OneServer` (`SyncServer`) | `Patient` |
| | `ThePanelIsRight` | `PanelIsRight` | `Patient` |
| `ProvenanceProofs` | `TheShownKeyIsStored` | `ShownIsStored` (`PersonKey`) | |
| | `TheMarksAreTrue` | `MarksAreTrue` | |
| | `TheKeyStays` | `KeyStays` (no run lists it) | |
| `BlobStoreProofs` | `TheClaimsAreTrue` | `ClaimsAreTrue` (`Recorder`) | `Patient` |
| | `TheSoundIsOwn` | `OwnSound` (no run lists it) | `Patient` |
| | `TheQueueKeeps` | `QueuedUntilStored` | |
| | `TheListStays` | `ListedStays` (no run lists it) | |
| `PinsProofs` | `PinsKeepTheirAudio` | `GuestPromiseKept` | |
| | `StandingPinsStay` | `StandingPinsSpared` | |
| | `CopiesGoInOrder` | `CopiedInOrder` | |

The eight parts that give their module its name also have `TypeCorrect`,
`Spec => []TypeOK`, which holds of `BlobStore` with every hazard and of `EventLog`
with every fault. `InTime` says that guests
re-send within the retention period, and nothing about faults: all theorems about
`EventLog` hold of a host to which anything in `Faults` may happen, each up to the
faults its property names. `Hazards = {}` leaves out
the overlaps of section 5 with which the code loses a promised object, as the run
does; failures and restarts stay in. `Patient` is what the runs of `SyncServer` and
`Recorder` set: a checkbox waits for the answer of its last press; the record
button is pressed when the last press has had its effect, but for a stop while a
guest's microphone opens. What two presses at once break is in section 5.

The assumptions on constants are the modules' own. Some are there for the
proofs: who may hold a lock of the blob store can be told apart
(`HolderAssumption`); the handlers of the vouching service that are at work at
once, and the statements of a library, are finitely many, so that they can be
counted or put in an order; there is somebody to vouch for.

None of the properties is inductive. What each argument adds, as the conjuncts
of `Inv`:

* `EventLog`. That an event is counted once depends on the index knowing it, on
  the sweep folding a segment only once, and on the baseline being written before
  the unlink. `ExactlyOnceInv` states where every event is: not landed; in its
  segment, which the baseline has not absorbed; or in the baseline, with its
  segment absorbed or gone. It states it of the file and of the working
  instance's memory, which differ between fold and persist, and ties the pending
  append and the sweep to it. `OneWorker`: at most one instance touches the
  files, which the fault `overlap` takes away. An append writes to a segment at
  most one day old, and one expires only when its day ended a retention period
  ago. `InvUntil`, `Clean => ExactlyOnceInv`, makes it hold with faults: they are
  never unstruck (`CleanBefore`), and a step after which none has struck is not a
  strike (`NoStrike`). What stays true after a fault needs less, one invariant for
  each set of faults. `SparedInv`, for those that only lose: an event may be nowhere,
  but what can be read is known, and what counts counts once. `TallyInv`, for runs
  without aggregates: the served totals are the baseline's and the live lines',
  which a sweep moves from one to the other. `BaselineInv`, for all but an
  unreadable baseline and `overlap`: what the working instance holds is at least
  what the file says, and without aggregates it has nothing to write.
* `PlayQueue`. `AnswersStand`: what a flush was answered is taken, but for what
  it is to keep, so the write back drops only that. `EachIsSeenTo`: every queued
  play is in a batch under way, or its flush was asked for again, or a timer is
  armed: stronger than that some flush is open, since one may end without it.
* `BlobStore`. `WorkerHasLock` and `LockHasWorker` together are mutual exclusion.
  `ReadIsCurrent`: the owners an addition or a release read are the ones in the
  file until it writes. `ReleaseIsLast`: who removes the files read that no owner
  was left. `IngestProgress`: what an ingest has written is there at each of its
  awaits. `PromisesStand` and `CollectionSpares` carry `DurableCopy` through the
  listing, the marking and the removal of a collection.
* `Provenance`. `Locks`: who is in the queue of a claim waits or works, once, and
  only the first works. `Numbered`: receipts are numbered without a gap. `OneKept`:
  a stored receipt is the one the index names, or one the holder of the lock is
  about to index while the old one is gone. `Withdrawn`: a withdrawal is listed
  beside what it withdraws. `Stamped`: a receipt is signed after the audio came.
* `HostVouching`. `RememberedFirst`: on the roster before the guest can hold it.
  `CountedFirst`: wrong guesses and those under way together are at most the
  stored count. `DeliveredFirst`: delivered before the mark.
* `HostSession`. `OneOpen` and `StopsClosed`: one session is open, and a stop that
  waits for the document is of another. `KeptInTime`: a claim in time is in the
  session's claims up to the signature, then in the record. `SpansRun`: a socket's
  span runs exactly while it is connected and proven, and an ended one does not
  come back.
* `Playback`. `JobInForce`: a run that has not been cancelled is of the recording
  in the player, with nothing loaded and the transport loading. `SessionInForce`:
  the session is of what plays, and what it was last told of is not behind the
  element, so that a position seen twice counts once.
* `Pins`. `AudioKept`: from the moment the audio is written until its pin is
  dropped the file is whole and no delete of it has been sent. `OthersSpared`:
  what an unpin has still to drop is held by no pin it left. The order of the
  copies is a lemma about sequences sorted by rank (`OrderedCopy`), not about steps.

* `RendererRepo`. `CurrentIsApplied`: the build of the last generation is of the
  combination that counts as applied, but for the root it created itself; with
  `OneBuildEach` an older build finds that it was superseded. `CreatesForNone`: that
  build creates a root exactly while none is stored, which keeps the library.
  `OnlyUsedOpen` says of each open repo what it is still for.
* `SyncServer`. `InTurn`, `Stopping`, `Starting` and `CurrentIsUp`: one call is at
  work, what it closes was `current`, and it opens with nothing standing. `Told`:
  what the panel is to hear last, be it the last push, the snapshot it asked for or
  its own list, is whom the host lists (`Listed`).
* `PersonKey`. `PageFits`: what a request rests on at each of its awaits, by
  operation: which key it read or made, what was answered about that key, whether
  it is stored by then. `Grows`: people, records, backups and the stored key only
  grow, but for the loss of the storage, which ends every request. So what one
  page relies on survives the steps of the others (`PageStays`).
* `Recorder`. For a guest, `WebInv`: one take is under way (`OneBusy`), and the open
  file, the awaited write, the recorder and the stop are all of that take or of
  none. `Done`: a take that is over is never written again, and `Stable` says that
  every step keeps it so. A claim is signed when its take is done (`ClaimStep`), so
  it goes on holding (`GoodClaim`). The queue and the documents (`LibraryInv`) need
  nothing of the capture.

`Filtered` (`PlayQueue`) and `Stored` (`Pins`) are recursive functions. Induction
over data is not available to the provers with an arbitrary predicate, so the
proofs about them argue along the least position at which a claim would fail
(`LeastNat`), from the well-foundedness of the naturals.

Two attempts at a proof that failed changed a module. The bound of
`GuessesLimited` was too small from five calls on, more than a run can take:
guesses that are being compared when the count is cleared go on, and their
outcome is not counted against the next series; `Cleared` says so now. And `Pins`
kept one sequence of evictions for each recording, so that a second unpin of it
waited for the first: with five presses the model deleted what the code, whose
unpins run side by side, keeps.

## 5. Where the code and its words disagree

Met while modelling. For each, the module states what the words say; no run has
it among its properties, and TLC finds it violated when it is added to the run
of that module (or with the constant named here).

| module, property | what the code does | what it says |
|---|---|---|
| `EventLog`, fault `torn` | an append after a torn line glues its first event to the rest of it; `replay` skips both, and the guest was told `accepted` (`eventStore.ts:271`) | "A durable, append-only log" (`eventStore.ts:7`) |
| `EventLog`, `ResendWindow > Retention` | ids leave the index with their segment, so an older re-send counts again (`eventStore.ts:347`) | the queue of a guest is capped but has no age |
| `PlayQueue`, `RefusalSparesLaterPlays` | a refused batch writes an empty queue, with what was recorded during the request (`eventQueue.ts:285`) | "writing back a batch that predates it would throw that play away" (`eventQueue.ts:306`) |
| `BlobStore`, `Hazards = {"releaseRace"}` | an ingest tests for the object, a release removes it, `addRef` records an owner of nothing (`blobStore.ts:409`) | `DurableCopy` |
| `BlobStore`, `{"gcRace"}`, `{"oldObject"}` | the collector removes an object onto which an upload was deduplicated after the listing (`blobGc.ts:155`), or that is older than the grace while its upload is not (`blobGc.ts:258`) | `DurableCopy` |
| `BlobStore`, `{"unresolvedRoot"}`, two roots | a root that does not load is skipped (`blobGc.ts:188`) and what only it names is collected | "A document that will not resolve abandons the whole sweep" (`blobGc.ts:131`) |
| `HostVouching`, `HandedOutNeverLost` | two first joins of one person both find no entry; the second `put` replaces the first, its vouches included (`hostVouching.ts:345`) | "a vouch the host handed out is never one the operator cannot find again" (`hostVouching.ts:263`) |
| `HostVouching`, `WithdrawnEverywhere` | a recording the store failed on is left out and the vouch is marked withdrawn, so there is nothing left to press | "so the operator can try it again" (`vouchRevocation.ts:68`) |
| `HostSession`, `RecordNamesItsClaims` | claims announced while the record is signed are told of a record that does not name them (`sessionRecorder.ts:194`) | "a recording is covered when its `statements` list names one of the record's claims" (`sessionDelivery.ts`) |
| `SyncServer`, `Patient = FALSE` | two presses at once start two servers: `current` is tested before the awaits and set after (`syncServer.ts:585`); `OneServer` and `PanelIsRight` fail | the run presses once the last press has ended |
| `RendererRepo`, `NextWriteTries` | a write that resolves to the same urls starts no build | "Clearing the key lets the next write to these settings try again" (`ElectronClientAppShell.tsx:184`) |
| `PersonKey`, `NewOnlyWhenSaid` | a roster that cannot be fetched reads as empty, and a key is made without asking (`usePersonKey.ts:49`) | "no key is made until the person says they are new" (`usePersonKey.ts`) |
| `PersonKey`, `BackedUpIsSaved` | the check opens the text the page holds; a save that was given up counts as saved | "that check unlocks the saved backup for real" (`PersonKeyBackupPrompt.tsx`) |
| `PersonKey`, `VouchSpared` | the vouch is looked at before the restore and cleared after it, whoever's it is by then (`personKeyRequests.ts:381`) | "a vouch for another person is not this person's to replace" (`personKeyRequests.ts:364`) |
| `PersonKey`, `MarksStay` | a mark is a record read and put back whole: another tab's is lost (`personKey.ts:251`) | |
| `Recorder`, `OneDocPerTake` | `isSavingRef` is set and reset within one synchronous call, and the closed editor keeps its file | "Guards against a double-submit creating two docs for one recording" (`Recorder.tsx:54`) |
| `Recorder`, `ClaimIsOwn` | a stop that came during the start leaves `takeRef` set, and the next early stop signs a claim for the earlier take (`RecordingContext.tsx:166`) | "The signed claim for the recording at `filepath`" (`Recorder.tsx:64`) |
| `Recorder`, `SavedIsSent` | an upload is queued once it failed, so a page closed during the first loses it (`Recorder.tsx:88`) | |
| `Recorder`, `RunningIsReachable`, `Patient = FALSE` | a stop before sox was spawned fails, sox runs on, and the next start replaces it (`soxRecorder.ts:70`) | |
| `Playback`, `ReadyHasSource` | when the next recording's document has not arrived yet, the element is detached and the state stays `ready` | `ready` means the element has a source |
| `Pins`, `CachedIsRight` | `blob:put` truncates before it writes; a failed write leaves an empty file that is served (`worker.ts:644`) | "a cached blob is always the right bytes" (`blobCache.ts:16`) |
| `Pins`, `UnpinSparesOthers` | an unpin decides from the pins it saw when pressed (`PinContext.tsx:196`) | "keep any hash another pin still holds" |
| `Pins`, `PromiseKept` | a desktop's `cacheBlob` ignores `success: false` (`blobCache.ts:152`) | "a pin is an explicit promise that a recording stays playable with the host switched off" (`PinContext.tsx:24`) |
| `Provenance`, `HonestNeverFails` | a receipt that was fetched without its claim reads as `failed` (`recordingProvenance.ts:319`) | "can't check right now" is for what could not be fetched |
| `Provenance`, `NamedIsListed` | the certificate is looked up at upload; a device restored or vouched for since sends none (`blobUpload.ts:102`) | "a device's certificate never changes" |

Read, and not modelled: the window asks for the server's url while the server is
starting, gets none, and nothing asks again (`main.ts:65`); the last repo of a
build that found nothing is never shut down (`rendererRepo.ts:249`); two uploads
can each pass the quota test before either is stored (`blobHttp.ts:152`); a
certificate's key is written before its certificate, and a crash between them
leaves a pair that does not match (`certManager.ts:198`); a restore that loses the
race of `addRestored` answers `other-person-key` even when the keys are equal.

## 6. Only model-checked

* Liveness, which is out of the prover's reach: `WaitingEnds`, `TasksEnd`,
  `StripLearns`, `GuestsReturn`, `MicrophoneReleased`.
* Definitions that hold within the bounds of the runs and are kept for whoever
  changes the code there, though no run lists them: `KeyTypeOK` (`PersonKey`),
  `RecorderTypeOK` (`Recorder`); `SessionSettles` (`HostSession`); `OneRequestEach`,
  `JoinAppliedOnce` (`HostVouching`); `ReasonWeighsAll`, `LoadingEnds` (`Playback`);
  `PinningEnds`, `SpaceComesBack` (`Pins`); `DeadLeave` (`SyncServer`);
  `AnnouncedIsStored`, `UploadsAnswered` (`ClaimIngest`).

## 7. Not modelled

| part | why |
|---|---|
| certificates and host key | one synchronous function that writes files; no state machine |
| API gateway | relays Automerge messages; the library carries the logic |
| identity ceremony | static pages around the browser's WebAuthn; `PersonKey` takes the result as given or refused |
| play counts on a page | a read of totals, shown |
| views, components, ui, docs, marketing site | presentation; views whose state a property reads are modelled with their part |

Within the modelled parts: the rate limiter and the validation rules, which
decide what reaches the store and are a choice of the environment; `firstPlayedAt`
and completion fractions; entity tags, byte ranges, quotas and scratch files;
back-off delays, which are an armed timer; the bytes of signatures, encodings
and canonical forms, which hold by assumption; Automerge, which delivers a
document's latest content some time; the service worker's copy of the app;
windows and pages are one process with one thread, so a read-modify-write of
localStorage is one step, which browsers do not promise across processes.

## 8. What could come next

1. `PlayQueue` and `EventLog` composed over a lossy network: a play recorded on a
   guest is counted once, end to end. Today the host of `PlayQueue` is the
   contract that `PlayCounter` states.
2. Two guests in `SyncServer`, two devices of one person in `HostVouching`.
3. The disagreements of section 5, turned into runs when the code changes.
