------------------------------- MODULE Recorder -------------------------------
(***************************************************************************)
(* Recording a take and getting it to the host.                            *)
(*                                                                         *)
(* Capture: the record button of Recorder.tsx.  A guest records in the page*)
(* (RecordingContext.tsx) into a file its worker writes (worker.ts); a     *)
(* desktop has its main process run sox (soxRecorder.ts and the two        *)
(* recorder channels).  Opening, stopping and signing are spread over      *)
(* awaits, and the button stays enabled during them.                       *)
(*                                                                         *)
(* Saving: the document of a take, the upload of its audio with the claim  *)
(* signed at stop, and the queue of uploads in localStorage                *)
(* (blobUpload.ts) that is retried whenever an endpoint appears.           *)
(***************************************************************************)
EXTENDS Naturals

CONSTANTS
    Clients,     \* the shells to look at, of {"web", "electron"}
    Patient,     \* the record button is pressed when the last press has had its effect,
                 \* except to stop a take of a guest whose microphone is still opening
    MaxTakes,    \* bound: recordings started
    MaxDocs,     \* bound: recordings saved
    MaxFailures, \* bound: files, microphones and writes that fail
    MaxChanges,  \* bound: times the endpoint comes or goes or the view is shown again
    MaxReloads   \* bound: reloads of the page

ASSUME RecorderAssumption ==
    /\ Clients \subseteq {"web", "electron"} /\ Clients # {}
    /\ Patient \in BOOLEAN
    /\ {MaxTakes, MaxDocs, MaxFailures, MaxChanges, MaxReloads} \subseteq Nat

Takes == 1 .. MaxTakes
Docs == 1 .. MaxDocs

\* A file, its recorder and the sound it captures are named by the take's number; 0 is none.
VARIABLES
    client,   \* which shell this is
    page,     \* what the page knows: state and refs of the recording context
    start,    \* start[k]: how far the start of take k is
    tape,     \* tape[k]: the recorder of take k (a sox process on a desktop)
    stops,    \* stops[k]: the stop that was pressed for the k-th time
    handle,   \* the file the worker has open for writing
    chunk,    \* chunk[k]: the sound of take k on its way to the worker's file
    awaited,  \* the chunk pendingWrite stands for
    holds,    \* holds[f]: the take whose sound file f holds
    editor,   \* the panel that names, saves or deletes a take
    docs,     \* docs[d]: the document of a saved recording
    pending,  \* documents in the queue of uploads
    sending,  \* sending[d]: uploads of d under way
    endpoint, \* whether there is a host to upload to
    failures, changes, reloads

capture == <<page, start, tape, stops, handle, chunk, awaited, holds>>
library == <<docs, pending, sending, endpoint, changes>>
recorderVars == <<client, capture, library, editor, failures, reloads>>

NoClaim == [file |-> 0, sound |-> 0]
Closed  == [open |-> FALSE, file |-> 0, claim |-> NoClaim]
NoStop  == [stage |-> "none", take |-> 0, shown |-> 0, recorder |-> 0, here |-> TRUE]
Unsaved == [file |-> 0, claim |-> NoClaim, blob |-> "none", listed |-> {}]
Idle    == [isRecording |-> FALSE, handleFilename |-> 0, isStarting |-> FALSE,
            stopRequested |-> FALSE, recorder |-> 0, take |-> 0]

RecorderInit ==
    /\ client \in Clients /\ page = Idle
    /\ start = [k \in Takes |-> "none"] /\ tape = [k \in Takes |-> "off"]
    /\ stops = [k \in Takes |-> NoStop]
    /\ handle = 0 /\ awaited = 0
    /\ chunk = [k \in Takes |-> "none"] /\ holds = [k \in Takes |-> 0]
    /\ editor = Closed /\ docs = [d \in Docs |-> Unsaved]
    /\ pending = {} /\ sending = [d \in Docs |-> 0] /\ endpoint \in BOOLEAN
    /\ failures = 0 /\ changes = 0 /\ reloads = 0

Fails == failures < MaxFailures /\ failures' = failures + 1

Starting(k) == start[k] \in {"file", "mic"}
Stopping(k) == stops[k].stage \in {"flush", "recorder", "claim"}
Arriving(k) == tape[k] = "stopping" \/ chunk[k] \in {"posted", "writing"}
InFlight == \E k \in Takes : Starting(k) \/ Stopping(k) \/ Arriving(k)

-----------------------------------------------------------------------------
\* The record button while nothing is recorded: startRecording on a guest,
\* recorder:start on a desktop.
pressStart ==
    /\ ~editor.open /\ ~page.isRecording
    /\ \E k \in Takes :
          /\ start[k] = "none" /\ \A i \in 1 .. (k - 1) : start[i] # "none"
          /\ start' = [start EXCEPT ![k] = "file"]
    /\ page' = [page EXCEPT !.isRecording = TRUE, !.isStarting = (client = "web"),
                            !.stopRequested = FALSE]
    /\ Patient => ~InFlight
    /\ UNCHANGED <<client, tape, stops, handle, chunk, awaited, holds, library, editor, failures,
                   reloads>>

\* The worker creates and opens the take's file, in place of the one it had open.
opened(k) == k

openFile(k) ==
    /\ client = "web" /\ start[k] = "file"
    /\ \/ /\ handle' = opened(k)
          /\ start' = [start EXCEPT ![k] = "mic"]
          /\ page' = [page EXCEPT !.handleFilename = k]
          /\ UNCHANGED failures
       \/ /\ Fails
          /\ start' = [start EXCEPT ![k] = "over"]
          /\ page' = [page EXCEPT !.isRecording = FALSE, !.isStarting = FALSE,
                                  !.stopRequested = FALSE]
          /\ UNCHANGED handle
    /\ UNCHANGED <<client, tape, stops, chunk, awaited, holds, library, editor, reloads>>

\* A stop that came while the microphone was opening is honoured.
\* Mutant: it is forgotten.
stopWasRequested_Forgotten == FALSE
stopWasRequested == page.stopRequested

\* The microphone opens and the recorder starts, or one of them fails.
openMicrophone(k) ==
    /\ client = "web" /\ start[k] = "mic"
    /\ start' = [start EXCEPT ![k] = "over"]
    /\ LET settled == [page EXCEPT !.isStarting = FALSE, !.stopRequested = FALSE]
       IN  \/ /\ ~stopWasRequested
              /\ tape' = [tape EXCEPT ![k] = "on"]
              /\ page' = [settled EXCEPT !.recorder = k, !.take = k]
              /\ UNCHANGED failures
           \/ /\ stopWasRequested
              /\ tape' = [tape EXCEPT ![k] = "stopping"]
              /\ page' = [settled EXCEPT !.recorder = 0, !.take = 0]
              /\ UNCHANGED failures
           \/ /\ Fails
              /\ page' = [settled EXCEPT !.isRecording = FALSE]
              /\ UNCHANGED tape
    /\ UNCHANGED <<client, stops, handle, chunk, awaited, holds, library, editor, reloads>>

\* SoxRecorder.start: sox is spawned, or it is not and the button comes back up.
spawnSox(k) ==
    /\ client = "electron" /\ start[k] = "file"
    /\ start' = [start EXCEPT ![k] = "over"]
    /\ \/ /\ tape' = [tape EXCEPT ![k] = "on"]
          /\ page' = [page EXCEPT !.recorder = k]
          /\ UNCHANGED failures
       \/ /\ Fails
          /\ page' = [page EXCEPT !.isRecording = FALSE]
          /\ UNCHANGED tape
    /\ UNCHANGED <<client, stops, handle, chunk, awaited, holds, library, editor, reloads>>

-----------------------------------------------------------------------------
\* The record button while recording.  On a guest it may be pressed while the
\* microphone still opens; the take and the file's name are read now.
pressStop ==
    /\ ~editor.open /\ page.isRecording
    /\ \E k \in Takes :
          /\ stops[k].stage = "none" /\ \A i \in 1 .. (k - 1) : stops[i].stage # "none"
          /\ stops' = [stops EXCEPT ![k] =
                 [NoStop EXCEPT !.stage = "flush", !.take = page.take,
                                !.shown = page.handleFilename]]
    /\ page' = [page EXCEPT !.isRecording = FALSE, !.take = 0]
    /\ Patient => ~\E k \in Takes : Stopping(k) \/ (client = "electron" /\ Starting(k))
    /\ UNCHANGED <<client, start, tape, handle, chunk, awaited, holds, library, editor,
                   failures, reloads>>

\* The stop s has answered with a claim or none: the editor opens on the file, unless
\* the view that asked is gone.
opens(s, file, claim) ==
    /\ stops' = [stops EXCEPT ![s] = [NoStop EXCEPT !.stage = "over"]]
    /\ editor' = IF file = 0 \/ ~stops[s].here THEN editor
                 ELSE [open |-> TRUE, file |-> file, claim |-> claim]

\* The worker flushed the file, or failed to.  The recorder there is now is the one
\* to stop.  On a desktop this is SoxRecorder.stop, up to its signal to sox.
stopRecorder(s) ==
    /\ stops[s].stage = "flush"
    /\ \/ /\ page.recorder # 0
          /\ tape' = [tape EXCEPT ![page.recorder] = IF @ = "on" THEN "stopping" ELSE @]
          /\ stops' = [stops EXCEPT ![s].stage = "recorder", ![s].recorder = page.recorder]
          /\ page' = IF client = "web" THEN [page EXCEPT !.recorder = 0] ELSE page
          /\ UNCHANGED editor
       \/ /\ page.recorder = 0
          /\ opens(s, stops[s].shown, NoClaim)
          /\ page' = [page EXCEPT !.stopRequested = (client = "web" /\ page.isStarting)]
          /\ UNCHANGED tape
    /\ UNCHANGED <<client, start, handle, chunk, awaited, holds, library, failures, reloads>>

\* The recorder has stopped: the microphone is released and the last chunk, the only
\* one, was posted.  sox writes its file itself, and is killed if it does not stop.
recorderStopped(k) ==
    /\ tape[k] = "stopping"
    /\ tape' = [tape EXCEPT ![k] = "stopped"]
    /\ IF client = "web"
       THEN chunk' = [chunk EXCEPT ![k] = "posted"] /\ UNCHANGED holds
       ELSE holds' = [holds EXCEPT ![k] = k] /\ UNCHANGED chunk
    /\ UNCHANGED <<client, page, start, stops, handle, awaited, library, editor, 
                   failures, reloads>>

\* recorder:write.  Without an open file the chunk is dropped.
receiveChunk(k) ==
    /\ chunk[k] = "posted"
    /\ chunk' = [chunk EXCEPT ![k] = IF handle = 0 THEN "gone" ELSE "writing"]
    /\ awaited' = k
    /\ UNCHANGED <<client, page, start, tape, stops, handle, holds, library, editor, 
                   failures, reloads>>

\* Its bytes have arrived: they go to the file that is open by then, which is closed.
writeChunk(k) ==
    /\ chunk[k] = "writing"
    /\ chunk' = [chunk EXCEPT ![k] = "gone"]
    /\ \/ /\ handle # 0
          /\ holds' = [holds EXCEPT ![handle] = k] /\ handle' = 0
          /\ UNCHANGED failures
       \/ (handle = 0 \/ failures < MaxFailures) /\ UNCHANGED <<holds, handle>>
          /\ failures' = IF handle = 0 THEN failures ELSE failures + 1
    /\ UNCHANGED <<client, page, start, tape, stops, awaited, library, editor, reloads>>

\* The stop event reaches the stop that asked for it.  A stop that had no take ends
\* here; on a desktop the answer names the file of the process that was stopped, and
\* whatever process is current by now is let go.
stopped(s) ==
    /\ stops[s].stage = "recorder" /\ tape[stops[s].recorder] = "stopped"
    /\ \/ /\ client = "web" /\ stops[s].take = 0
          /\ opens(s, stops[s].shown, NoClaim)
          /\ UNCHANGED page
       \/ /\ client = "web" /\ stops[s].take # 0
          /\ stops' = [stops EXCEPT ![s].stage = "claim"]
          /\ UNCHANGED <<page, editor>>
       \/ /\ client = "electron"
          /\ stops' = [stops EXCEPT ![s].stage = "claim", ![s].take = stops[s].recorder,
                                    ![s].shown = stops[s].recorder]
          /\ page' = [page EXCEPT !.recorder = 0]
          /\ UNCHANGED editor
    /\ UNCHANGED <<client, start, tape, handle, chunk, awaited, holds, library, 
                   failures, reloads>>

\* recorder:claim comes after the chunk and waits for the write it finds under way.
\* Mutant: it does not wait.
written_AtOnce(s) == TRUE
written(s) ==
    /\ chunk[stops[s].recorder] # "posted"
    /\ awaited # 0 => chunk[awaited] # "writing"

\* The finished file is hashed and a claim over it signed; or that fails.
claim(s) ==
    /\ stops[s].stage = "claim" /\ (client = "web" => written(s))
    /\ \E c \in {NoClaim, [file |-> stops[s].take, sound |-> holds[stops[s].take]]} :
          opens(s, stops[s].shown, c)
    /\ UNCHANGED <<client, page, start, tape, handle, chunk, awaited, holds, library, 
                   failures, reloads>>

-----------------------------------------------------------------------------
\* storeRecordingAudio for the documents ds: queued without an endpoint, else sent.
stores(ds) ==
    IF endpoint' THEN sending' = [d \in Docs |-> sending[d] + (IF d \in ds THEN 1 ELSE 0)]
                      /\ UNCHANGED pending
    ELSE pending' = pending \cup ds /\ UNCHANGED sending

\* "Save recording", or Enter.  The panel slides away with its buttons, which can still
\* be pressed: it goes on naming the file.
createRecordingDocument ==
    /\ editor.file # 0
    /\ \E d \in Docs :
          /\ docs[d].file = 0 /\ \A e \in 1 .. (d - 1) : docs[e].file # 0
          /\ docs' = [docs EXCEPT ![d] = [Unsaved EXCEPT !.file = editor.file,
                                                         !.claim = editor.claim]]
          /\ UNCHANGED endpoint /\ stores({d})
    /\ editor' = [editor EXCEPT !.open = FALSE]
    /\ UNCHANGED <<client, capture, changes, failures, reloads>>

\* "Delete recording".  A desktop removes the file.
deleteTake ==
    /\ editor.file # 0
    /\ holds' = IF client = "electron" THEN [holds EXCEPT ![editor.file] = 0] ELSE holds
    /\ editor' = [editor EXCEPT !.open = FALSE, !.file = 0]
    /\ UNCHANGED <<client, page, start, tape, stops, handle, chunk, awaited, library, 
                   failures, reloads>>

\* The host stored the file's bytes, and with them the claim if it is over them.
relist(d, added) == docs[d].listed \cup added

uploaded(d) ==
    /\ sending[d] > 0
    /\ LET added == IF docs[d].claim # NoClaim /\ docs[d].claim.sound = holds[docs[d].file]
                    THEN {"claim"} ELSE {}
       IN  docs' = [docs EXCEPT ![d].blob = "stored", ![d].listed = relist(d, added)]
    /\ sending' = [sending EXCEPT ![d] = @ - 1]
    /\ pending' = pending \ {d}
    /\ UNCHANGED <<client, capture, endpoint, changes, editor, failures, reloads>>

\* The file cannot be read, or the host did not answer well: it is queued.
\* Mutant: an upload is taken off the queue once it was tried.
requeued_Tried(d) == pending \ {d}
requeued(d) == pending \cup {d}

uploadFailed(d) ==
    /\ sending[d] > 0
    /\ sending' = [sending EXCEPT ![d] = @ - 1]
    /\ pending' = requeued(d)
    /\ UNCHANGED <<client, capture, docs, endpoint, changes, editor, failures, reloads>>

\* The host adds the record of its session to a document it stored the audio of.
hostLists(d) ==
    /\ docs[d].blob = "stored" /\ "record" \notin docs[d].listed
    /\ docs' = [docs EXCEPT ![d].listed = @ \cup {"record"}]
    /\ UNCHANGED <<client, capture, pending, sending, endpoint, changes, editor, 
                   failures, reloads>>

\* On a desktop the endpoint appears, is replaced or goes away.
endpointChanges ==
    /\ client = "electron" /\ changes < MaxChanges /\ changes' = changes + 1
    /\ endpoint' \in BOOLEAN /\ (endpoint \/ endpoint')
    /\ IF endpoint' THEN stores(pending) ELSE UNCHANGED <<pending, sending>>
    /\ UNCHANGED <<client, capture, docs, editor, failures, reloads>>

\* The view is left and shown again: its editor is gone, and whatever is queued is tried.
showView ==
    /\ changes < MaxChanges /\ changes' = changes + 1
    /\ UNCHANGED endpoint
    /\ IF endpoint THEN stores(pending) ELSE UNCHANGED <<pending, sending>>
    /\ editor' = Closed
    /\ stops' = [k \in Takes |-> IF Stopping(k) THEN [stops[k] EXCEPT !.here = FALSE]
                                 ELSE stops[k]]
    /\ UNCHANGED <<client, page, start, tape, handle, chunk, awaited, holds, docs, failures,
                   reloads>>

\* A guest's page is reloaded: what was under way is gone, with the worker and the
\* microphone; the documents, the files and the queue stay.  The page may have been
\* paired with a host since, and the queue is tried.
reload ==
    /\ client = "web" /\ reloads < MaxReloads /\ reloads' = reloads + 1
    /\ page' = Idle /\ handle' = 0 /\ awaited' = 0 /\ editor' = Closed
    /\ start' = [k \in Takes |-> IF start[k] = "none" THEN "none" ELSE "over"]
    /\ tape' = [k \in Takes |-> IF tape[k] = "off" THEN "off" ELSE "stopped"]
    /\ stops' = [k \in Takes |-> IF stops[k].stage = "none" THEN NoStop
                                 ELSE [NoStop EXCEPT !.stage = "over"]]
    /\ chunk' = [k \in Takes |-> IF chunk[k] = "none" THEN "none" ELSE "gone"]
    /\ endpoint' \in BOOLEAN
    /\ sending' = [d \in Docs |-> IF endpoint' /\ d \in pending THEN 1 ELSE 0]
    /\ UNCHANGED <<client, holds, docs, pending, changes, failures>>

Capture ==
    \E k \in Takes :
        \/ openFile(k) \/ openMicrophone(k) \/ spawnSox(k)
        \/ stopRecorder(k) \/ recorderStopped(k) \/ receiveChunk(k) \/ writeChunk(k)
        \/ stopped(k) \/ claim(k)

RecorderNext ==
    \/ pressStart \/ pressStop \/ Capture
    \/ createRecordingDocument \/ deleteTake
    \/ \E d \in Docs : uploaded(d) \/ uploadFailed(d) \/ hostLists(d)
    \/ endpointChanges \/ showView \/ reload

\* The worker, the microphone and sox answer in the end: calls to the worker and the
\* wait for sox have timeouts.
RecorderSpec == RecorderInit /\ [][RecorderNext]_recorderVars /\ WF_recorderVars(Capture)

-----------------------------------------------------------------------------
RecorderTypeOK ==
    /\ client \in Clients
    /\ page \in [isRecording : BOOLEAN, handleFilename : 0 .. MaxTakes, isStarting : BOOLEAN,
                 stopRequested : BOOLEAN, recorder : 0 .. MaxTakes, take : 0 .. MaxTakes]
    /\ start \in [Takes -> {"none", "file", "mic", "over"}]
    /\ tape \in [Takes -> {"off", "on", "stopping", "stopped"}]
    /\ \A k \in Takes : /\ stops[k].stage \in {"none", "flush", "recorder", "claim", "over"}
                        /\ stops[k].stage = "claim" => stops[k].take # 0
    /\ handle \in 0 .. MaxTakes /\ awaited \in 0 .. MaxTakes
    /\ chunk \in [Takes -> {"none", "posted", "writing", "gone"}]
    /\ holds \in [Takes -> 0 .. MaxTakes]
    /\ editor.file \in 0 .. MaxTakes /\ (editor.open => editor.file # 0)
    /\ \A d \in Docs : /\ docs[d].file \in 0 .. MaxTakes
                       /\ docs[d].listed \subseteq {"claim", "record"}
    /\ pending \subseteq {d \in Docs : docs[d].file # 0}
    /\ sending \in [Docs -> Nat] /\ endpoint \in BOOLEAN

\* A claim is over the bytes its file holds, and goes on holding: however the chunk,
\* the claim and another take's start are handled by the worker (worker.ts, which
\* hashes the finished file before anything is uploaded), or until it is deleted.
StillCovers(c) == c # NoClaim => holds[c.file] \in {c.sound, 0}
ClaimsAreTrue ==
    /\ editor.file # 0 => StillCovers(editor.claim)
    /\ \A d \in Docs : docs[d].file # 0 => StillCovers(docs[d].claim)

\* Pressed in its own time, every recording that is saved has its own sound or lost it
\* to a failure; a stop may come while the microphone is still opening
\* (RecordingContext.tsx).
OwnSound == \A d \in Docs : docs[d].file # 0 => holds[docs[d].file] \in {0, docs[d].file}

\* The claim is the one for the recording at the editor's file (Recorder.tsx).
ClaimIsOwn == editor.open => editor.claim.file \in {0, editor.file}

\* A recording waits in the queue until its document has the audio, over reloads and
\* over attempts that overlap (blobUpload.ts, Recorder.tsx).
QueuedUntilStored == [][\A d \in pending : d \in pending' \/ docs'[d].blob = "stored"]_recorderVars

\* A retried upload must not drop what a document lists (Recorder.tsx).
ListedStays == [][\A d \in Docs : docs[d].listed \subseteq docs'[d].listed]_recorderVars

\* Pressed in its own time, a stop releases the microphone, also when it came before
\* there was a recorder to stop (RecordingContext.tsx).
MicrophoneReleased ==
    \A k \in Takes : (tape[k] = "on" /\ ~page.isRecording) ~> tape[k] = "stopped"

\* The save is guarded against creating two documents for one recording (Recorder.tsx).
OneDocPerTake ==
    \A d, e \in Docs : d # e /\ docs[d].file # 0 => docs[d].file # docs[e].file

\* The document's audio was uploaded, is being uploaded, or is queued (Recorder.tsx).
SavedIsSent ==
    \A d \in Docs : docs[d].file # 0 =>
        docs[d].blob = "stored" \/ sending[d] > 0 \/ d \in pending

\* A recorder that runs can be reached by a stop (StopRecordingChannel.ts).
RunningIsReachable ==
    \A k \in Takes : tape[k] = "on" => page.recorder = k
=============================================================================
