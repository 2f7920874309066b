------------------------------- MODULE Playback -------------------------------
(***************************************************************************)
(* Playing a recording on one device: the player of AudioPlayerContext.tsx *)
(* (AudioPlayer.tsx and Library.tsx press its buttons), and how it finds   *)
(* the audio: the local stores (blobCache.ts), then the hosts, one after   *)
(* the other (blobClient.ts), streamed where the service worker can add    *)
(* the pairing token (blobAuthSw.ts) and fetched whole where it cannot.    *)
(*                                                                         *)
(* A run of the resolving effect is a job.  React runs the effect again    *)
(* whenever the recording, its document or the list of hosts changes; the  *)
(* run before it is cancelled but not stopped, and at most one such run is *)
(* kept.  What a store or a host answers is chosen when it is asked.       *)
(***************************************************************************)
EXTENDS Naturals, Sequences, SequencesExt, FiniteSets

CONSTANTS
    Recs,        \* recordings of the library
    None,        \* no recording
    Configs,     \* what a device may know of its hosts: a set of ConfigType
    MaxRuns,     \* bound: runs of the resolving effect
    MaxHeard,    \* bound: stretches of playback per recording
    Length       \* positions of a recording are 0 .. Length

\* What resolveBlobEndpoints is given: an embedded host, a page served by a host,
\* a remote host from the settings (which may be the page's), a pairing token.
ConfigType == [embedded : BOOLEAN, served : BOOLEAN, remote : {"none", "page", "other"},
               token : BOOLEAN]

ASSUME PlaybackAssumption ==
    /\ None \notin Recs /\ Configs \subseteq ConfigType /\ Configs # {}
    /\ MaxRuns \in Nat /\ MaxHeard \in Nat /\ Length \in Nat

VARIABLES
    config,      \* what the endpoints are resolved from
    controlled,  \* the service worker handles this page's requests
    cur,         \* the recording in the player
    docs,        \* recordings whose documents are loaded
    playing,     \* isPlaying
    state,       \* playbackState
    failure,     \* playbackFailure, and of which recording: a pair
    element,     \* the recording whose audio the element has as its source
    loaded,      \* whether loadedSrcRef holds a source
    length,      \* whether the length of what is loaded is known
    pos,         \* where the element is in it
    last,        \* lastTimeRef
    job,         \* the run of the resolving effect in force
    stale,       \* the run before it, when it had not ended
    session,     \* the play session: its recording, and how much of it was played
    runs,        \* runs of the effect so far
    heard,       \* heard[r]: stretches in which the audio of r was heard
    reported     \* reported[r]: plays of r handed to the queue

player  == <<state, failure, element, loaded, length, pos>>
jobs    == <<job, stale, runs>>
plays   == <<session, last, heard, reported>>
vars    == <<config, controlled, cur, docs, playing, player, jobs, plays>>

NoJob     == [rec |-> None, stage |-> "over", left |-> <<>>, seen |-> {}, ctl |-> FALSE]
NoSession == [rec |-> None, played |-> 0]
Reasons   == {"unpaired", "unauthorized", "missing", "unreachable", "not-uploaded"}
Answers   == {"ok", "rejected", "absent", "network", "broken"}

\* The hosts, in the order they are tried.  The page's host and a remote one that
\* is the same are one entry.
resolveBlobEndpoints(c) ==
    LET own    == IF c.embedded THEN <<"own">> ELSE <<>>
        page   == IF c.served THEN <<"page">> ELSE <<>>
        remote == IF c.token /\ c.remote # "none" /\ ~(c.served /\ c.remote = "page")
                  THEN <<c.remote>> ELSE <<>>
    IN  own \o page \o remote

\* The element can be pointed at a host that asks for no token, or at the page's
\* own, where the service worker adds it.
canStreamBlob(c, h, ctl) == h # "own" /\ (~c.token \/ (ctl /\ h = "page"))

Init ==
    /\ config \in Configs /\ controlled = FALSE
    /\ cur = None /\ element = None /\ docs = {}
    /\ playing = FALSE /\ loaded = FALSE /\ length = FALSE
    /\ state = "idle" /\ failure = <<"none", None>>
    /\ job = NoJob /\ stale = NoJob /\ session = NoSession
    /\ runs = 0 /\ pos = 0 /\ last = 0
    /\ heard = [r \in Recs |-> 0] /\ reported = [r \in Recs |-> 0]

-----------------------------------------------------------------------------
\* Detaching the element: whatever it was playing stops and is forgotten.
\* Mutant: the element keeps its source until the next one is found.
detached_Keeps == element
detached == None

\* The resolving effect runs for recording c: the run before it is cancelled, the
\* element is detached and, once the document is there, a new run begins.
Resolve(c, ds) ==
    /\ runs < MaxRuns /\ runs' = runs + 1
    /\ stale' = IF job.stage = "over" THEN stale ELSE job
    /\ element' = detached /\ loaded' = FALSE /\ pos' = 0
    /\ IF c = None \/ c \notin ds
       THEN /\ job' = NoJob
            /\ UNCHANGED <<state, failure, length>>
       ELSE /\ job' = [NoJob EXCEPT !.rec = c, !.stage = "document"]
            /\ state' = "loading" /\ failure' = <<"none", None>> /\ length' = FALSE

\* Long enough to count: MIN_PLAY_SECONDS of it were played.
longEnough(s) == s.played > 0

\* A session that ends counts as a play if enough of it was heard and its length
\* can be told.
closePlaySession(s) ==
    reported' = IF s.rec # None /\ longEnough(s) /\ length
                THEN [reported EXCEPT ![s.rec] = @ + 1] ELSE reported

\* The session effect: one session for as long as one recording is playing.  It
\* runs after the resolving effect, which has put the element back to 0.
Sessions(c, p) ==
    IF c = cur /\ p = playing THEN UNCHANGED <<session, last, reported>>
    ELSE /\ closePlaySession(session)
         /\ IF p /\ c # None
            THEN session' = [NoSession EXCEPT !.rec = c] /\ last' = IF c = cur THEN pos ELSE 0
            ELSE session' = NoSession /\ UNCHANGED last

\* A button was pressed, or something else set the recording and isPlaying.
Commit(c, p) ==
    /\ cur' = c /\ playing' = p
    /\ Sessions(c, p)
    /\ IF c = cur THEN UNCHANGED <<player, jobs>> ELSE Resolve(c, docs)
    /\ UNCHANGED <<config, controlled, docs, heard>>

playRecording(r) == <<cur, playing>> # <<r, TRUE>> /\ Commit(r, TRUE)

togglePlaying == cur # None /\ Commit(cur, ~playing)

stopPlaying == cur # None /\ Commit(None, FALSE)

\* The document arrives: the effect runs if it is the one that was waited for.
documentLoads(r) ==
    /\ r \notin docs
    /\ docs' = docs \cup {r}
    /\ IF r = cur THEN Resolve(cur, docs') ELSE UNCHANGED <<player, jobs>>
    /\ UNCHANGED <<config, controlled, cur, playing, plays>>

\* The document changes, or what is known of the hosts: the effect runs again.
dependencyChanges(c) ==
    /\ cur \in docs
    /\ config' = c
    /\ Resolve(cur, docs)
    /\ UNCHANGED <<controlled, cur, docs, playing, plays>>

\* The service worker claims the page, some time after the first paint.
claimed ==
    /\ ~controlled /\ config.served
    /\ controlled' = TRUE
    /\ UNCHANGED <<config, cur, docs, playing, player, jobs, plays>>

-----------------------------------------------------------------------------
\* The runs: the one in force, and one that was cancelled but has not ended.
Jobs == {"live", "cancelled"}
The(j) == IF j = "live" THEN job ELSE stale
Becomes(j, x) ==
    IF j = "live" THEN job' = x /\ UNCHANGED stale ELSE stale' = x /\ UNCHANGED job
Over(j) == Becomes(j, NoJob)
\* Mutant: the cleanup does not mark the run.
isCancelled_Never(j) == FALSE
isCancelled(j) == j = "cancelled"

\* play: a source is handed to the element, unless the run was cancelled.
play(j) ==
    /\ Over(j)
    /\ IF isCancelled(j) THEN UNCHANGED <<state, element, loaded, pos>>
       ELSE element' = The(j).rec /\ loaded' = TRUE /\ state' = "ready" /\ pos' = 0
    /\ UNCHANGED <<config, controlled, cur, docs, playing, failure, length, runs, plays>>

\* Nothing found: the reason is shown, and the transport stops.
settles(reason, r) == state' = "error" /\ failure' = <<reason, r>>

fail(j, reason) ==
    /\ Over(j)
    /\ IF isCancelled(j)
       THEN UNCHANGED <<playing, session, last, reported, state, failure>>
       ELSE /\ settles(reason, The(j).rec)
            /\ playing' = FALSE /\ Sessions(cur, FALSE)
    /\ UNCHANGED <<config, controlled, cur, docs, element, loaded, length, pos, runs, heard>>

Stage(j, x) ==
    /\ Becomes(j, x)
    /\ UNCHANGED <<config, controlled, cur, docs, playing, player, runs, plays>>

\* The document's own bytes, the cache, this device's own file.  What a lookup
\* finds is played; what it does not find moves on.
embeddedAudio(j) ==
    /\ The(j).stage = "document"
    /\ play(j) \/ Stage(j, [The(j) EXCEPT !.stage = "cache"])

cachedBlobSource(j) ==
    /\ The(j).stage = "cache"
    /\ play(j) \/ Stage(j, [The(j) EXCEPT !.stage = "own"])

\* localSource; then the hosts, if the document has a hash and there are any.
localSource(j) ==
    LET hosts == resolveBlobEndpoints(config)
    IN  /\ The(j).stage = "own"
        /\ \/ play(j)
           \/ fail(j, "not-uploaded")
           \/ hosts = <<>> /\ fail(j, "unpaired")
           \/ /\ hosts # <<>>
              /\ Stage(j, [The(j) EXCEPT !.stage = "ask", !.left = hosts, !.ctl = controlled])

\* Precedence when hosts disagree: a host that rejects us, then one nobody could
\* reach, then one that has not got it.
classifyBlobFailure(seen) ==
    IF "rejected" \in seen THEN "unauthorized"
    ELSE IF "network" \in seen THEN "unreachable"
    ELSE IF "absent" \in seen THEN "missing"
    ELSE "unreachable"

\* probeBlobEndpoints and fetchBlobFromAny: the next host is asked.  Whatever it
\* answers but the bytes is kept, and the one after it is asked.  "broken" is 5xx,
\* and 408, as which a host that did not start to answer in time is reported.
askNext(j) ==
    LET x == The(j)
        h == Head(x.left)
        streams == \E i \in DOMAIN resolveBlobEndpoints(config) :
                       canStreamBlob(config, resolveBlobEndpoints(config)[i], x.ctl)
    IN  /\ x.stage = "ask" /\ x.left # <<>>
        /\ \/ IF streams /\ ~canStreamBlob(config, h, x.ctl)
              THEN Stage(j, [x EXCEPT !.stage = "buffer", !.left = <<>>])
              ELSE play(j)
           \/ \E a \in Answers \ {"ok"} :
                  Stage(j, [x EXCEPT !.left = Tail(@), !.seen = @ \cup {a}])

\* A cancelled run was aborted: its request fails and it asks nobody else.
aborted(j) ==
    /\ isCancelled(j) /\ The(j).stage \in {"ask", "buffer"}
    /\ Stage(j, NoJob)

askedAll(j) ==
    /\ The(j).stage = "ask" /\ The(j).left = <<>>
    /\ fail(j, classifyBlobFailure(The(j).seen))

\* fetchBlob from the one host that has the bytes but cannot be streamed from.
fetchBlob(j) ==
    /\ The(j).stage = "buffer"
    /\ play(j) \/ \E a \in Answers \ {"ok"} : fail(j, classifyBlobFailure({a}))

-----------------------------------------------------------------------------
\* The element.
loadedMetadata ==
    /\ element # None /\ ~length
    /\ length' = TRUE
    /\ UNCHANGED <<config, controlled, cur, docs, playing, state, failure, element, loaded, pos,
                   jobs, plays>>

\* The part of a step that was playback: forwards, and not further than the
\* element moves between two reports.
trackPlayback(time) ==
    IF session.rec = None THEN UNCHANGED <<session, last>>
    ELSE /\ session' = [session EXCEPT !.played = IF time = last + 1 THEN @ + 1 ELSE @]
         /\ last' = time

timeUpdate ==
    /\ element # None /\ length
    /\ \/ /\ playing /\ pos < Length /\ heard[element] < MaxHeard
          /\ pos' = pos + 1 /\ heard' = [heard EXCEPT ![element] = @ + 1]
       \/ UNCHANGED <<pos, heard>>
    /\ trackPlayback(pos')
    /\ UNCHANGED <<config, controlled, cur, docs, playing, state, failure, element, loaded,
                   length, jobs, reported>>

\* The listener drags the strip or presses a key.  A jump is not listening.
\* Mutant: the next report is measured from before the jump.
rebaseline_Not(time) == last
rebaseline(time) == time

seek(time) ==
    /\ element # None /\ length /\ time # pos
    /\ pos' = time /\ last' = rebaseline(time)
    /\ UNCHANGED <<config, controlled, cur, docs, playing, state, failure, element, loaded,
                   length, jobs, session, heard, reported>>

ended ==
    /\ playing /\ element # None /\ length /\ pos = Length
    /\ Commit(cur, FALSE)

\* The element reports an error: of its source, or of the one it is losing.
\* Mutant: every error is taken for one of what is playing.
isOurs_Any == TRUE
isOurs == loaded

onError ==
    /\ cur # None /\ isOurs
    /\ loaded' = FALSE
    /\ settles("unreachable", element)
    /\ playing' = FALSE /\ Sessions(cur, FALSE)
    /\ UNCHANGED <<config, controlled, cur, docs, element, length, pos, jobs, heard>>

Steps(j) ==
    \/ embeddedAudio(j) \/ cachedBlobSource(j) \/ localSource(j)
    \/ askNext(j) \/ askedAll(j) \/ fetchBlob(j) \/ aborted(j)

Next ==
    \/ \E r \in Recs : playRecording(r) \/ documentLoads(r)
    \/ togglePlaying \/ stopPlaying \/ claimed
    \/ \E c \in Configs : dependencyChanges(c)
    \/ \E j \in Jobs : Steps(j)
    \/ loadedMetadata \/ timeUpdate \/ ended \/ onError
    \/ \E time \in 0 .. Length : seek(time)

\* Every lookup answers, and a host that says nothing is given up on after
\* BLOB_RESPONSE_TIMEOUT_MS; the transfer of a body is taken to end.
Spec == Init /\ [][Next]_vars /\ WF_vars(Steps("live"))

-----------------------------------------------------------------------------
JobType == [rec : Recs \cup {None}, left : Seq({"own", "page", "other"}), seen : SUBSET Answers,
            stage : {"document", "cache", "own", "ask", "buffer", "over"}, ctl : BOOLEAN]

TypeOK ==
    /\ config \in Configs /\ controlled \in BOOLEAN
    /\ cur \in Recs \cup {None} /\ element \in Recs \cup {None}
    /\ docs \subseteq Recs
    /\ {playing, loaded, length} \subseteq BOOLEAN
    /\ state \in {"idle", "loading", "ready", "error"}
    /\ failure \in (Reasons \cup {"none"}) \X (Recs \cup {None})
    /\ {job, stale} \subseteq JobType
    /\ session \in [rec : Recs \cup {None}, played : 0 .. MaxHeard]
    /\ runs \in 0 .. MaxRuns /\ {pos, last} \subseteq 0 .. Length
    /\ heard \in [Recs -> 0 .. MaxHeard] /\ reported \in [Recs -> 0 .. MaxHeard]

\* What is heard is what the player names: the element never keeps the audio of
\* a recording the user has moved on from, and no lookup that was overtaken puts
\* its own in.
HeardIsCurrent == element # None => element = cur

\* A play is reported for the recording that was heard: never more plays of a
\* recording than stretches of it were played, whatever was dragged and pressed.
PlaysWereHeard == \A r \in Recs : reported[r] <= heard[r]

\* The transport of a recording whose document is there says what is going on:
\* it is looked for, or it can be heard, or the failure is its own.
TransportIsTrue ==
    cur \in docs => /\ (state = "loading") <=> (job # NoJob)
                    /\ state = "ready" => element = cur
                    /\ state = "error" => failure[2] = cur

\* The reason weighs every host that was asked: re-pairing is offered whenever
\* one rejected us, and "the host does not have it" only when every one that
\* answered said so.
ReasonWeighsAll ==
    [][askedAll("live") /\ state' = "error" =>
         /\ ("rejected" \in job.seen) <=> (failure'[1] = "unauthorized")
         /\ (failure'[1] = "missing") =>
                "absent" \in job.seen /\ job.seen \cap {"rejected", "network"} = {}]_vars

\* `ready` means the element has a source (AudioPlayerContext.tsx).
ReadyHasSource == state = "ready" => element # None

\* Looking for the audio ends: with a source, or with a reason.
LoadingEnds == (state = "loading" /\ cur \in docs) ~> (state # "loading" \/ cur \notin docs)
=============================================================================
