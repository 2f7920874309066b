----------------------------- MODULE PlaybackProofs -----------------------------
(***************************************************************************)
(* Proofs about Playback: the element plays the recording the player       *)
(* names, the transport says what is going on, and no more plays are       *)
(* reported than were heard; for any recordings, hosts and number of runs  *)
(* of the resolving effect.                                                *)
(***************************************************************************)
EXTENDS Playback, SequenceTheorems, TLAPS

\* A run in force is of the current recording, whose document is there; until it
\* ends the element has no source and the transport shows that it is looked for.
JobInForce ==
    /\ job.stage = "over" => job = NoJob
    /\ job.stage # "over" => job.rec = cur /\ cur \in docs /\ ~loaded /\ state = "loading"

\* The source handed over last is the element's.
SourceIsThere == loaded => element # None

\* A session is of the recording that plays, and what it was last told of is not
\* behind the element: a position reported twice, or again from 0, is no playback.
SessionInForce ==
    /\ session.rec # None => session.rec = cur /\ playing /\ pos <= last
    /\ session.rec = None => session.played = 0

\* What was reported of a recording, and what its session would report, was heard.
ReportedWasHeard ==
    \A r \in Recs : reported[r] + (IF session.rec = r THEN session.played ELSE 0) <= heard[r]

Inv ==
    /\ TypeOK /\ JobInForce /\ HeardIsCurrent /\ SourceIsThere /\ TransportIsTrue
    /\ SessionInForce /\ ReportedWasHeard
-----------------------------------------------------------------------------
(* What a step may be. *)

Names == Recs \cup {None}
Hosts == {"own", "page", "other"}

\* The hosts to ask are a sequence of hosts.
LEMMA EndpointsTyped ==
    ASSUME NEW c \in ConfigType
    PROVE  resolveBlobEndpoints(c) \in Seq(Hosts)
<1>1. c.remote \in {"none", "page", "other"}
  BY DEF ConfigType
<1> DEFINE own    == IF c.embedded THEN <<"own">> ELSE <<>>
           page   == IF c.served THEN <<"page">> ELSE <<>>
           remote == IF c.token /\ c.remote # "none" /\ ~(c.served /\ c.remote = "page")
                     THEN <<c.remote>> ELSE <<>>
<1>s. <<>> \in Seq(Hosts) /\ \A h \in Hosts : <<h>> \in Seq(Hosts)
  OBVIOUS
<1>2. own \in Seq(Hosts)
  <2>1. <<"own">> \in Seq(Hosts)
    BY <1>s DEF Hosts
  <2> QED BY <1>s, <2>1, Zenon
<1>3. page \in Seq(Hosts)
  <2>1. <<"page">> \in Seq(Hosts)
    BY <1>s DEF Hosts
  <2> QED BY <1>s, <2>1, Zenon
<1>4. remote \in Seq(Hosts)
  <2>1. CASE c.remote # "none"
    <3>1. c.remote \in Hosts
      BY <1>1, <2>1 DEF Hosts
    <3>2. <<c.remote>> \in Seq(Hosts)
      BY <1>s, <3>1
    <3> QED BY <1>s, <3>2, Zenon
  <2>2. CASE c.remote = "none"
    <3>1. remote = <<>>
      BY <2>2, Zenon
    <3> QED BY <1>s, <3>1, Zenon
  <2> QED BY <2>1, <2>2, Zenon
<1>5. resolveBlobEndpoints(c) = (own \o page) \o remote
  BY DEF resolveBlobEndpoints
<1> HIDE DEF own, page, remote
<1>6. own \o page \in Seq(Hosts)
  BY <1>2, <1>3, ConcatProperties
<1>7. (own \o page) \o remote \in Seq(Hosts)
  BY <1>4, <1>6, ConcatProperties
<1> QED BY <1>5, <1>7

\* A run that goes on keeps its recording; only one that was cancelled stops without
\* an answer.
GoesOn(j, x) ==
    \/ x.rec = The(j).rec /\ x.stage # "over"
    \/ j = "cancelled" /\ x = NoJob

LEMMA JobsTyped ==
    ASSUME TypeOK, NEW j \in Jobs
    PROVE  The(j) \in JobType
BY DEF TypeOK, The, Jobs

LEMMA NoJobTyped == NoJob \in JobType
<1>1. <<>> \in Seq({"own", "page", "other"})
  OBVIOUS
<1> QED BY <1>1 DEF NoJob, JobType

\* A lookup that found nothing goes on to the next.
LEMMA StageTyped ==
    ASSUME NEW x \in JobType, NEW st \in {"cache", "own"}
    PROVE  [x EXCEPT !.stage = st] \in JobType /\ [x EXCEPT !.stage = st].rec = x.rec
           /\ [x EXCEPT !.stage = st].stage # "over"
BY DEF JobType

LEMMA LookupSteps ==
    ASSUME TypeOK, NEW j \in Jobs, Steps(j)
    PROVE  /\ The(j).stage # "over"
           /\ \/ play(j)
              \/ \E reason \in Reasons : fail(j, reason)
              \/ \E x \in JobType : Stage(j, x) /\ GoesOn(j, x)
<1>1. The(j) \in JobType
  BY JobsTyped
<1> DEFINE Goal == /\ The(j).stage # "over"
                   /\ \/ play(j)
                      \/ \E reason \in Reasons : fail(j, reason)
                      \/ \E x \in JobType : Stage(j, x) /\ GoesOn(j, x)
<1>r. \A seen : classifyBlobFailure(seen) \in Reasons
  BY DEF classifyBlobFailure, Reasons
<1>2. CASE embeddedAudio(j)
  <2>1. The(j).stage = "document"
    BY <1>2 DEF embeddedAudio
  <2>2. CASE Stage(j, [The(j) EXCEPT !.stage = "cache"])
    <3>1. [The(j) EXCEPT !.stage = "cache"] \in JobType
          /\ GoesOn(j, [The(j) EXCEPT !.stage = "cache"])
      BY <1>1, StageTyped DEF GoesOn
    <3> QED BY <2>1, <2>2, <3>1
  <2> QED BY <1>2, <2>1, <2>2 DEF embeddedAudio
<1>3. CASE cachedBlobSource(j)
  <2>1. The(j).stage = "cache"
    BY <1>3 DEF cachedBlobSource
  <2>2. CASE Stage(j, [The(j) EXCEPT !.stage = "own"])
    <3>1. [The(j) EXCEPT !.stage = "own"] \in JobType
          /\ GoesOn(j, [The(j) EXCEPT !.stage = "own"])
      BY <1>1, StageTyped DEF GoesOn
    <3> QED BY <2>1, <2>2, <3>1
  <2> QED BY <1>3, <2>1, <2>2 DEF cachedBlobSource
<1>4. CASE localSource(j)
  <2> DEFINE hosts == resolveBlobEndpoints(config)
             x == [The(j) EXCEPT !.stage = "ask", !.left = hosts, !.ctl = controlled]
  <2>1. The(j).stage = "own"
    BY <1>4 DEF localSource
  <2>2. hosts \in Seq({"own", "page", "other"})
    BY EndpointsTyped, PlaybackAssumption DEF TypeOK, Hosts
  <2>3. controlled \in BOOLEAN
    BY DEF TypeOK
  <2> HIDE DEF hosts
  <2>4. x \in JobType /\ x.rec = The(j).rec /\ x.stage = "ask"
    BY <1>1, <2>2, <2>3 DEF JobType
  <2>5. play(j) \/ fail(j, "not-uploaded") \/ fail(j, "unpaired") \/ Stage(j, x)
    BY <1>4 DEF localSource, hosts
  <2> HIDE DEF x
  <2>6. {"not-uploaded", "unpaired"} \subseteq Reasons
    BY DEF Reasons
  <2> QED BY <2>1, <2>4, <2>5, <2>6 DEF GoesOn
<1>5. CASE askNext(j)
  <2>1. The(j).stage = "ask" /\ The(j).left # <<>>
    BY <1>5 DEF askNext
  <2> DEFINE b == [The(j) EXCEPT !.stage = "buffer", !.left = <<>>]
             n(a) == [The(j) EXCEPT !.left = Tail(@), !.seen = @ \cup {a}]
  <2>2. b \in JobType /\ b.rec = The(j).rec /\ b.stage = "buffer"
    <3>1. <<>> \in Seq({"own", "page", "other"})
      OBVIOUS
    <3> QED BY <1>1, <3>1 DEF JobType
  <2>3. ASSUME NEW a \in Answers
        PROVE  n(a) \in JobType /\ n(a).rec = The(j).rec /\ n(a).stage = "ask"
    <3>1. The(j).left \in Seq({"own", "page", "other"})
      BY <1>1 DEF JobType
    <3>2. Tail(The(j).left) \in Seq({"own", "page", "other"})
      BY <2>1, <3>1, HeadTailProperties
    <3> DEFINE l == Tail(The(j).left)
    <3>3. n(a) = [The(j) EXCEPT !.left = l, !.seen = @ \cup {a}] /\ l \in Seq({"own", "page", "other"})
      BY <3>2
    <3> HIDE DEF l
    <3>4. The(j).seen \cup {a} \in SUBSET Answers
      BY <1>1 DEF JobType
    <3> QED BY <1>1, <2>1, <3>3, <3>4 DEF JobType
  <2>4. play(j) \/ Stage(j, b) \/ \E a \in Answers : Stage(j, n(a))
    BY <1>5 DEF askNext
  <2> HIDE DEF b, n
  <2> QED BY <2>1, <2>2, <2>3, <2>4 DEF GoesOn
<1>6. CASE askedAll(j)
  BY <1>6, <1>r DEF askedAll
<1>7. CASE fetchBlob(j)
  BY <1>7, <1>r DEF fetchBlob
<1>8. CASE aborted(j)
  BY <1>8, NoJobTyped DEF aborted, isCancelled, GoesOn
<1> QED BY <1>2, <1>3, <1>4, <1>5, <1>6, <1>7, <1>8 DEF Steps

LEMMA StepCases ==
    ASSUME TypeOK, Next
    PROVE  \/ \E c \in Names, p \in BOOLEAN : Commit(c, p)
           \/ \E r \in Recs : documentLoads(r)
           \/ \E c \in Configs : dependencyChanges(c)
           \/ claimed
           \/ \E j \in Jobs : The(j).stage # "over" /\ play(j)
           \/ \E j \in Jobs : The(j).stage # "over" /\ \E reason \in Reasons : fail(j, reason)
           \/ \E j \in Jobs : /\ The(j).stage # "over"
                              /\ \E x \in JobType : Stage(j, x) /\ GoesOn(j, x)
           \/ loadedMetadata \/ timeUpdate \/ onError
           \/ \E time \in 0 .. Length : seek(time)
<1>0. cur \in Names /\ playing \in BOOLEAN /\ Recs \subseteq Names /\ None \in Names
  BY DEF TypeOK, Names
<1>1. ASSUME NEW r \in Recs, playRecording(r)
      PROVE  \E c \in Names, p \in BOOLEAN : Commit(c, p)
  BY <1>0, <1>1 DEF playRecording
<1>2. ASSUME togglePlaying \/ stopPlaying \/ ended
      PROVE  \E c \in Names, p \in BOOLEAN : Commit(c, p)
  BY <1>0, <1>2 DEF togglePlaying, stopPlaying, ended
<1> QED BY <1>1, <1>2, LookupSteps DEF Next

-----------------------------------------------------------------------------
(* What the effects do. *)

Sources == [rec : Recs \cup {None}, played : 0 .. MaxHeard]

LEMMA Constants ==
    /\ None \notin Recs /\ MaxRuns \in Nat /\ MaxHeard \in Nat /\ Length \in Nat
    /\ NoSession \in Sources /\ NoSession.rec = None /\ NoSession.played = 0
    /\ NoJob.rec = None /\ NoJob.stage = "over"
    /\ \A c \in Names : LET s == [NoSession EXCEPT !.rec = c]
                        IN  s \in Sources /\ s.rec = c /\ s.played = 0
BY PlaybackAssumption DEF NoSession, Sources, NoJob, Names

\* The resolving effect.
LEMMA ResolveDoes ==
    ASSUME TypeOK, NEW c \in Names, NEW ds \in SUBSET Recs, Resolve(c, ds)
    PROVE  /\ element' = None /\ loaded' = FALSE /\ pos' = 0
           /\ runs' \in 0 .. MaxRuns /\ stale' \in JobType /\ job' \in JobType
           /\ c \notin ds => job' = NoJob /\ UNCHANGED <<state, failure, length>>
           /\ c \in ds => /\ job'.rec = c /\ job'.stage = "document" /\ state' = "loading"
                          /\ failure' = <<"none", None>> /\ length' = FALSE
<1>1. runs' \in 0 .. MaxRuns
  BY Constants DEF Resolve, TypeOK
<1>2. stale' \in JobType
  BY DEF Resolve, TypeOK
<1>3. element' = None /\ loaded' = FALSE /\ pos' = 0
  BY DEF Resolve, detached
<1>4. CASE c \notin ds
  BY <1>1, <1>2, <1>3, <1>4, NoJobTyped DEF Resolve
<1>5. CASE c \in ds
  <2>1. c # None
    BY <1>5, Constants
  <2> DEFINE j == [NoJob EXCEPT !.rec = c, !.stage = "document"]
  <2>2. j \in JobType /\ j.rec = c /\ j.stage = "document"
    BY NoJobTyped DEF JobType, Names
  <2>3. /\ job' = j /\ state' = "loading" /\ failure' = <<"none", None>> /\ length' = FALSE
    BY <1>5, <2>1 DEF Resolve
  <2> HIDE DEF j
  <2> QED BY <1>1, <1>2, <1>3, <1>5, <2>2, <2>3
<1> QED BY <1>4, <1>5

\* What session and reports together say of a recording.
Due(r) == reported[r] + (IF session.rec = r THEN session.played ELSE 0)

\* The session effect: what it reports was due.
LEMMA SessionsDoes ==
    ASSUME TypeOK, SessionInForce, ReportedWasHeard,
           NEW c \in Names, NEW p \in BOOLEAN, Sessions(c, p)
    PROVE  /\ session' \in Sources /\ last' \in 0 .. Length
           /\ reported' \in [Recs -> 0 .. MaxHeard]
           /\ \A r \in Recs : reported'[r] + (IF session'.rec = r THEN session'.played ELSE 0)
                                <= heard[r]
           /\ session'.rec = None => session'.played = 0
           /\ \/ c = cur /\ p = playing /\ UNCHANGED <<session, last>>
              \/ session'.rec = None
              \/ p /\ session'.rec = c /\ last' = IF c = cur THEN pos ELSE 0
<1>0. /\ session \in Sources /\ last \in 0 .. Length /\ pos \in 0 .. Length
      /\ reported \in [Recs -> 0 .. MaxHeard] /\ heard \in [Recs -> 0 .. MaxHeard]
      /\ Length \in Nat /\ MaxHeard \in Nat
  BY Constants DEF TypeOK, Sources
<1>h. \A r \in Recs : reported[r] + (IF session.rec = r THEN session.played ELSE 0) <= heard[r]
  BY DEF ReportedWasHeard
<1>1. CASE c = cur /\ p = playing
  <2>1. UNCHANGED <<session, last, reported>>
    BY <1>1 DEF Sessions
  <2> QED BY <1>0, <1>1, <1>h, <2>1 DEF SessionInForce
<1>2. CASE ~(c = cur /\ p = playing)
  <2>1. closePlaySession(session)
    BY <1>2 DEF Sessions
  <2>2. \/ session' = NoSession /\ last' = last
        \/ p /\ session' = [NoSession EXCEPT !.rec = c] /\ last' = IF c = cur THEN pos ELSE 0
    BY <1>2 DEF Sessions
  <2>3. session' \in Sources /\ session'.played = 0 /\ last' \in 0 .. Length
        /\ \/ session'.rec = None
           \/ p /\ session'.rec = c /\ last' = IF c = cur THEN pos ELSE 0
    <3>1. CASE session' = NoSession /\ last' = last
      BY <1>0, <3>1, Constants
    <3>2. CASE /\ p /\ session' = [NoSession EXCEPT !.rec = c]
               /\ last' = IF c = cur THEN pos ELSE 0
      BY <1>0, <3>2, Constants
    <3> QED BY <2>2, <3>1, <3>2
  <2>4. \/ reported' = reported
        \/ /\ session.rec # None /\ session.played > 0
           /\ reported' = [reported EXCEPT ![session.rec] = @ + 1]
    BY <2>1 DEF closePlaySession, longEnough
  <2>5. /\ reported' \in [Recs -> 0 .. MaxHeard]
        /\ \A r \in Recs : reported'[r] <= heard[r]
    <3>1. CASE reported' = reported
      BY <1>0, <1>h, <3>1 DEF Sources
    <3>2. CASE /\ session.rec # None /\ session.played > 0
               /\ reported' = [reported EXCEPT ![session.rec] = @ + 1]
      <4>1. session.rec \in Recs /\ session.played \in 0 .. MaxHeard
        BY <1>0, <3>2 DEF Sources
      <4>2. reported[session.rec] + session.played <= heard[session.rec]
        BY <1>h, <4>1
      <4>3. /\ reported[session.rec] + 1 \in 0 .. MaxHeard
            /\ reported[session.rec] + 1 <= heard[session.rec]
        BY <1>0, <3>2, <4>1, <4>2
      <4>4. \A r \in Recs : reported[r] <= heard[r]
        BY <1>0, <1>h DEF Sources
      <4> QED BY <1>0, <3>2, <4>1, <4>3, <4>4
    <3> QED BY <2>4, <3>1, <3>2
  <2> QED BY <1>0, <2>3, <2>5
<1> QED BY <1>1, <1>2

-----------------------------------------------------------------------------
(* The steps, one by one. *)

LEMMA CommitStep ==
    ASSUME Inv, NEW c \in Names, NEW p \in BOOLEAN, Commit(c, p)
    PROVE  Inv'
<1>0. TypeOK /\ JobInForce /\ HeardIsCurrent /\ SourceIsThere /\ TransportIsTrue
      /\ SessionInForce /\ ReportedWasHeard
  BY DEF Inv
<1>1. cur' = c /\ playing' = p /\ Sessions(c, p)
      /\ UNCHANGED <<config, controlled, docs, heard>>
  BY DEF Commit
<1>2. /\ session' \in Sources /\ last' \in 0 .. Length
      /\ reported' \in [Recs -> 0 .. MaxHeard]
      /\ \A r \in Recs : reported'[r] + (IF session'.rec = r THEN session'.played ELSE 0)
                           <= heard[r]
      /\ session'.rec = None => session'.played = 0
      /\ \/ c = cur /\ p = playing /\ UNCHANGED <<session, last>>
         \/ session'.rec = None
         \/ p /\ session'.rec = c /\ last' = IF c = cur THEN pos ELSE 0
  BY <1>0, <1>1, SessionsDoes
<1>3. ReportedWasHeard'
  BY <1>1, <1>2 DEF ReportedWasHeard
<1>4. docs \in SUBSET Recs /\ None \notin Recs /\ pos \in 0 .. Length /\ Length \in Nat
  BY <1>0, Constants DEF TypeOK
<1>5. CASE c = cur
  <2>1. UNCHANGED <<player, jobs>>
    BY <1>5 DEF Commit
  <2>2. TypeOK'
    BY <1>0, <1>1, <1>2, <2>1 DEF TypeOK, player, jobs, Sources, Names
  <2>3. JobInForce' /\ HeardIsCurrent' /\ SourceIsThere' /\ TransportIsTrue'
    BY <1>0, <1>1, <1>5, <2>1
       DEF JobInForce, HeardIsCurrent, SourceIsThere, TransportIsTrue, player, jobs
  <2>4. SessionInForce'
    <3>1. pos' = pos /\ cur' = cur
      BY <1>1, <1>5, <2>1 DEF player
    <3> QED BY <1>0, <1>1, <1>2, <1>4, <1>5, <3>1 DEF SessionInForce
  <2> QED BY <1>3, <2>2, <2>3, <2>4 DEF Inv
<1>6. CASE c # cur
  <2>0. Resolve(c, docs)
    BY <1>6 DEF Commit
  <2>1. /\ element' = None /\ loaded' = FALSE /\ pos' = 0
        /\ runs' \in 0 .. MaxRuns /\ stale' \in JobType /\ job' \in JobType
        /\ c \notin docs => job' = NoJob /\ UNCHANGED <<state, failure, length>>
        /\ c \in docs => /\ job'.rec = c /\ job'.stage = "document" /\ state' = "loading"
                         /\ failure' = <<"none", None>> /\ length' = FALSE
    BY <1>0, <1>4, <2>0, ResolveDoes
  <2>2. TypeOK'
    <3>1. /\ state' \in {"idle", "loading", "ready", "error"} /\ length' \in BOOLEAN
          /\ failure' \in (Reasons \cup {"none"}) \X (Recs \cup {None})
      <4>1. CASE c \in docs
        <5>1. state' = "loading" /\ failure' = <<"none", None>>
          BY <2>1, <4>1
        <5>2. length' = FALSE
          BY <2>1, <4>1
        <5>3. length' \in BOOLEAN
          BY <5>2, Zenon
        <5>4. failure' \in (Reasons \cup {"none"}) \X (Recs \cup {None})
          BY <5>1
        <5> QED BY <5>1, <5>3, <5>4
      <4>2. CASE c \notin docs
        BY <1>0, <2>1, <4>2 DEF TypeOK
      <4> QED BY <4>1, <4>2
    <3>2. pos' \in 0 .. Length /\ element' \in Recs \cup {None} /\ loaded' \in BOOLEAN
      <4>1. loaded' = FALSE
        BY <2>1
      <4>2. loaded' \in BOOLEAN
        BY <4>1, Zenon
      <4> QED BY <1>4, <2>1, <4>2
    <3> QED BY <1>0, <1>1, <1>2, <2>1, <3>1, <3>2 DEF TypeOK, Sources, Names
  <2>3. JobInForce' /\ HeardIsCurrent' /\ SourceIsThere' /\ TransportIsTrue'
    BY <1>1, <2>1, Constants DEF JobInForce, HeardIsCurrent, SourceIsThere, TransportIsTrue
  <2>4. SessionInForce'
    BY <1>0, <1>1, <1>2, <1>6, <2>1 DEF SessionInForce
  <2> QED BY <1>3, <2>2, <2>3, <2>4 DEF Inv
<1> QED BY <1>5, <1>6

\* The resolving effect runs once more for the recording in the player.
LEMMA ResolveAgain ==
    ASSUME Inv, cur \in docs', docs' \subseteq Recs, Resolve(cur, docs'),
           UNCHANGED <<controlled, cur, playing, plays>>, config' \in Configs
    PROVE  Inv'
<1>0. TypeOK /\ SessionInForce /\ ReportedWasHeard
  BY DEF Inv
<1>1. cur \in Names /\ docs' \in SUBSET Recs
  BY <1>0 DEF TypeOK, Names
<1>2. /\ element' = None /\ loaded' = FALSE /\ pos' = 0
      /\ runs' \in 0 .. MaxRuns /\ stale' \in JobType /\ job' \in JobType
      /\ job'.rec = cur /\ job'.stage = "document" /\ state' = "loading"
      /\ failure' = <<"none", None>> /\ length' = FALSE
  <2> DEFINE ds == docs'
  <2>1. ds \in SUBSET Recs /\ Resolve(cur, ds) /\ cur \in ds
    BY <1>1
  <2> HIDE DEF ds
  <2> QED BY <1>0, <1>1, <2>1, ResolveDoes
<1>3. 0 \in 0 .. Length
  BY Constants
<1>4. TypeOK'
  BY <1>0, <1>2, <1>3 DEF TypeOK, plays
<1>5. JobInForce' /\ HeardIsCurrent' /\ SourceIsThere' /\ TransportIsTrue'
  BY <1>2, Constants DEF JobInForce, HeardIsCurrent, SourceIsThere, TransportIsTrue
<1>6. SessionInForce'
  BY <1>0, <1>2, Constants DEF SessionInForce, plays, TypeOK
<1>7. ReportedWasHeard'
  BY <1>0 DEF ReportedWasHeard, plays
<1> QED BY <1>4, <1>5, <1>6, <1>7 DEF Inv

LEMMA DocumentStep ==
    ASSUME Inv, NEW r \in Recs, documentLoads(r)
    PROVE  Inv'
<1>0. TypeOK /\ JobInForce /\ HeardIsCurrent /\ SourceIsThere /\ TransportIsTrue
      /\ SessionInForce /\ ReportedWasHeard
  BY DEF Inv
<1>1. docs' = docs \cup {r} /\ UNCHANGED <<config, controlled, cur, playing, plays>>
  BY DEF documentLoads
<1>2. CASE r = cur
  <2>1. Resolve(cur, docs') /\ cur \in docs' /\ docs' \subseteq Recs /\ config' \in Configs
    BY <1>0, <1>1, <1>2 DEF documentLoads, TypeOK
  <2> QED BY <1>1, <2>1, ResolveAgain
<1>3. CASE r # cur
  <2>1. UNCHANGED <<player, jobs>>
    BY <1>3 DEF documentLoads
  <2>2. TypeOK'
    BY <1>0, <1>1, <2>1 DEF TypeOK, player, jobs, plays
  <2>3. JobInForce' /\ HeardIsCurrent' /\ SourceIsThere'
    BY <1>0, <1>1, <2>1 DEF JobInForce, HeardIsCurrent, SourceIsThere, player, jobs
  <2>4. TransportIsTrue'
    BY <1>0, <1>1, <1>3, <2>1 DEF TransportIsTrue, player, jobs
  <2>5. SessionInForce' /\ ReportedWasHeard'
    BY <1>0, <1>1, <2>1 DEF SessionInForce, ReportedWasHeard, player, plays
  <2> QED BY <2>2, <2>3, <2>4, <2>5 DEF Inv
<1> QED BY <1>2, <1>3

LEMMA DependencyStep ==
    ASSUME Inv, NEW c \in Configs, dependencyChanges(c)
    PROVE  Inv'
<1>1. /\ cur \in docs' /\ docs' \subseteq Recs /\ Resolve(cur, docs') /\ config' \in Configs
      /\ UNCHANGED <<controlled, cur, playing, plays>>
  <2>1. cur \in docs /\ docs' = docs /\ Resolve(cur, docs) /\ config' = c
        /\ UNCHANGED <<controlled, cur, playing, plays>>
    BY DEF dependencyChanges
  <2>2. docs \subseteq Recs
    BY DEF Inv, TypeOK
  <2> DEFINE d == docs
  <2>3. d \subseteq Recs /\ Resolve(cur, d) /\ docs' = d /\ cur \in d
    BY <2>1, <2>2
  <2> HIDE DEF d
  <2> QED BY <2>1, <2>3
<1> QED BY <1>1, ResolveAgain

\* What a step of a run leaves of the runs.
LEMMA BecomesDoes ==
    ASSUME TypeOK, JobInForce, NEW j \in Jobs, NEW x \in JobType, Becomes(j, x)
    PROVE  /\ job' \in JobType /\ stale' \in JobType
           /\ j = "live" => job' = x
           /\ j = "cancelled" => job' = job
BY DEF Becomes, TypeOK, Jobs

LEMMA OverDoes ==
    ASSUME TypeOK, JobInForce, NEW j \in Jobs, Over(j)
    PROVE  /\ job' \in JobType /\ stale' \in JobType
           /\ j = "live" => job' = NoJob
           /\ j = "cancelled" => job' = job
BY NoJobTyped, BecomesDoes DEF Over

LEMMA PlayStep ==
    ASSUME Inv, NEW j \in Jobs, The(j).stage # "over", play(j)
    PROVE  Inv'
<1>0. TypeOK /\ JobInForce /\ HeardIsCurrent /\ SourceIsThere /\ TransportIsTrue
      /\ SessionInForce /\ ReportedWasHeard
  BY DEF Inv
<1>1. /\ job' \in JobType /\ stale' \in JobType
      /\ j = "live" => job' = NoJob
      /\ j = "cancelled" => job' = job
  BY <1>0, OverDoes DEF play
<1>2. UNCHANGED <<config, controlled, cur, docs, playing, failure, length, runs, plays>>
  BY DEF play
<1>3. ReportedWasHeard'
  BY <1>0, <1>2 DEF ReportedWasHeard, plays
<1>4. CASE j = "cancelled"
  <2>1. UNCHANGED <<state, element, loaded, pos>>
    BY <1>4 DEF play, isCancelled
  <2>2. TypeOK'
    BY <1>0, <1>1, <1>2, <2>1 DEF TypeOK, plays
  <2>3. JobInForce' /\ HeardIsCurrent' /\ SourceIsThere' /\ TransportIsTrue'
    BY <1>0, <1>1, <1>2, <1>4, <2>1
       DEF JobInForce, HeardIsCurrent, SourceIsThere, TransportIsTrue
  <2>4. SessionInForce'
    BY <1>0, <1>2, <2>1 DEF SessionInForce, plays
  <2> QED BY <1>3, <2>2, <2>3, <2>4 DEF Inv
<1>5. CASE j = "live"
  <2>1. element' = job.rec /\ loaded' = TRUE /\ state' = "ready" /\ pos' = 0
    BY <1>5 DEF play, isCancelled, The
  <2>2. job.rec = cur /\ cur \in docs /\ job' = NoJob
    BY <1>0, <1>1, <1>5 DEF The, JobInForce
  <2>3. cur \in Recs /\ cur # None
    BY <1>0, <2>2, Constants DEF TypeOK
  <2>4. TypeOK'
    <3>1. loaded' \in BOOLEAN
      <4>1. loaded' = TRUE
        BY <2>1
      <4> QED BY <4>1, Zenon
    <3>2. pos' \in 0 .. Length /\ element' \in Recs \cup {None}
          /\ state' \in {"idle", "loading", "ready", "error"}
      BY <2>1, <2>2, <2>3, Constants
    <3> QED BY <1>0, <1>1, <1>2, <3>1, <3>2 DEF TypeOK, plays
  <2>5. JobInForce' /\ HeardIsCurrent' /\ SourceIsThere' /\ TransportIsTrue'
    BY <1>2, <2>1, <2>2, <2>3, Constants
       DEF JobInForce, HeardIsCurrent, SourceIsThere, TransportIsTrue
  <2>6. SessionInForce'
    BY <1>0, <1>2, <2>1, Constants DEF SessionInForce, plays, TypeOK
  <2> QED BY <1>3, <2>4, <2>5, <2>6 DEF Inv
<1> QED BY <1>4, <1>5 DEF Jobs

\* A transport that stops: the session ends, and what it had is reported.
LEMMA Stops ==
    ASSUME TypeOK, SessionInForce, ReportedWasHeard,
           playing' = FALSE, Sessions(cur, FALSE), heard' = heard, pos' = pos
    PROVE  /\ session' \in Sources /\ last' \in 0 .. Length
           /\ reported' \in [Recs -> 0 .. MaxHeard]
           /\ SessionInForce' /\ ReportedWasHeard'
<1>1. cur \in Names /\ FALSE \in BOOLEAN
  BY DEF TypeOK, Names
<1>2. /\ session' \in Sources /\ last' \in 0 .. Length
      /\ reported' \in [Recs -> 0 .. MaxHeard]
      /\ \A r \in Recs : reported'[r] + (IF session'.rec = r THEN session'.played ELSE 0)
                           <= heard[r]
      /\ session'.rec = None => session'.played = 0
      /\ \/ FALSE = playing /\ UNCHANGED <<session, last>>
         \/ session'.rec = None
  BY <1>1, SessionsDoes
<1>3. session'.rec = None
  <2>1. CASE FALSE = playing /\ UNCHANGED <<session, last>>
    BY <2>1 DEF SessionInForce
  <2> QED BY <1>2, <2>1
<1>4. SessionInForce' /\ ReportedWasHeard'
  BY <1>2, <1>3 DEF SessionInForce, ReportedWasHeard
<1> QED BY <1>2, <1>4

LEMMA FailStep ==
    ASSUME Inv, NEW j \in Jobs, The(j).stage # "over", NEW reason \in Reasons, fail(j, reason)
    PROVE  Inv'
<1>0. TypeOK /\ JobInForce /\ HeardIsCurrent /\ SourceIsThere /\ TransportIsTrue
      /\ SessionInForce /\ ReportedWasHeard
  BY DEF Inv
<1>1. /\ job' \in JobType /\ stale' \in JobType
      /\ j = "live" => job' = NoJob
      /\ j = "cancelled" => job' = job
  BY <1>0, OverDoes DEF fail
<1>2. UNCHANGED <<config, controlled, cur, docs, element, loaded, length, pos, runs, heard>>
  BY DEF fail
<1>3. CASE j = "cancelled"
  <2>1. UNCHANGED <<playing, session, last, reported, state, failure>>
    BY <1>3 DEF fail, isCancelled
  <2>2. TypeOK'
    BY <1>0, <1>1, <1>2, <2>1 DEF TypeOK
  <2>3. JobInForce' /\ HeardIsCurrent' /\ SourceIsThere' /\ TransportIsTrue'
    BY <1>0, <1>1, <1>2, <1>3, <2>1
       DEF JobInForce, HeardIsCurrent, SourceIsThere, TransportIsTrue
  <2>4. SessionInForce' /\ ReportedWasHeard'
    BY <1>0, <1>2, <2>1 DEF SessionInForce, ReportedWasHeard
  <2> QED BY <2>2, <2>3, <2>4 DEF Inv
<1>4. CASE j = "live"
  <2>1. /\ state' = "error" /\ failure' = <<reason, job.rec>>
        /\ playing' = FALSE /\ Sessions(cur, FALSE)
    BY <1>4 DEF fail, isCancelled, settles, The
  <2>2. job.rec = cur /\ cur \in docs /\ job' = NoJob
    BY <1>0, <1>1, <1>4 DEF The, JobInForce
  <2>3. /\ session' \in Sources /\ last' \in 0 .. Length
        /\ reported' \in [Recs -> 0 .. MaxHeard]
        /\ SessionInForce' /\ ReportedWasHeard'
    BY <1>0, <1>2, <2>1, Stops
  <2>4. TypeOK'
    <3>1. playing' \in BOOLEAN
      <4>1. playing' = FALSE
        BY <2>1
      <4> QED BY <4>1, Zenon
    <3>2. /\ state' \in {"idle", "loading", "ready", "error"}
          /\ failure' \in (Reasons \cup {"none"}) \X (Recs \cup {None})
      BY <1>0, <2>1, <2>2 DEF TypeOK
    <3> QED BY <1>0, <1>1, <1>2, <2>3, <3>1, <3>2 DEF TypeOK, Sources
  <2>5. JobInForce' /\ HeardIsCurrent' /\ SourceIsThere'
    BY <1>0, <1>2, <2>2, Constants DEF JobInForce, HeardIsCurrent, SourceIsThere
  <2>6. TransportIsTrue'
    <3>1. failure'[2] = cur
      BY <2>1, <2>2
    <3> QED BY <1>2, <2>1, <2>2, <3>1 DEF TransportIsTrue
  <2> QED BY <2>3, <2>4, <2>5, <2>6 DEF Inv
<1> QED BY <1>3, <1>4 DEF Jobs

LEMMA StageStep ==
    ASSUME Inv, NEW j \in Jobs, The(j).stage # "over",
           NEW x \in JobType, Stage(j, x), GoesOn(j, x)
    PROVE  Inv'
<1>0. TypeOK /\ JobInForce /\ HeardIsCurrent /\ SourceIsThere /\ TransportIsTrue
      /\ SessionInForce /\ ReportedWasHeard
  BY DEF Inv
<1>1. /\ job' \in JobType /\ stale' \in JobType
      /\ j = "live" => job' = x
      /\ j = "cancelled" => job' = job
  BY <1>0, BecomesDoes DEF Stage
<1>2. UNCHANGED <<config, controlled, cur, docs, playing, player, runs, plays>>
  BY DEF Stage
<1>3. \/ job' = job
      \/ /\ job.stage # "over" /\ job'.rec = job.rec /\ job'.stage # "over"
  BY <1>1 DEF GoesOn, The, Jobs
<1>4. TypeOK'
  BY <1>0, <1>1, <1>2 DEF TypeOK, player, plays
<1>5. JobInForce' /\ HeardIsCurrent' /\ SourceIsThere'
  BY <1>0, <1>2, <1>3 DEF JobInForce, HeardIsCurrent, SourceIsThere, player
<1>6. TransportIsTrue'
  <2>1. (job' = NoJob) <=> (job = NoJob)
    BY <1>3, Constants
  <2> QED BY <1>0, <1>2, <2>1 DEF TransportIsTrue, player
<1>7. SessionInForce' /\ ReportedWasHeard'
  BY <1>0, <1>2 DEF SessionInForce, ReportedWasHeard, player, plays
<1> QED BY <1>4, <1>5, <1>6, <1>7 DEF Inv

LEMMA ElementSteps ==
    ASSUME Inv,
           claimed \/ loadedMetadata \/ (\E time \in 0 .. Length : seek(time)) \/ UNCHANGED vars
    PROVE  Inv'
<1>0. TypeOK /\ JobInForce /\ HeardIsCurrent /\ SourceIsThere /\ TransportIsTrue
      /\ SessionInForce /\ ReportedWasHeard
  BY DEF Inv
<1>1. CASE claimed
  <2>1. UNCHANGED <<config, cur, docs, playing, player, jobs, plays>>
    BY <1>1 DEF claimed
  <2>2. controlled' \in BOOLEAN
    <3>1. controlled' = TRUE
      BY <1>1 DEF claimed
    <3> QED BY <3>1, Zenon
  <2>3. TypeOK'
    BY <1>0, <2>1, <2>2 DEF TypeOK, player, jobs, plays
  <2>4. JobInForce' /\ HeardIsCurrent' /\ SourceIsThere' /\ TransportIsTrue'
    BY <1>0, <2>1 DEF JobInForce, HeardIsCurrent, SourceIsThere, TransportIsTrue, player, jobs
  <2>5. SessionInForce' /\ ReportedWasHeard'
    BY <1>0, <2>1 DEF SessionInForce, ReportedWasHeard, player, plays
  <2> QED BY <2>3, <2>4, <2>5 DEF Inv
<1>2. CASE loadedMetadata
  <2>1. UNCHANGED <<config, controlled, cur, docs, playing, state, failure, element, loaded, pos,
                    jobs, plays>>
    BY <1>2 DEF loadedMetadata
  <2>2. length' \in BOOLEAN
    <3>1. length' = TRUE
      BY <1>2 DEF loadedMetadata
    <3> QED BY <3>1, Zenon
  <2>3. TypeOK'
    BY <1>0, <2>1, <2>2 DEF TypeOK, jobs, plays
  <2>4. JobInForce' /\ HeardIsCurrent' /\ SourceIsThere' /\ TransportIsTrue'
    BY <1>0, <2>1 DEF JobInForce, HeardIsCurrent, SourceIsThere, TransportIsTrue, jobs
  <2>5. SessionInForce' /\ ReportedWasHeard'
    BY <1>0, <2>1 DEF SessionInForce, ReportedWasHeard, plays
  <2> QED BY <2>3, <2>4, <2>5 DEF Inv
<1>3. ASSUME NEW time \in 0 .. Length, seek(time) PROVE Inv'
  <2>1. UNCHANGED <<config, controlled, cur, docs, playing, state, failure, element, loaded,
                    length, jobs, session, heard, reported>>
    BY <1>3 DEF seek
  <2>2. pos' = time /\ last' = time
    BY <1>3 DEF seek, rebaseline
  <2>3. TypeOK'
    BY <1>0, <2>1, <2>2 DEF TypeOK, jobs
  <2>4. JobInForce' /\ HeardIsCurrent' /\ SourceIsThere' /\ TransportIsTrue'
    BY <1>0, <2>1 DEF JobInForce, HeardIsCurrent, SourceIsThere, TransportIsTrue, jobs
  <2>5. SessionInForce' /\ ReportedWasHeard'
    BY <1>0, <2>1, <2>2, Constants DEF SessionInForce, ReportedWasHeard
  <2> QED BY <2>3, <2>4, <2>5 DEF Inv
<1>4. CASE UNCHANGED vars
  <2>1. TypeOK'
    BY <1>0, <1>4 DEF TypeOK, vars, player, jobs, plays
  <2>2. JobInForce' /\ HeardIsCurrent' /\ SourceIsThere' /\ TransportIsTrue'
    BY <1>0, <1>4
       DEF JobInForce, HeardIsCurrent, SourceIsThere, TransportIsTrue, vars, player, jobs
  <2>3. SessionInForce' /\ ReportedWasHeard'
    BY <1>0, <1>4 DEF SessionInForce, ReportedWasHeard, vars, player, plays
  <2> QED BY <2>1, <2>2, <2>3 DEF Inv
<1> QED BY <1>1, <1>2, <1>3, <1>4

\* The element reports where it is.  The session counts the stretch only when the
\* element has moved on by it, and then it was heard.
LEMMA TimeStep ==
    ASSUME Inv, timeUpdate
    PROVE  Inv'
<1>0. TypeOK /\ JobInForce /\ HeardIsCurrent /\ SourceIsThere /\ TransportIsTrue
      /\ SessionInForce /\ ReportedWasHeard
  BY DEF Inv
<1>1. UNCHANGED <<config, controlled, cur, docs, playing, state, failure, element, loaded,
                  length, jobs, reported>>
  BY DEF timeUpdate
<1>t. /\ session \in Sources /\ {pos, last} \subseteq 0 .. Length
      /\ heard \in [Recs -> 0 .. MaxHeard] /\ reported \in [Recs -> 0 .. MaxHeard]
      /\ Length \in Nat /\ MaxHeard \in Nat
  BY <1>0, Constants DEF TypeOK, Sources
<1>2. element = cur /\ element \in Recs
  BY <1>0 DEF timeUpdate, HeardIsCurrent, TypeOK
<1>3. \/ /\ pos < Length /\ heard[element] < MaxHeard /\ pos' = pos + 1
         /\ heard' = [heard EXCEPT ![element] = @ + 1]
      \/ pos' = pos /\ heard' = heard
  BY DEF timeUpdate
<1>4. /\ pos' \in 0 .. Length /\ heard' \in [Recs -> 0 .. MaxHeard]
      /\ \A r \in Recs : heard[r] <= heard'[r]
  BY <1>2, <1>3, <1>t
<1>5. CASE session.rec = None
  <2>1. UNCHANGED <<session, last>>
    BY <1>5 DEF timeUpdate, trackPlayback
  <2>2. SessionInForce'
    BY <1>0, <1>5, <2>1 DEF SessionInForce
  <2>3. ReportedWasHeard'
    <3> SUFFICES ASSUME NEW r \in Recs
                 PROVE  reported'[r] + (IF session'.rec = r THEN session'.played ELSE 0)
                          <= heard'[r]
      BY DEF ReportedWasHeard
    <3>1. session'.rec # r /\ reported' = reported
      BY <1>1, <1>5, <2>1, Constants
    <3>2. session.rec # r
      BY <1>5, Constants
    <3>3. reported[r] + 0 <= heard[r]
      BY <1>0, <3>2 DEF ReportedWasHeard
    <3> QED BY <1>4, <1>t, <3>1, <3>3
  <2>4. session' \in Sources /\ last' \in 0 .. Length
    BY <1>t, <2>1
  <2> QED BY <2>2, <2>3, <2>4, <1>0, <1>1, <1>4
         DEF Inv, TypeOK, JobInForce, HeardIsCurrent, SourceIsThere, TransportIsTrue, jobs, Sources
<1>6. CASE session.rec # None
  <2>0. session.rec = cur /\ playing /\ pos <= last
    BY <1>0, <1>6 DEF SessionInForce
  <2> DEFINE n == IF pos' = last + 1 THEN session.played + 1 ELSE session.played
  <2>1. session' = [session EXCEPT !.played = n] /\ last' = pos'
    BY <1>6 DEF timeUpdate, trackPlayback
  <2>2. reported[cur] + n <= heard'[cur]
    <3>1. reported[cur] + session.played <= heard[cur] /\ session.played \in 0 .. MaxHeard
      BY <1>0, <1>2, <1>t, <2>0 DEF ReportedWasHeard, Sources
    <3>2. CASE pos' = last + 1
      <4>1. heard' = [heard EXCEPT ![element] = @ + 1]
        BY <1>3, <1>t, <2>0, <3>2
      <4>2. heard'[cur] = heard[cur] + 1
        BY <1>2, <1>t, <4>1
      <4> QED BY <1>2, <1>t, <3>1, <3>2, <4>2
    <3>3. CASE pos' # last + 1
      BY <1>2, <1>4, <1>t, <3>1, <3>3
    <3> QED BY <3>2, <3>3
  <2>3. n \in 0 .. MaxHeard
    <3>1. session.played \in 0 .. MaxHeard
      BY <1>t DEF Sources
    <3>2. n \in Nat
      BY <1>t, <3>1
    <3>3. reported[cur] \in Nat /\ heard'[cur] \in 0 .. MaxHeard
      BY <1>2, <1>4, <1>t
    <3> HIDE DEF n
    <3> QED BY <1>t, <2>2, <3>2, <3>3
  <2> HIDE DEF n
  <2>4. session' \in Sources /\ session'.rec = cur /\ session'.played = n
    BY <1>t, <2>0, <2>1, <2>3 DEF Sources
  <2>5. SessionInForce'
    BY <1>1, <1>2, <1>4, <2>0, <2>1, <2>4, Constants DEF SessionInForce
  <2>6. ReportedWasHeard'
    <3> SUFFICES ASSUME NEW r \in Recs
                 PROVE  reported'[r] + (IF session'.rec = r THEN session'.played ELSE 0)
                          <= heard'[r]
      BY DEF ReportedWasHeard
    <3>1. CASE r = cur
      BY <1>1, <2>2, <2>4, <3>1
    <3>2. CASE r # cur
      <4>1. reported[r] + 0 <= heard[r]
        BY <1>0, <2>0, <3>2 DEF ReportedWasHeard
      <4>2. session'.rec # r
        BY <2>4, <3>2
      <4> QED BY <1>1, <1>4, <1>t, <4>1, <4>2
    <3> QED BY <3>1, <3>2
  <2>7. last' \in 0 .. Length
    BY <1>4, <2>1
  <2> QED BY <2>4, <2>5, <2>6, <2>7, <1>0, <1>1, <1>4
         DEF Inv, TypeOK, JobInForce, HeardIsCurrent, SourceIsThere, TransportIsTrue, jobs, Sources
<1> QED BY <1>5, <1>6

\* An error of what plays stops the transport, and is of the recording it names.
LEMMA ErrorStep ==
    ASSUME Inv, onError
    PROVE  Inv'
<1>0. TypeOK /\ JobInForce /\ HeardIsCurrent /\ SourceIsThere /\ TransportIsTrue
      /\ SessionInForce /\ ReportedWasHeard
  BY DEF Inv
<1>1. /\ loaded /\ loaded' = FALSE /\ playing' = FALSE /\ Sessions(cur, FALSE)
      /\ state' = "error" /\ failure' = <<"unreachable", element>>
      /\ UNCHANGED <<config, controlled, cur, docs, element, length, pos, jobs, heard>>
  BY DEF onError, isOurs, settles
<1>2. element = cur /\ job = NoJob
  BY <1>0, <1>1 DEF JobInForce, HeardIsCurrent, SourceIsThere
<1>3. /\ session' \in Sources /\ last' \in 0 .. Length
      /\ reported' \in [Recs -> 0 .. MaxHeard]
      /\ SessionInForce' /\ ReportedWasHeard'
  BY <1>0, <1>1, Stops
<1>4. TypeOK'
  <2>1. loaded' \in BOOLEAN /\ playing' \in BOOLEAN
    BY <1>1, Zenon
  <2>2. /\ state' \in {"idle", "loading", "ready", "error"}
        /\ failure' \in (Reasons \cup {"none"}) \X (Recs \cup {None})
    BY <1>0, <1>1 DEF TypeOK, Reasons
  <2> QED BY <1>0, <1>1, <1>3, <2>1, <2>2 DEF TypeOK, jobs, Sources
<1>5. JobInForce' /\ HeardIsCurrent' /\ SourceIsThere'
  BY <1>0, <1>1, <1>2, Constants DEF JobInForce, HeardIsCurrent, SourceIsThere, jobs
<1>6. TransportIsTrue'
  <2>1. failure'[2] = cur
    BY <1>1, <1>2
  <2> QED BY <1>1, <1>2, <2>1 DEF TransportIsTrue, jobs
<1> QED BY <1>3, <1>4, <1>5, <1>6 DEF Inv

-----------------------------------------------------------------------------
(* The theorems. *)

LEMMA InvInit ==
    ASSUME Init
    PROVE  Inv
<1>1. TypeOK
  <2>1. \A r \in Recs : r # None
    BY Constants
  <2>2. controlled \in BOOLEAN /\ {playing, loaded, length} \subseteq BOOLEAN
    BY Zenon DEF Init
  <2>3. NoJob \in JobType /\ NoSession \in Sources
    BY NoJobTyped, Constants
  <2> QED BY <2>2, <2>3, Constants DEF Init, TypeOK, Sources
<1>2. JobInForce /\ HeardIsCurrent /\ SourceIsThere /\ TransportIsTrue
  BY Constants DEF Init, JobInForce, HeardIsCurrent, SourceIsThere, TransportIsTrue
<1>3. SessionInForce /\ ReportedWasHeard
  BY Constants DEF Init, SessionInForce, ReportedWasHeard
<1> QED BY <1>1, <1>2, <1>3 DEF Inv

LEMMA InvNext ==
    ASSUME Inv, [Next]_vars
    PROVE  Inv'
<1>1. TypeOK
  BY DEF Inv
<1> QED BY <1>1, StepCases, CommitStep, DocumentStep, DependencyStep, PlayStep, FailStep,
           StageStep, ElementSteps, TimeStep, ErrorStep

LEMMA Invariant == Spec => []Inv
<1>1. Init => Inv
  BY InvInit
<1>2. Inv /\ [Next]_vars => Inv'
  BY InvNext
<1> QED BY <1>1, <1>2, PTL DEF Spec

\* Player, element, runs, session and counts keep their types, whatever is pressed,
\* changes or answers.
THEOREM TypeCorrect == Spec => []TypeOK
<1>1. Inv => TypeOK
  BY DEF Inv
<1> QED BY <1>1, Invariant, PTL

\* The element never has the audio of another recording than the one in the player,
\* whichever lookup was overtaken (AudioPlayerContext.tsx, isCancelled).
THEOREM ElementIsCurrent == Spec => []HeardIsCurrent
<1>1. Inv => HeardIsCurrent
  BY DEF Inv
<1> QED BY <1>1, Invariant, PTL

\* While a recording's document is there, the transport shows loading exactly while
\* it is looked for, ready only when the element has it, an error only of its own
\* (AudioPlayerContext.tsx).
THEOREM TransportSaysSo == Spec => []TransportIsTrue
<1>1. Inv => TransportIsTrue
  BY DEF Inv
<1> QED BY <1>1, Invariant, PTL

\* No recording has more plays reported than stretches of it were heard, whatever is
\* dragged, paused, resolved again or fails (trackPlayback, closePlaySession).
THEOREM ReportsWereHeard == Spec => []PlaysWereHeard
<1>1. Inv => PlaysWereHeard
  <2> SUFFICES ASSUME Inv, NEW r \in Recs PROVE reported[r] <= heard[r]
    BY DEF PlaysWereHeard
  <2>1. reported[r] \in Nat /\ heard[r] \in Nat /\ session.played \in Nat
    BY Constants DEF Inv, TypeOK
  <2>2. reported[r] + (IF session.rec = r THEN session.played ELSE 0) <= heard[r]
    BY DEF Inv, ReportedWasHeard
  <2> QED BY <2>1, <2>2
<1> QED BY <1>1, Invariant, PTL

=============================================================================
