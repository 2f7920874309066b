--------------------------- MODULE HostSessionProofs ---------------------------
(***************************************************************************)
(* Proofs about HostSession: the document names the open session, a claim  *)
(* announced in time is named by the record, the spans that run are those  *)
(* of the proven sockets connected now, and quitting leaves no record      *)
(* half made; for any number of sessions, sockets, claims, waiting calls   *)
(* and outages.                                                            *)
(*                                                                         *)
(* And about RendererRepo, the window over the server that hosts: once it  *)
(* is quiet its repo is the one of the latest library and server resolved, *)
(* its stored library gives way only to an imported one, and of the repos  *)
(* it replaced none keeps its sockets.                                     *)
(***************************************************************************)
EXTENDS HostSession, RendererRepo, FiniteSetTheorems, TLAPS

Phases == {"unused", "open", "grace", "signing", "listing", "signed", "failed", "lost"}
MaybeSid == Sids \cup {NoSid}
CallRecords == [kind : {"start", "stop", "stale"}, sid : MaybeSid, mine : BOOLEAN]
Views == [open : MaybeSid, stopped : MaybeSid, settled : BOOLEAN]

Typed ==
    /\ up \in BOOLEAN
    /\ conns \in [Conns -> {"new", "alive", "quiet", "gone"}]
    /\ phase \in [Sids -> Phases]
    /\ spans \in [Sids -> [Conns -> {"none", "live", "ended"}]]
    /\ claims \in [Sids -> SUBSET Claims] /\ record \in [Sids -> SUBSET Claims]
    /\ covers \in [Sids -> SUBSET Claims] /\ early \in [Sids -> SUBSET Claims]
    /\ taken \in [Claims -> Sids \cup {"not", "done"}]
    /\ docSession \in MaybeSid /\ publishedIn \in MaybeSid
    /\ calls \subseteq CallRecords
    /\ quit \in {"no", "stopping", "flushing", "exited"}
    /\ view \in Views
    /\ outages \in 0 .. MaxOutages

\* One session is open at a time, and a stop that waits is of one that is not.
OneOpen == \A s, t \in Sids : phase[s] = "open" /\ phase[t] = "open" => s = t
StopsClosed == \A x \in calls : x.kind = "stop" => x.sid \in Sids /\ phase[x.sid] \notin {"unused", "open"}

\* The document names the open session, also while the host quits.
Published == \A s \in Sids : phase[s] = "open" => docSession = s

\* Up to the signature a claim in time is in the session's claims, then in the
\* record.
KeptInTime ==
    \A s \in Sids :
        /\ phase[s] \in {"unused", "open", "grace"} => early[s] \subseteq claims[s]
        /\ phase[s] \in {"signing", "listing"} => early[s] \subseteq record[s]

\* The spans of the open session that run are those of the proven sockets that
\* are connected; a socket whose span ended does not come back.
SpansRun ==
    \A s \in Sids, k \in Conns :
        /\ phase[s] = "open" /\ IsUp(k) /\ k \in Proven => spans[s][k] = "live"
        /\ spans[s][k] = "live" => phase[s] = "open" /\ IsUp(k) /\ k \in Proven
        /\ phase[s] = "open" /\ spans[s][k] = "ended" => conns[k] = "gone"
        /\ phase[s] # "open" => spans[s][k] = "none"

Inv == Typed /\ OneOpen /\ StopsClosed /\ Published /\ KeptInTime /\ SpansRun /\ QuitSignsAll

LEMMA Sets ==
    /\ NoSid \notin Sids /\ MaxOutages \in Nat
    /\ Proven \subseteq Conns /\ MayFail \in BOOLEAN
BY SessionAssumption

\* The open session, if there is one.
LEMMA CurrentIs ==
    ASSUME Typed
    PROVE  /\ current = NoSid <=> \A s \in Sids : phase[s] # "open"
           /\ current # NoSid => current \in Sids /\ phase[current] = "open"
           /\ current \in MaybeSid
BY Sets DEF current, Opened, MaybeSid

LEMMA TrackIs ==
    ASSUME NEW sp \in [Conns -> {"none", "live", "ended"}], NEW cs
    PROVE  /\ track(sp, cs) \in [Conns -> {"none", "live", "ended"}]
           /\ \A k \in Conns :
                 track(sp, cs)[k] =
                    IF cs[k] \in {"alive", "quiet"} /\ k \in Proven
                    THEN IF sp[k] = "none" THEN "live" ELSE sp[k]
                    ELSE IF sp[k] = "live" THEN "ended" ELSE sp[k]
BY DEF track

LEMMA SpansTyped ==
    ASSUME Typed, NEW cs, connectionsChanged(cs)
    PROVE  spans' \in [Sids -> [Conns -> {"none", "live", "ended"}]]
<1>1. \A s \in Sids : track(spans[s], cs) \in [Conns -> {"none", "live", "ended"}]
  BY TrackIs DEF Typed
<1>2. \A s \in Sids : spans[s] \in [Conns -> {"none", "live", "ended"}]
  BY DEF Typed
<1> QED BY <1>1, <1>2 DEF connectionsChanged

LEMMA NothingTyped ==
    /\ Nothing \in [Sids -> SUBSET Claims]
    /\ NoSpans \in [Conns -> {"none", "live", "ended"}]
    /\ \A s \in MaybeSid : FreshView(s) \in Views /\ [FreshView(NoSid) EXCEPT !.stopped = s] \in Views
<1>1. ASSUME NEW s \in MaybeSid
      PROVE  FreshView(s) \in Views /\ [FreshView(NoSid) EXCEPT !.stopped = s] \in Views
  <2>1. NoSid \in MaybeSid
    BY DEF MaybeSid
  <2>2. FreshView(s) \in Views /\ FreshView(NoSid) \in Views
    BY <2>1 DEF FreshView, Views
  <2> DEFINE v == FreshView(NoSid)
  <2> HIDE DEF v
  <2>3. v \in Views => [v EXCEPT !.stopped = s] \in Views
    BY ONLY s \in MaybeSid DEF Views
  <2> QED BY <2>2, <2>3 DEF v
<1> QED BY <1>1 DEF Nothing, NoSpans

LEMMA CallTyped ==
    \A kind \in {"start", "stop", "stale"}, s \in MaybeSid, mine \in BOOLEAN :
        /\ Call(kind, s, mine) \in CallRecords
        /\ Call(kind, s, mine).kind = kind /\ Call(kind, s, mine).sid = s
BY DEF Call, CallRecords

LEMMA StaleCall ==
    /\ {Call("stale", NoSid, FALSE)} \subseteq CallRecords
    /\ \A x \in {Call("stale", NoSid, FALSE)} : x.kind = "stale"
<1> DEFINE x == Call("stale", NoSid, FALSE)
<1>1. x \in CallRecords /\ x.kind = "stale"
  BY CallTyped DEF MaybeSid
<1> HIDE DEF x
<1> QED BY <1>1 DEF x

\* A window that closes leaves its calls waiting.
LEMMA OrphansAre ==
    ASSUME NEW C \in SUBSET CallRecords
    PROVE  /\ Orphaned(C) \subseteq CallRecords
           /\ \A x \in Orphaned(C) : \E y \in C : x.kind = y.kind /\ x.sid = y.sid
<1>1. ASSUME NEW y \in C
      PROVE  /\ [y EXCEPT !.mine = FALSE] \in CallRecords
             /\ [y EXCEPT !.mine = FALSE].kind = y.kind /\ [y EXCEPT !.mine = FALSE].sid = y.sid
  <2>1. y \in CallRecords
    OBVIOUS
  <2> QED BY ONLY <2>1 DEF CallRecords
<1> QED BY <1>1 DEF Orphaned

LEMMA InitInv == Init => Inv
<1> SUFFICES ASSUME Init PROVE Inv
  OBVIOUS
<1> USE DEF Init
<1>1. Typed
  <2>1. calls \subseteq CallRecords
    BY StaleCall
  <2>2. view \in Views
    BY NothingTyped DEF MaybeSid
  <2>3. spans \in [Sids -> [Conns -> {"none", "live", "ended"}]]
    BY NothingTyped
  <2>4. /\ claims \in [Sids -> SUBSET Claims] /\ record \in [Sids -> SUBSET Claims]
        /\ covers \in [Sids -> SUBSET Claims] /\ early \in [Sids -> SUBSET Claims]
    BY NothingTyped
  <2>5. /\ up \in BOOLEAN /\ conns \in [Conns -> {"new", "alive", "quiet", "gone"}]
        /\ phase \in [Sids -> Phases] /\ taken \in [Claims -> Sids \cup {"not", "done"}]
        /\ docSession \in MaybeSid /\ publishedIn \in MaybeSid
        /\ quit \in {"no", "stopping", "flushing", "exited"} /\ outages \in 0 .. MaxOutages
    BY Sets DEF Phases, MaybeSid
  <2> QED BY ONLY <2>1, <2>2, <2>3, <2>4, <2>5 DEF Typed
<1>2. OneOpen /\ Published
  BY DEF OneOpen, Published
<1>3. StopsClosed
  BY StaleCall DEF StopsClosed
<1>4. KeptInTime
  BY DEF KeptInTime
<1>5. SpansRun
  BY DEF SpansRun, NoSpans, IsUp
<1>6. QuitSignsAll
  BY DEF QuitSignsAll
<1> QED BY <1>1, <1>2, <1>3, <1>4, <1>5, <1>6 DEF Inv

-----------------------------------------------------------------------------
(***************************************************************************)
(* Types.                                                                  *)
(***************************************************************************)
LEMMA RegistryTyped ==
    ASSUME Typed, NEW cs \in [Conns -> {"new", "alive", "quiet", "gone"}], Registry(cs)
    PROVE  Typed'
<1>1. spans' \in [Sids -> [Conns -> {"none", "live", "ended"}]]
  BY SpansTyped DEF Registry
<1> QED BY <1>1 DEF Registry, Typed

LEMMA ConnTyped ==
    ASSUME Typed, NEW k \in Conns, add(k) \/ remove(k) \/ heartbeat(k) \/ pong(k)
    PROVE  Typed'
<1>1. ASSUME NEW v \in {"alive", "quiet", "gone"}, Registry([conns EXCEPT ![k] = v]) PROVE Typed'
  <2> DEFINE cs == [conns EXCEPT ![k] = v]
  <2>1. cs \in [Conns -> {"new", "alive", "quiet", "gone"}] /\ Registry(cs)
    BY <1>1 DEF Typed
  <2> HIDE DEF cs
  <2> QED BY <2>1, RegistryTyped
<1> QED BY <1>1 DEF add, remove, heartbeat, pong, Evicts

LEMMA CloseTyped ==
    ASSUME Typed, NEW s \in Sids, close(s)
    PROVE  /\ phase' \in [Sids -> Phases]
           /\ spans' \in [Sids -> [Conns -> {"none", "live", "ended"}]]
           /\ phase'[s] = "grace" /\ \A t \in Sids \ {s} : phase'[t] = phase[t] /\ spans'[t] = spans[t]
           /\ spans'[s] = NoSpans
BY NothingTyped DEF close, Typed, Phases

\* The session stops; a call to clear it from the document may begin.
LEMMA StoppingDoes ==
    ASSUME Typed, NEW s \in Sids, NEW mine \in BOOLEAN, stopping(s, mine)
    PROVE  /\ close(s) /\ publishedIn' = NoSid
           /\ calls' \subseteq CallRecords /\ view' \in Views
           /\ calls \subseteq calls'
           /\ \A x \in calls' \ calls : x.kind = "stop" /\ x.sid = s
<1>1. CASE publishedIn = s
  <2> DEFINE x == Call("stop", s, mine)
  <2>1. x \in CallRecords /\ x.kind = "stop" /\ x.sid = s
    BY CallTyped DEF MaybeSid
  <2>2. calls' = calls \cup {x} /\ view' = view
    BY <1>1 DEF stopping
  <2> HIDE DEF x
  <2> QED BY <2>1, <2>2 DEF stopping, Typed
<1>2. CASE publishedIn # s
  <2>1. [FreshView(NoSid) EXCEPT !.stopped = s] \in Views
    BY NothingTyped DEF MaybeSid
  <2> QED BY <1>2, <2>1 DEF stopping, Typed
<1> QED BY <1>1, <1>2

LEMMA SettleTyped ==
    ASSUME Typed, NEW s \in Sids, Settle(s)
    PROVE  /\ view' \in Views
           /\ claims' \in [Sids -> SUBSET Claims] /\ record' \in [Sids -> SUBSET Claims]
           /\ covers' \in [Sids -> SUBSET Claims] /\ early' \in [Sids -> SUBSET Claims]
<1>1. view' \in Views
  <2>1. view \in Views
    BY DEF Typed
  <2>2. [view EXCEPT !.settled = TRUE] \in Views
    BY ONLY <2>1 DEF Views
  <2> QED BY <2>1, <2>2 DEF Settle
<1> QED BY <1>1 DEF Settle, Typed

LEMMA ButtonsTyped ==
    ASSUME Typed, start \/ stop \/ remount \/ onWillQuit \/ flush
    PROVE  Typed'
<1>1. CASE start
  <2>1. Call("start", NoSid, TRUE) \in CallRecords
    BY CallTyped DEF MaybeSid
  <2> QED BY <1>1, <2>1 DEF start, Typed
<1>2. CASE stop
  <2>1. CASE current = NoSid
    BY <1>2, <2>1, NothingTyped DEF stop, Typed, MaybeSid
  <2>2. CASE current # NoSid
    <3>1. stopping(current, TRUE) /\ current \in Sids
      BY <1>2, <2>2, CurrentIs DEF stop
    <3>2. /\ phase' \in [Sids -> Phases] /\ spans' \in [Sids -> [Conns -> {"none", "live", "ended"}]]
          /\ publishedIn' = NoSid /\ calls' \subseteq CallRecords /\ view' \in Views
      BY <3>1, StoppingDoes, CloseTyped
    <3> QED BY <1>2, <3>2 DEF stop, Typed, MaybeSid
  <2> QED BY <2>1, <2>2
<1>3. CASE remount
  <2>1. FreshView(current) \in Views
    BY CurrentIs, NothingTyped
  <2>2. Orphaned(calls) \subseteq CallRecords
    BY OrphansAre DEF Typed
  <2> QED BY <1>3, <2>1, <2>2 DEF remount, Typed
<1>4. CASE onWillQuit
  <2>1. CASE current = NoSid
    BY <1>4, <2>1 DEF onWillQuit, Typed
  <2>2. CASE current # NoSid
    <3>1. stopping(current, FALSE) /\ current \in Sids
      BY <1>4, <2>2, CurrentIs DEF onWillQuit
    <3>2. /\ phase' \in [Sids -> Phases] /\ spans' \in [Sids -> [Conns -> {"none", "live", "ended"}]]
          /\ publishedIn' = NoSid /\ calls' \subseteq CallRecords /\ view' \in Views
      BY <3>1, StoppingDoes, CloseTyped
    <3> QED BY <1>4, <3>2 DEF onWillQuit, Typed, MaybeSid
  <2> QED BY <2>1, <2>2
<1>5. CASE flush
  <2>1. CASE current = NoSid
    BY <1>5, <2>1 DEF flush, Typed
  <2>2. CASE current # NoSid
    <3>1. close(current) /\ current \in Sids
      BY <1>5, <2>2, CurrentIs DEF flush
    <3>2. /\ phase' \in [Sids -> Phases] /\ spans' \in [Sids -> [Conns -> {"none", "live", "ended"}]]
      BY <3>1, CloseTyped
    <3> QED BY <1>5, <3>2 DEF flush, Typed
  <2> QED BY <2>1, <2>2
<1> QED BY <1>1, <1>2, <1>3, <1>4, <1>5

LEMMA CallsTyped ==
    ASSUME Typed, NEW x \in calls, started(x) \/ stopped(x) \/ clearStale(x)
    PROVE  Typed'
<1>1. CASE started(x)
  <2>1. calls' \subseteq CallRecords
    BY <1>1 DEF started, Typed
  <2>2. CASE UNCHANGED <<phase, spans, publishedIn, docSession, view>>
    BY <1>1, <2>1, <2>2 DEF started, Typed
  <2>3. CASE ~ UNCHANGED <<phase, spans, publishedIn, docSession, view>>
    <3> DEFINE s == CHOOSE s \in Unused : TRUE
    <3>1. /\ phase' = [phase EXCEPT ![s] = "open"]
          /\ spans' = [spans EXCEPT ![s] = track(spans[s], conns)]
          /\ publishedIn' = s /\ docSession' = s
          /\ view' = IF x.mine THEN FreshView(s) ELSE view
          /\ Unused # {}
      BY <1>1, <2>3 DEF started
    <3>2. s \in Sids
      BY <3>1 DEF Unused
    <3> HIDE DEF s
    <3>3. track(spans[s], conns) \in [Conns -> {"none", "live", "ended"}]
      BY <3>2, TrackIs DEF Typed
    <3>4. spans' \in [Sids -> [Conns -> {"none", "live", "ended"}]]
      BY <3>1, <3>3 DEF Typed
    <3>5. view' \in Views
      BY <3>1, <3>2, NothingTyped DEF Typed, MaybeSid
    <3>6. phase' \in [Sids -> Phases] /\ docSession' \in MaybeSid /\ publishedIn' \in MaybeSid
      BY <3>1, <3>2 DEF Typed, Phases, MaybeSid
    <3> QED BY <1>1, <2>1, <3>4, <3>5, <3>6 DEF started, Typed
  <2> QED BY <2>2, <2>3
<1>2. CASE stopped(x)
  <2>1. calls' \subseteq CallRecords /\ docSession' \in MaybeSid
    BY <1>2 DEF stopped, Typed, MaybeSid
  <2>2. view' \in Views
    <3>1. x.sid \in MaybeSid
      BY DEF Typed, CallRecords
    <3> QED BY <1>2, <3>1, NothingTyped DEF stopped, Typed
  <2> QED BY <1>2, <2>1, <2>2 DEF stopped, Typed
<1>3. CASE clearStale(x)
  <2>1. calls' \subseteq CallRecords /\ docSession' \in MaybeSid
    BY <1>3 DEF clearStale, Typed, MaybeSid
  <2> QED BY <1>3, <2>1 DEF clearStale, Typed
<1> QED BY <1>1, <1>2, <1>3

LEMMA RecordTyped ==
    ASSUME Typed, NEW s \in Sids, sign(s) \/ signed(s) \/ listSessionRecord(s)
    PROVE  Typed'
<1>1. phase' \in [Sids -> Phases]
  BY DEF sign, signed, listSessionRecord, Typed, Phases
<1>2. /\ view' \in Views
      /\ claims' \in [Sids -> SUBSET Claims] /\ record' \in [Sids -> SUBSET Claims]
      /\ covers' \in [Sids -> SUBSET Claims] /\ early' \in [Sids -> SUBSET Claims]
  <2>1. CASE Settle(s)
    BY <2>1, SettleTyped
  <2>2. CASE ~Settle(s)
    BY <2>2 DEF sign, signed, listSessionRecord, Typed
  <2> QED BY <2>1, <2>2
<1>3. UNCHANGED <<up, conns, spans, taken, docSession, publishedIn, calls, quit, outages>>
  BY DEF sign, signed, listSessionRecord
<1> QED BY <1>1, <1>2, <1>3 DEF Typed

LEMMA ClaimTyped ==
    ASSUME Typed, NEW c \in Claims, beginTake(c) \/ announce(c)
    PROVE  Typed'
<1>1. CASE beginTake(c)
  BY <1>1 DEF beginTake, Typed, MaybeSid
<1>2. CASE announce(c)
  <2>1. claims' \in [Sids -> SUBSET Claims] /\ early' \in [Sids -> SUBSET Claims]
    BY <1>2 DEF announce, claimVerified, Typed
  <2>2. taken' \in [Claims -> Sids \cup {"not", "done"}]
    BY <1>2 DEF announce, Typed
  <2> QED BY <1>2, <2>1, <2>2 DEF announce, Typed
<1> QED BY <1>1, <1>2

LEMMA ServerTyped ==
    ASSUME Typed, exit \/ stopSyncServer \/ startSyncServer \/ crash
    PROVE  Typed'
<1>1. CASE exit \/ startSyncServer
  BY <1>1 DEF exit, startSyncServer, Typed
<1>2. ASSUME outages < MaxOutages, outages' = outages + 1 PROVE outages' \in 0 .. MaxOutages
  BY <1>2, Sets DEF Typed
<1>3. ASSUME conns' = [k \in Conns |-> IF IsUp(k) THEN "gone" ELSE conns[k]]
      PROVE  conns' \in [Conns -> {"new", "alive", "quiet", "gone"}]
  BY <1>3 DEF Typed
<1>4. CASE stopSyncServer
  <2>1. spans' \in [Sids -> [Conns -> {"none", "live", "ended"}]]
    BY <1>4, SpansTyped DEF stopSyncServer
  <2>2. /\ conns' \in [Conns -> {"new", "alive", "quiet", "gone"}] /\ outages' \in 0 .. MaxOutages
        /\ up' \in BOOLEAN
    BY <1>2, <1>3, <1>4 DEF stopSyncServer
  <2>3. UNCHANGED <<phase, claims, record, covers, taken, docSession, publishedIn, calls, quit, view, early>>
    BY <1>4 DEF stopSyncServer
  <2> QED BY <2>1, <2>2, <2>3 DEF Typed
<1>5. CASE crash
  <2>1. phase' \in [Sids -> Phases]
    BY <1>5 DEF crash, Typed, Phases
  <2>2. conns' \in [Conns -> {"new", "alive", "quiet", "gone"}] /\ outages' \in 0 .. MaxOutages
    BY <1>2, <1>3, <1>5 DEF crash
  <2>3. spans' \in [Sids -> [Conns -> {"none", "live", "ended"}]]
    BY <1>5, NothingTyped DEF crash
  <2>4. /\ claims' \in [Sids -> SUBSET Claims] /\ record' \in [Sids -> SUBSET Claims]
        /\ covers' \in [Sids -> SUBSET Claims] /\ early' \in [Sids -> SUBSET Claims]
    BY <1>5, NothingTyped DEF crash
  <2>5. calls' \subseteq CallRecords
    BY <1>5, StaleCall DEF crash
  <2>6. view' \in Views /\ publishedIn' \in MaybeSid
    BY <1>5, NothingTyped DEF crash, MaybeSid
  <2>7. /\ up' = FALSE /\ quit' = "no" /\ UNCHANGED <<taken, docSession>>
    BY <1>5 DEF crash
  <2> QED BY <2>1, <2>2, <2>3, <2>4, <2>5, <2>6, <2>7 DEF Typed
<1> QED BY <1>1, <1>4, <1>5

LEMMA TypeStep == Typed /\ Next => Typed'
BY ConnTyped, ButtonsTyped, CallsTyped, RecordTyped, ClaimTyped, ServerTyped DEF Next

-----------------------------------------------------------------------------
(***************************************************************************)
(* How a session's phase moves.                                            *)
(***************************************************************************)
Same == UNCHANGED <<phase, docSession, claims, record, early>>

\* A session opens, and the document and the recorder's memory of it with it.
Opens(s) ==
    /\ phase[s] = "unused" /\ \A t \in Sids : phase[t] # "open"
    /\ phase' = [phase EXCEPT ![s] = "open"] /\ docSession' = s
    /\ spans' = [spans EXCEPT ![s] = track(spans[s], conns)]
    /\ UNCHANGED <<claims, record, early, conns>>

\* The open session is closed.
Closes(s) ==
    /\ phase[s] = "open" /\ close(s)
    /\ UNCHANGED <<docSession, claims, record, early, conns>>

\* A closed session goes on.
GoesOn(s) ==
    /\ phase[s] \in {"grace", "signing", "listing"}
    /\ \A t \in Sids \ {s} : phase'[t] = phase[t] /\ claims'[t] = claims[t]
                             /\ record'[t] = record[t] /\ early'[t] = early[t]
    /\ \/ phase[s] = "grace" /\ phase'[s] = "signing" /\ record'[s] = claims[s] /\ early'[s] = early[s]
       \/ phase[s] = "signing" /\ phase'[s] = "listing" /\ record'[s] = record[s] /\ early'[s] = early[s]
       \/ phase'[s] \in {"signed", "failed"}
    /\ UNCHANGED <<docSession, spans, conns, calls>>

LEMMA StartedDoes ==
    ASSUME Typed, NEW x \in calls, started(x)
    PROVE  /\ calls' \subseteq calls
           /\ (Same /\ UNCHANGED <<spans, conns>>) \/ \E s \in Sids : Opens(s)
<1>1. calls' \subseteq calls
  BY DEF started
<1>2. CASE UNCHANGED <<phase, spans, publishedIn, docSession, view>>
  BY <1>1, <1>2 DEF started, Same
<1>3. CASE ~ UNCHANGED <<phase, spans, publishedIn, docSession, view>>
  <2> DEFINE s == CHOOSE s \in Unused : TRUE
  <2>1. /\ phase' = [phase EXCEPT ![s] = "open"]
        /\ spans' = [spans EXCEPT ![s] = track(spans[s], conns)]
        /\ docSession' = s /\ canOpen /\ Unused # {}
    BY <1>3 DEF started
  <2>2. s \in Sids /\ phase[s] = "unused"
    BY <2>1 DEF Unused
  <2>3. \A t \in Sids : phase[t] # "open"
    BY <2>1, CurrentIs DEF canOpen
  <2> HIDE DEF s
  <2>4. Opens(s)
    BY <2>1, <2>2, <2>3 DEF Opens, started
  <2> QED BY <1>1, <2>2, <2>4
<1> QED BY <1>2, <1>3

\* Stopping, by the button, on quitting, or when quitting goes on.
LEMMA StopDoes ==
    ASSUME Typed, stop \/ onWillQuit \/ flush
    PROVE  \/ Same /\ UNCHANGED <<spans, conns, calls>>
           \/ \E s \in Sids : Closes(s) /\ calls \subseteq calls'
                              /\ \A x \in calls' \ calls : x.kind = "stop" /\ x.sid = s
<1>1. CASE current = NoSid
  BY <1>1 DEF stop, onWillQuit, flush, Same
<1>2. CASE current # NoSid
  <2> DEFINE s == current
  <2>1. s \in Sids /\ phase[s] = "open"
    BY <1>2, CurrentIs
  <2>2. close(s) /\ calls \subseteq calls' /\ \A x \in calls' \ calls : x.kind = "stop" /\ x.sid = s
    <3>1. CASE stop \/ onWillQuit
      <4>1. stopping(s, TRUE) \/ stopping(s, FALSE)
        BY <1>2, <3>1 DEF stop, onWillQuit
      <4> HIDE DEF s
      <4> QED BY <2>1, <4>1, StoppingDoes
    <3>2. CASE flush
      BY <1>2, <3>2 DEF flush
    <3> QED BY <3>1, <3>2
  <2>3. UNCHANGED <<docSession, claims, record, early, conns>>
    BY DEF stop, onWillQuit, flush
  <2> HIDE DEF s
  <2> QED BY <2>1, <2>2, <2>3 DEF Closes
<1> QED BY <1>1, <1>2

LEMMA RecordDoes ==
    ASSUME Typed, NEW s \in Sids, sign(s) \/ signed(s) \/ listSessionRecord(s)
    PROVE  GoesOn(s)
<1>1. UNCHANGED <<docSession, spans, conns, calls>>
  BY DEF sign, signed, listSessionRecord
<1>2. ASSUME NEW p \in {"signed", "failed"}, phase[s] \in {"grace", "signing", "listing"},
             phase' = [phase EXCEPT ![s] = p], Settle(s)
      PROVE  GoesOn(s)
  BY <1>1, <1>2 DEF GoesOn, Settle, Typed
<1>3. CASE sign(s) /\ up
  BY <1>1, <1>3 DEF sign, GoesOn, Typed
<1>4. CASE sign(s) /\ ~up
  BY <1>2, <1>4 DEF sign
<1>5. CASE signed(s) /\ ~Settle(s)
  BY <1>1, <1>5 DEF signed, GoesOn, Typed
<1>6. CASE signed(s) /\ Settle(s)
  <2>1. phase[s] = "signing"
    BY <1>6 DEF signed
  <2>2. CASE phase' = [phase EXCEPT ![s] = "failed"]
    BY <1>2, <1>6, <2>1, <2>2
  <2>3. CASE phase' = [phase EXCEPT ![s] = "listing"] /\ UNCHANGED <<claims, record, early>>
    BY <1>1, <2>1, <2>3 DEF GoesOn, Typed
  <2> QED BY <1>6, <2>2, <2>3 DEF signed
<1>7. CASE listSessionRecord(s)
  BY <1>2, <1>7 DEF listSessionRecord
<1> QED BY <1>3, <1>4, <1>5, <1>6, <1>7

\* The steps that move no session.
Rests ==
    \/ \E k \in Conns : add(k) \/ remove(k) \/ heartbeat(k) \/ pong(k)
    \/ start \/ remount \/ exit \/ stopSyncServer \/ startSyncServer
    \/ \E x \in calls : stopped(x) \/ clearStale(x)
    \/ \E c \in Claims : beginTake(c) \/ announce(c)

LEMMA NextIs ==
    ASSUME Typed, Next
    PROVE  \/ Rests /\ phase' = phase
           \/ (\E x \in calls : started(x)) /\ Same /\ calls' \subseteq calls /\ UNCHANGED <<spans, conns>>
           \/ \E s \in Sids : Opens(s) /\ calls' \subseteq calls
           \/ Same /\ UNCHANGED <<spans, conns, calls>>
           \/ \E s \in Sids : Closes(s) /\ calls \subseteq calls'
                              /\ \A x \in calls' \ calls : x.kind = "stop" /\ x.sid = s
           \/ \E s \in Sids : GoesOn(s)
           \/ crash
<1>1. ASSUME Rests PROVE phase' = phase
  BY <1>1 DEF Rests, add, remove, heartbeat, pong, Evicts, Registry, start, remount, exit,
              stopSyncServer, startSyncServer, stopped, clearStale, beginTake, announce
<1>2. CASE \E s \in Sids : sign(s) \/ signed(s) \/ listSessionRecord(s)
  BY <1>2, RecordDoes
<1>3. CASE stop \/ onWillQuit \/ flush
  BY <1>3, StopDoes
<1>4. CASE \E x \in calls : started(x)
  BY <1>4, StartedDoes
<1>5. CASE crash
  BY <1>5
<1>6. CASE Rests
  BY <1>1, <1>6
<1> QED BY <1>2, <1>3, <1>4, <1>5, <1>6 DEF Next, Rests

LEMMA CloseIs ==
    ASSUME Typed, NEW s \in Sids, Closes(s)
    PROVE  /\ phase'[s] = "grace" /\ spans'[s] = NoSpans
           /\ \A t \in Sids \ {s} : phase'[t] = phase[t] /\ spans'[t] = spans[t]
BY CloseTyped DEF Closes

LEMMA OpenIs ==
    ASSUME Typed, NEW s \in Sids, Opens(s)
    PROVE  /\ phase'[s] = "open" /\ \A t \in Sids \ {s} : phase'[t] = phase[t]
           /\ spans'[s] = track(spans[s], conns) /\ \A t \in Sids \ {s} : spans'[t] = spans[t]
BY DEF Opens, Typed

LEMMA CrashIs ==
    ASSUME Typed, crash
    PROVE  /\ \A s \in Sids : phase'[s] \notin {"open", "grace", "signing", "listing"}
           /\ \A s \in Sids : early'[s] = {} /\ spans'[s] = NoSpans
           /\ \A x \in calls' : x.kind = "stale"
           /\ quit' = "no"
<1>1. \A s \in Sids : phase'[s] \notin {"open", "grace", "signing", "listing"}
  BY DEF crash, Opened, Closing, Typed
<1>2. \A x \in calls' : x.kind = "stale"
  BY StaleCall DEF crash
<1> QED BY <1>1, <1>2 DEF crash, Nothing

-----------------------------------------------------------------------------
(***************************************************************************)
(* The document names the open session.                                    *)
(***************************************************************************)
LEMMA OpenStep == Inv /\ Next => OneOpen'
<1> SUFFICES ASSUME Inv, Next PROVE OneOpen'
  OBVIOUS
<1> USE DEF Inv
<1>1. CASE phase' = phase
  BY <1>1 DEF OneOpen
<1>2. ASSUME NEW s \in Sids, Opens(s) PROVE OneOpen'
  BY <1>2, OpenIs DEF OneOpen, Opens
<1>3. ASSUME NEW s \in Sids, Closes(s) PROVE OneOpen'
  BY <1>3, CloseIs DEF OneOpen
<1>4. ASSUME NEW s \in Sids, GoesOn(s) PROVE OneOpen'
  BY <1>4 DEF OneOpen, GoesOn
<1>5. CASE crash
  BY <1>5, CrashIs DEF OneOpen
<1> QED BY <1>1, <1>2, <1>3, <1>4, <1>5, NextIs DEF Same

\* The calls that wait to clear a session: none of them is new, or it is of the
\* one that was closed.
LEMMA StopsStep == Inv /\ Next => StopsClosed'
<1> SUFFICES ASSUME Inv, Next PROVE StopsClosed'
  OBVIOUS
<1> USE DEF Inv
<1>0. ASSUME NEW x \in calls, x.kind = "stop" PROVE x.sid \in Sids /\ phase[x.sid] \notin {"unused", "open"}
  BY <1>0 DEF StopsClosed
<1>1. CASE phase' = phase /\ \A x \in calls' : x.kind = "stop" => \E y \in calls : x.kind = y.kind /\ x.sid = y.sid
  BY <1>1 DEF StopsClosed
<1>2. CASE Rests /\ phase' = phase
  <2>1. CASE start
    <3>1. calls' = calls \cup {Call("start", NoSid, TRUE)}
      BY <2>1 DEF start
    <3>2. Call("start", NoSid, TRUE).kind = "start"
      BY CallTyped DEF MaybeSid
    <3> QED BY <1>1, <1>2, <3>1, <3>2
  <2>2. CASE remount
    <3>1. calls' = Orphaned(calls)
      BY <2>2 DEF remount
    <3> QED BY <1>1, <1>2, <3>1, OrphansAre DEF Typed
  <2>3. CASE calls' \subseteq calls
    BY <1>1, <1>2, <2>3
  <2> QED BY <1>2, <2>1, <2>2, <2>3
          DEF Rests, add, remove, heartbeat, pong, Evicts, Registry, exit,
              stopSyncServer, startSyncServer, stopped, clearStale, beginTake, announce
<1>3. CASE Same /\ calls' \subseteq calls
  BY <1>1, <1>3 DEF Same
<1>4. ASSUME NEW s \in Sids, Opens(s), calls' \subseteq calls PROVE StopsClosed'
  BY <1>0, <1>4, OpenIs DEF StopsClosed, Opens
<1>5. ASSUME NEW s \in Sids, Closes(s), \A x \in calls' \ calls : x.kind = "stop" /\ x.sid = s
      PROVE  StopsClosed'
  BY <1>0, <1>5, CloseIs DEF StopsClosed
<1>6. ASSUME NEW s \in Sids, GoesOn(s) PROVE StopsClosed'
  BY <1>0, <1>6 DEF StopsClosed, GoesOn
<1>7. CASE crash
  BY <1>7, CrashIs DEF StopsClosed
<1> QED BY <1>2, <1>3, <1>4, <1>5, <1>6, <1>7, NextIs

LEMMA PublishedStep == Inv /\ Next => Published'
<1> SUFFICES ASSUME Inv, Next PROVE Published'
  OBVIOUS
<1> USE DEF Inv
<1>1. CASE phase' = phase /\ docSession' = docSession
  BY <1>1 DEF Published
<1>2. CASE Rests /\ phase' = phase
  <2>1. ASSUME NEW x \in calls, stopped(x) PROVE Published'
    <3>1. x.kind = "stop" /\ (docSession' = docSession \/ docSession = x.sid)
      BY <2>1 DEF stopped, clears
    <3>2. phase[x.sid] # "open"
      BY <3>1 DEF StopsClosed
    <3> QED BY <1>2, <3>1, <3>2 DEF Published
  <2>2. ASSUME NEW x \in calls, clearStale(x) PROVE Published'
    <3>1. docSession' = docSession \/ isStale(x)
      BY <2>2 DEF clearStale
    <3>2. ASSUME NEW s \in Sids, phase[s] = "open" PROVE ~isStale(x)
      <4>1. current \in Sids /\ phase[current] = "open"
        BY <3>2, CurrentIs
      <4> QED BY <4>1 DEF isStale, Published
    <3> QED BY <1>2, <3>1, <3>2 DEF Published
  <2>3. CASE docSession' = docSession
    BY <1>1, <1>2, <2>3
  <2> QED BY <1>2, <2>1, <2>2, <2>3
          DEF Rests, add, remove, heartbeat, pong, Evicts, Registry, start, remount, exit,
              stopSyncServer, startSyncServer, beginTake, announce
<1>3. ASSUME NEW s \in Sids, Opens(s) PROVE Published'
  BY <1>3, OpenIs DEF Published, Opens
<1>4. ASSUME NEW s \in Sids, Closes(s) PROVE Published'
  BY <1>4, CloseIs DEF Published, Closes
<1>5. ASSUME NEW s \in Sids, GoesOn(s) PROVE Published'
  BY <1>5 DEF Published, GoesOn
<1>6. CASE crash
  BY <1>6, CrashIs DEF Published
<1> QED BY <1>1, <1>2, <1>3, <1>4, <1>5, <1>6, NextIs DEF Same

-----------------------------------------------------------------------------
(***************************************************************************)
(* A claim in time is named.                                               *)
(***************************************************************************)
LEMMA KeptStep == Inv /\ Next => KeptInTime'
<1> SUFFICES ASSUME Inv, Next PROVE KeptInTime'
  OBVIOUS
<1> USE DEF Inv
<1>1. CASE phase' = phase /\ UNCHANGED <<claims, record, early>>
  BY <1>1 DEF KeptInTime
<1>2. ASSUME NEW c \in Claims, announce(c) PROVE KeptInTime'
  <2>1. /\ claimVerified(c) /\ UNCHANGED <<phase, record>>
    BY <1>2 DEF announce
  <2>2. ASSUME NEW s \in Sids
        PROVE  /\ claims[s] \subseteq claims'[s]
               /\ \/ early'[s] = early[s]
                  \/ phase[s] \in {"open", "grace"} /\ early'[s] = early[s] \cup {c} /\ c \in claims'[s]
    BY <2>1 DEF claimVerified, listens, Closing, Typed
  <2>3. ASSUME NEW s \in Sids
        PROVE  /\ phase'[s] \in {"unused", "open", "grace"} => early'[s] \subseteq claims'[s]
               /\ phase'[s] \in {"signing", "listing"} => early'[s] \subseteq record'[s]
    BY <2>1, <2>2 DEF KeptInTime
  <2> QED BY <2>3 DEF KeptInTime
<1>3. CASE Rests /\ phase' = phase
  BY <1>1, <1>2, <1>3
  DEF Rests, add, remove, heartbeat, pong, Evicts, Registry, start, remount, exit,
      stopSyncServer, startSyncServer, stopped, clearStale, beginTake
<1>4. ASSUME NEW s \in Sids, Opens(s) PROVE KeptInTime'
  BY <1>4, OpenIs DEF KeptInTime, Opens
<1>5. ASSUME NEW s \in Sids, Closes(s) PROVE KeptInTime'
  BY <1>5, CloseIs DEF KeptInTime, Closes
<1>6. ASSUME NEW s \in Sids, GoesOn(s) PROVE KeptInTime'
  BY <1>6 DEF KeptInTime, GoesOn
<1>7. CASE crash
  BY <1>7, CrashIs DEF KeptInTime
<1> QED BY <1>1, <1>3, <1>4, <1>5, <1>6, <1>7, NextIs DEF Same

-----------------------------------------------------------------------------
(***************************************************************************)
(* The spans that run.                                                     *)
(***************************************************************************)
\* A change of the list: a socket that goes is gone, and stays so.
LEMMA SpansFollow ==
    ASSUME Inv, phase' = phase, connectionsChanged(conns'),
           \A k \in Conns : /\ conns[k] = "gone" => conns'[k] = "gone"
                            /\ IsUp(k) => conns'[k] \in {"alive", "quiet", "gone"}
    PROVE  SpansRun'
<1> USE DEF Inv
<1> SUFFICES ASSUME NEW s \in Sids, NEW k \in Conns
             PROVE  /\ phase[s] = "open" /\ conns'[k] \in {"alive", "quiet"} /\ k \in Proven => spans'[s][k] = "live"
                    /\ spans'[s][k] = "live" => phase[s] = "open" /\ conns'[k] \in {"alive", "quiet"} /\ k \in Proven
                    /\ phase[s] = "open" /\ spans'[s][k] = "ended" => conns'[k] = "gone"
                    /\ phase[s] # "open" => spans'[s][k] = "none"
  BY DEF SpansRun, IsUp
<1>1. spans[s] \in [Conns -> {"none", "live", "ended"}] /\ spans[s][k] \in {"none", "live", "ended"}
  BY DEF Typed
<1>2. CASE phase[s] # "open"
  <2>1. spans'[s] = spans[s]
    BY <1>2 DEF connectionsChanged, Opened
  <2> QED BY <1>2, <2>1 DEF SpansRun
<1>3. CASE phase[s] = "open"
  <2>1. spans'[s] = track(spans[s], conns')
    BY <1>3 DEF connectionsChanged, Opened
  <2>2. spans'[s][k] = IF conns'[k] \in {"alive", "quiet"} /\ k \in Proven
                       THEN IF spans[s][k] = "none" THEN "live" ELSE spans[s][k]
                       ELSE IF spans[s][k] = "live" THEN "ended" ELSE spans[s][k]
    BY <1>1, <2>1, TrackIs
  <2> QED BY <1>1, <1>3, <2>2 DEF SpansRun, IsUp
<1> QED BY <1>2, <1>3

LEMMA SpansStep == Inv /\ Next => SpansRun'
<1> SUFFICES ASSUME Inv, Next PROVE SpansRun'
  OBVIOUS
<1> USE DEF Inv
<1>1. CASE UNCHANGED <<phase, spans, conns>>
  BY <1>1 DEF SpansRun, IsUp
<1>2. ASSUME NEW k \in Conns, add(k) \/ remove(k) \/ heartbeat(k) \/ pong(k) PROVE SpansRun'
  <2>1. /\ phase' = phase /\ connectionsChanged(conns')
        /\ \/ conns' = [conns EXCEPT ![k] = "alive"] /\ conns[k] \in {"new", "quiet"}
           \/ conns' = [conns EXCEPT ![k] = "gone"]
           \/ conns' = [conns EXCEPT ![k] = "quiet"] /\ conns[k] = "alive"
    BY <1>2 DEF add, remove, heartbeat, pong, Evicts, Registry
  <2>2. \A l \in Conns : /\ conns[l] = "gone" => conns'[l] = "gone"
                         /\ IsUp(l) => conns'[l] \in {"alive", "quiet", "gone"}
    BY <2>1 DEF Typed, IsUp
  <2> QED BY <2>1, <2>2, SpansFollow
<1>3. CASE stopSyncServer
  <2>1. /\ phase' = phase /\ connectionsChanged(conns')
        /\ \A l \in Conns : /\ conns[l] = "gone" => conns'[l] = "gone"
                            /\ IsUp(l) => conns'[l] \in {"alive", "quiet", "gone"}
    BY <1>3 DEF stopSyncServer, IsUp
  <2> QED BY <2>1, SpansFollow
<1>4. CASE Rests /\ phase' = phase
  BY <1>1, <1>2, <1>3, <1>4
  DEF Rests, start, remount, exit, startSyncServer, stopped, clearStale, beginTake, announce
<1>5. ASSUME NEW s \in Sids, Opens(s) PROVE SpansRun'
  <2>1. spans[s] \in [Conns -> {"none", "live", "ended"}] /\ conns' = conns /\ phase[s] = "unused"
    BY <1>5 DEF Typed, Opens
  <2>2. \A k \in Conns : spans'[s][k] = IF IsUp(k) /\ k \in Proven THEN "live" ELSE "none"
    <3>1. \A k \in Conns : spans[s][k] = "none"
      BY <2>1 DEF SpansRun
    <3> QED BY <1>5, <2>1, <3>1, OpenIs, TrackIs DEF IsUp
  <2>3. ASSUME NEW t \in Sids, NEW k \in Conns
        PROVE  /\ phase'[t] = "open" /\ IsUp(k) /\ k \in Proven => spans'[t][k] = "live"
               /\ spans'[t][k] = "live" => phase'[t] = "open" /\ IsUp(k) /\ k \in Proven
               /\ phase'[t] = "open" /\ spans'[t][k] = "ended" => conns[k] = "gone"
               /\ phase'[t] # "open" => spans'[t][k] = "none"
    <3>1. CASE t = s
      BY <1>5, <2>2, <3>1, OpenIs
    <3>2. CASE t # s
      BY <1>5, <3>2, OpenIs DEF SpansRun
    <3> QED BY <3>1, <3>2
  <2> QED BY <2>1, <2>3 DEF SpansRun, IsUp
<1>6. ASSUME NEW s \in Sids, Closes(s) PROVE SpansRun'
  <2>1. conns' = conns
    BY <1>6 DEF Closes
  <2> QED BY <1>6, <2>1, CloseIs DEF SpansRun, NoSpans, IsUp
<1>7. ASSUME NEW s \in Sids, GoesOn(s) PROVE SpansRun'
  BY <1>7 DEF SpansRun, IsUp, GoesOn
<1>8. CASE crash
  BY <1>8, CrashIs DEF SpansRun, NoSpans
<1> QED BY <1>1, <1>4, <1>5, <1>6, <1>7, <1>8, NextIs DEF Same

-----------------------------------------------------------------------------
(***************************************************************************)
(* Quitting, and the invariant.                                            *)
(***************************************************************************)
LEMMA QuitStep == Inv /\ Next => QuitSignsAll'
<1> SUFFICES ASSUME Inv, Next, quit' = "exited" PROVE Closing' = {}
  BY DEF QuitSignsAll
<1>1. quit # "exited"
  <2> SUFFICES ASSUME quit = "exited" PROVE FALSE
    OBVIOUS
  <2> QED BY DEF Next, Alive, add, remove, heartbeat, pong, Evicts, start, stop, remount,
                 started, stopped, clearStale, sign, signed, listSessionRecord, beginTake,
                 announce, onWillQuit, flush, exit, stopSyncServer, startSyncServer, crash
<1>2. exit
  BY <1>1 DEF Next, add, remove, heartbeat, pong, Evicts, Registry, start, stop, remount,
                 started, stopped, clearStale, sign, signed, listSessionRecord, beginTake,
                 announce, onWillQuit, flush, stopSyncServer, startSyncServer, crash
<1> QED BY <1>2 DEF exit, flushed, Closing

LEMMA Stutter == Inv /\ UNCHANGED vars => Inv'
<1> SUFFICES ASSUME Inv, UNCHANGED vars PROVE Inv'
  OBVIOUS
<1>0. UNCHANGED <<up, conns, phase, spans, claims, record, covers, taken, docSession,
                  publishedIn, calls, quit, view, outages, early>>
  BY DEF vars
<1>1. Typed'
  BY <1>0 DEF Inv, Typed
<1>2. OneOpen' /\ StopsClosed' /\ Published'
  BY <1>0 DEF Inv, OneOpen, StopsClosed, Published
<1>3. KeptInTime' /\ SpansRun' /\ QuitSignsAll'
  BY <1>0 DEF Inv, KeptInTime, SpansRun, IsUp, QuitSignsAll, Closing
<1> QED BY <1>1, <1>2, <1>3 DEF Inv

LEMMA Invariant == Spec => []Inv
<1>1. Init => Inv
  BY InitInv
<1>2. Inv /\ [Next]_vars => Inv'
  <2>1. Inv /\ Next => Inv'
    BY TypeStep, OpenStep, StopsStep, PublishedStep, KeptStep, SpansStep, QuitStep DEF Inv
  <2> QED BY <2>1, Stutter
<1> QED BY <1>1, <1>2, PTL DEF Spec

-----------------------------------------------------------------------------
(***************************************************************************)
(* The theorems.                                                           *)
(***************************************************************************)
\* Every variable keeps to the values it may have, and a host has one open session
\* at most (open, sessionRecorder.ts, throws otherwise).
THEOREM TypeCorrect == Spec => []TypeOK
<1>1. Inv => TypeOK
  <2> SUFFICES ASSUME Inv PROVE TypeOK
    OBVIOUS
  <2>1. Opened = {} \/ \E s : Opened = {s}
    BY DEF Inv, OneOpen, Opened
  <2>2. Cardinality(Opened) = 0 \/ Cardinality(Opened) = 1
    BY <2>1, FS_EmptySet, FS_Singleton, Zenon
  <2> DEFINE n == Cardinality(Opened)
  <2>3. n <= 1
    <3> HIDE DEF n
    <3> QED BY <2>2 DEF n
  <2>4. /\ {claims, record, covers, early} \subseteq [Sids -> SUBSET Claims]
        /\ {docSession, publishedIn} \subseteq Sids \cup {NoSid}
    BY DEF Inv, Typed, MaybeSid
  <2>5. /\ calls \subseteq [kind : {"start", "stop", "stale"}, sid : Sids \cup {NoSid}, mine : BOOLEAN]
        /\ view \in [open : Sids \cup {NoSid}, stopped : Sids \cup {NoSid}, settled : BOOLEAN]
    BY DEF Inv, Typed, MaybeSid, CallRecords, Views
  <2> HIDE DEF n
  <2>6. n = Cardinality(Opened)
    BY DEF n
  <2> QED BY <2>3, <2>4, <2>5, <2>6 DEF Inv, Typed, Phases, TypeOK
<1> QED BY <1>1, Invariant, PTL

\* While a session is open the document names it (hostSession.ts), whatever stop of
\* an earlier one or sweep of a stale one still waits for the document.
THEOREM OpenStaysPublished == Spec => []OpenIsPublished
<1>1. Inv => OpenIsPublished
  BY CurrentIs DEF Inv, Published, OpenIsPublished
<1> QED BY <1>1, Invariant, PTL

\* A claim that was announced while its session was open or in its grace period is
\* named by the record that is signed (sessionRecorder.ts).
THEOREM NamedInTime == Spec => []InTimeIsNamed
<1>1. Inv => InTimeIsNamed
  BY DEF Inv, KeptInTime, InTimeIsNamed
<1> QED BY <1>1, Invariant, PTL

\* Quitting leaves no session half signed (main.ts awaits the recorder's flush).
THEOREM QuitLeavesNone == Spec => []QuitSignsAll
<1>1. Inv => QuitSignsAll
  BY DEF Inv
<1> QED BY <1>1, Invariant, PTL

\* The spans that run are those of the proven sockets connected now
\* (connectionsChanged, sessionRecorder.ts), through evictions, restarts of the
\* server and sessions that open in the middle of a connection.
THEOREM SpansAreConnected == Spec => []LiveIsConnected
<1>1. Inv => LiveIsConnected
  BY DEF Inv, SpansRun, LiveIsConnected
<1> QED BY <1>1, Invariant, PTL


-----------------------------------------------------------------------------
(***************************************************************************)
(* RendererRepo: the newest combination wins and the library is kept, for  *)
(* any number of starts, settings, overlapping builds and faults.          *)
(***************************************************************************)
Roots == Nat \cup {Imported}
UrlSet == [server : Nat, label : Nat, resolved : BOOLEAN]
Keys == [root : Roots, urls : UrlSet]
BuildSet == [gen : Nat \ {0}, key : Keys, attempt : {1, 2},
             step : {"find", "created", "ready", "unavailable"}]

RepoTypes ==
  /\ server \in Nat /\ starts \in Nat /\ label \in Nat /\ replies \in Seq(Nat)
  /\ urls \in UrlSet /\ stored \in Roots
  /\ applied \in Keys /\ generation \in Nat /\ builds \subseteq BuildSet
  /\ repo \in [gen : Nat, key : Keys, attempt : {1, 2}, step : {"used"}]

Current(b) == b.gen = generation

\* A generation is one build, and no build is ahead of the counter.
OneBuildEach ==
  /\ \A b \in builds : b.gen <= generation
  /\ \A b, c \in builds : b.gen = c.gen => b = c
\* The newest build is of the applied combination, but for the root it created itself.
CurrentIsApplied ==
  \A b \in builds : Current(b) =>
    IF b.step = "created" THEN applied = [b.key EXCEPT !.root = None]
                          ELSE applied = b.key
\* With the newest build ended, the repo in use is of the applied combination.
UsedIsApplied ==
  repo # NoRepo /\ applied # NoKey /\ (\A b \in builds : ~Current(b))
    => repo.key = applied
Creates(b) == b.key.root = None \/ b.step = "created"
\* The newest build creates a root exactly while none is stored.
CreatesForNone == \A b \in builds : Current(b) => (Creates(b) <=> stored = None)
\* Past the search a build has a root, and a window with a repo has it stored.
RootIsHad ==
  /\ \A b \in builds : b.step # "find" => b.key.root # None
  /\ repo # NoRepo => stored # None
\* An open repo is the one in use, the last of a build that had nothing, or still tried.
OnlyUsedOpen ==
  /\ \A r \in open : \/ r = RepoOf(repo) \/ r = Lost(r[1])
                     \/ \E b \in builds : r = RepoOf(b)
  /\ \A b \in builds : b.step = "unavailable" => RepoOf(b) \notin open
  /\ \A r \in open : r \in Nat \X Nat /\ r[1] <= generation

RepoInv ==
  /\ RepoTypes /\ OneBuildEach /\ CurrentIsApplied /\ UsedIsApplied
  /\ CreatesForNone /\ RootIsHad /\ OnlyUsedOpen

LEMMA NoLibraryYet == Imported # None /\ MaxBuilds \in Nat
BY RepoBounds DEF RepoBounds, None

LEMMA RepoStart == RepoInit => RepoInv
<1> SUFFICES ASSUME RepoInit PROVE RepoInv
  OBVIOUS
<1>1. NoUrls \in UrlSet /\ NoKey \in Keys
  BY DEF NoUrls, UrlSet, NoKey, rendererRepoKey, Keys, Roots, None
<1>2. RepoTypes
  BY <1>1 DEF RepoInit, RepoTypes, NoRepo, Roots, Home, None
<1> QED
  BY <1>2 DEF RepoInit, RepoInv, OneBuildEach, CurrentIsApplied, UsedIsApplied,
              CreatesForNone, RootIsHad, OnlyUsedOpen

\* What a step that leaves the builds and the repos alone cannot disturb.
LEMMA OutsideStep ==
  ASSUME RepoInv, work' = work, stored' = stored, RepoTypes'
  PROVE  RepoInv'
BY DEF RepoInv, OneBuildEach, CurrentIsApplied, UsedIsApplied, Current,
       CreatesForNone, RootIsHad, OnlyUsedOpen, work, Creates, RepoOf

LEMMA HostStep ==
  ASSUME RepoInv, Started \/ Toggle \/ Write \/ WriteSame \/ Syncs \/ getServerInfo
  PROVE  RepoInv'
<1>1. work' = work /\ shell' = shell
  BY DEF Started, Toggle, Write, WriteSame, Syncs, getServerInfo, work
<1>2. RepoTypes'
  <2> USE DEF RepoInv, RepoTypes, work, shell, host, asks, None
  <2>1. CASE Started  BY <2>1, <1>1 DEF Started
  <2>2. CASE Toggle  BY <2>2, <1>1 DEF Toggle
  <2>3. CASE Write  BY <2>3, <1>1 DEF Write
  <2>4. CASE WriteSame  BY <2>4, <1>1 DEF WriteSame
  <2>5. CASE Syncs  BY <2>5, <1>1 DEF Syncs
  <2>6. CASE getServerInfo  BY <2>6, <1>1 DEF getServerInfo
  <2> QED
    BY <2>1, <2>2, <2>3, <2>4, <2>5, <2>6
<1> QED
  BY <1>1, <1>2, OutsideStep DEF shell

LEMMA ResolveStep ==
  ASSUME RepoInv, resolved \/ resolveFailed
  PROVE  RepoInv'
<1>1. Head(replies) \in Nat /\ Tail(replies) \in Seq(Nat)
  BY DEF RepoInv, RepoTypes, resolved, resolveFailed
<1>2. CASE resolved
  <2>1. RepoTypes'
    BY <1>1, <1>2 DEF resolved, RepoInv, RepoTypes, Urls, UrlSet, host, docs, work
  <2> QED
    BY <2>1, <1>2, OutsideStep DEF resolved
<1>3. CASE resolveFailed
  <2>1. RepoTypes'
    BY <1>1, <1>3 DEF resolveFailed, RepoInv, RepoTypes, host, docs, shell
  <2> QED
    BY <2>1, <1>3 DEF resolveFailed, shell, RepoInv, OneBuildEach, CurrentIsApplied,
       UsedIsApplied, Current, CreatesForNone, RootIsHad, OnlyUsedOpen, Creates, RepoOf
<1> QED
  BY <1>2, <1>3

\* The import finds a library, so that no current build is creating one.
LEMMA ImportStep ==
  ASSUME RepoInv, Import
  PROVE  RepoInv'
<1>1. work' = work /\ stored' = Imported /\ stored # None
  BY DEF Import, RepoInv, RootIsHad
<1>2. RepoTypes'
  BY <1>1 DEF Import, RepoInv, RepoTypes, host, docs, work, Roots
<1> QED
  BY <1>1, <1>2, NoLibraryYet DEF RepoInv, OneBuildEach, CurrentIsApplied,
     UsedIsApplied, Current, CreatesForNone, RootIsHad, OnlyUsedOpen, work, Creates, RepoOf

LEMMA InitializeStep ==
  ASSUME RepoInv, initialize
  PROVE  RepoInv'
<1> DEFINE key == rendererRepoKey(stored, urls)
           b == [gen |-> generation + 1, key |-> key, attempt |-> 1, step |-> "find"]
<1>1. CASE work' = work
  <2>1. RepoTypes'
    BY <1>1 DEF initialize, RepoInv, RepoTypes, host, asks, docs, work
  <2> QED
    BY <1>1, <2>1, OutsideStep DEF initialize
<1>2. CASE /\ applied' = key /\ generation' = b.gen /\ builds' = builds \cup {b}
           /\ open' = open \cup {RepoOf(b)} /\ UNCHANGED <<repo, error>>
  <2>1. b \in BuildSet /\ key \in Keys
    BY DEF RepoInv, RepoTypes, BuildSet, Keys, rendererRepoKey
  <2>2. RepoTypes'
    BY <1>2, <2>1 DEF initialize, RepoInv, RepoTypes, host, asks, docs
  <2>3. \A c \in builds : c.gen \in Nat /\ c.gen < b.gen
    BY DEF RepoInv, RepoTypes, OneBuildEach, BuildSet
  <2>4. OneBuildEach' /\ CurrentIsApplied'
    BY <1>2, <2>3 DEF RepoInv, OneBuildEach, CurrentIsApplied, Current, RepoTypes
  <2>5. UsedIsApplied'
    BY <1>2 DEF UsedIsApplied, Current
  <2>6. CreatesForNone' /\ RootIsHad'
    BY <1>2, <2>3 DEF initialize, RepoInv, CreatesForNone, RootIsHad, Creates,
                      Current, rendererRepoKey
  <2>7. OnlyUsedOpen'
    <3>1. RepoOf(b) = <<generation + 1, 1>> /\ generation \in Nat
      BY DEF RepoOf, RepoInv, RepoTypes
    <3>2. RepoOf(repo)' = RepoOf(repo)
      BY <1>2 DEF RepoOf
    <3>3. \A c \in builds' : c.step = "unavailable" => RepoOf(c) \notin open'
      <4> SUFFICES ASSUME NEW c \in builds', c.step = "unavailable"
                   PROVE  RepoOf(c) \notin open'
        OBVIOUS
      <4>1. c \in builds /\ RepoOf(c) \notin open
        BY <1>2 DEF RepoInv, OnlyUsedOpen
      <4>2. RepoOf(c) # RepoOf(b)
        BY <4>1, <2>3, <3>1 DEF RepoOf
      <4> QED
        BY <4>1, <4>2, <1>2
    <3>4. \A r \in open' : r \in Nat \X Nat /\ r[1] <= generation'
      BY <3>1, <1>2 DEF RepoInv, OnlyUsedOpen
    <3>5. \A r \in open' : \/ r = RepoOf(repo)' \/ r = Lost(r[1])
                           \/ \E c \in builds' : r = RepoOf(c)
      BY <3>2, <1>2 DEF RepoInv, OnlyUsedOpen
    <3> QED
      BY <3>3, <3>4, <3>5 DEF OnlyUsedOpen, RepoOf
  <2> QED
    BY <2>2, <2>4, <2>5, <2>6, <2>7 DEF RepoInv
<1> QED
  BY <1>1, <1>2 DEF initialize

\* One attempt of a build: it stays the same build of the same generation.
LEMMA AttemptStep ==
  ASSUME RepoInv, NEW b \in builds, bootstrapRendererRepo(b)
  PROVE  RepoInv'
<1>1. UNCHANGED <<server, starts, label, replies, urls, stored, applied, generation, repo>>
  BY DEF bootstrapRendererRepo, host, asks, shell
<1>2. b \in BuildSet /\ b.gen <= generation /\ b.step = "find"
  BY DEF RepoInv, RepoTypes, OneBuildEach, bootstrapRendererRepo, create, find,
         legacy, unavailable
<1>3. PICK c \in BuildSet :
        /\ Becomes(b, c)
        /\ c.gen = b.gen
        /\ \/ c.step = "created" /\ b.key.root = None
              /\ c.key = [b.key EXCEPT !.root = b.gen + 1]
              /\ RepoOf(c) = RepoOf(b) /\ open' = open
           \/ c.step = "ready" /\ b.key.root # None /\ c.key = b.key
              /\ RepoOf(c) = RepoOf(b) /\ open' = open
           \/ c.step = "find" /\ b.key.root # None /\ c.key = b.key
              /\ open' = (open \ {RepoOf(b)}) \cup {RepoOf(c)}
           \/ c.step = "unavailable" /\ b.key.root # None /\ c.key = b.key
              /\ RepoOf(c) = RepoOf(b)
              /\ open' = (open \ {RepoOf(b)}) \cup {Lost(b.gen)}
  <2> DEFINE goal(c) ==
        /\ Becomes(b, c)
        /\ c.gen = b.gen
        /\ \/ c.step = "created" /\ b.key.root = None
              /\ c.key = [b.key EXCEPT !.root = b.gen + 1]
              /\ RepoOf(c) = RepoOf(b) /\ open' = open
           \/ c.step = "ready" /\ b.key.root # None /\ c.key = b.key
              /\ RepoOf(c) = RepoOf(b) /\ open' = open
           \/ c.step = "find" /\ b.key.root # None /\ c.key = b.key
              /\ open' = (open \ {RepoOf(b)}) \cup {RepoOf(c)}
           \/ c.step = "unavailable" /\ b.key.root # None /\ c.key = b.key
              /\ RepoOf(c) = RepoOf(b)
              /\ open' = (open \ {RepoOf(b)}) \cup {Lost(b.gen)}
  <2>1. CASE create(b)
    <3> DEFINE c == [b EXCEPT !.key.root = b.gen + 1, !.step = "created"]
    <3>1. [b.key EXCEPT !.root = b.gen + 1] \in Keys
      BY <1>2 DEF BuildSet, Keys, Roots
    <3>2. c.key = [b.key EXCEPT !.root = b.gen + 1] /\ c.gen = b.gen
          /\ c.step = "created" /\ c.attempt = b.attempt
      BY <1>2 DEF BuildSet
    <3>3. c \in BuildSet
      BY <1>2, <3>1 DEF BuildSet
    <3>4. goal(c)
      BY <2>1, <3>2 DEF create, RepoOf
    <3> QED
      BY <3>3, <3>4
  <2>2. CASE find(b)
    <3> DEFINE c == [b EXCEPT !.step = "ready"]
    <3>1. c \in BuildSet /\ goal(c)
      BY <2>2, <1>2 DEF find, BuildSet, RepoOf
    <3> QED
      BY <3>1
  <2>3. CASE legacy(b)
    <3> DEFINE c == [b EXCEPT !.attempt = 2]
    <3>1. c \in BuildSet /\ goal(c)
      BY <2>3, <1>2 DEF legacy, BuildSet
    <3> QED
      BY <3>1
  <2>4. CASE unavailable(b)
    <3> DEFINE c == [b EXCEPT !.step = "unavailable"]
    <3>1. c \in BuildSet /\ goal(c)
      BY <2>4, <1>2 DEF unavailable, BuildSet, RepoOf
    <3> QED
      BY <3>1
  <2> QED
    BY <2>1, <2>2, <2>3, <2>4 DEF bootstrapRendererRepo
<1>4. builds' = (builds \ {b}) \cup {c}
  BY <1>3 DEF Becomes
<1>5. \A d \in builds' : d = c \/ (d \in builds /\ d.gen # b.gen)
  BY <1>4 DEF RepoInv, OneBuildEach
<1>6. RepoTypes'
  BY <1>1, <1>3, <1>4 DEF RepoInv, RepoTypes
<1>7. OneBuildEach'
  <2>1. \A d \in builds' : d.gen <= generation'
    BY <1>1, <1>2, <1>3, <1>5 DEF RepoInv, OneBuildEach
  <2>2. \A d, e \in builds' : d.gen = e.gen => d = e
    BY <1>3, <1>5 DEF RepoInv, OneBuildEach
  <2> QED
    BY <2>1, <2>2 DEF OneBuildEach
<1>8. CurrentIsApplied'
  <2> SUFFICES ASSUME NEW d \in builds', d.gen = generation'
               PROVE  IF d.step = "created" THEN applied' = [d.key EXCEPT !.root = None]
                                            ELSE applied' = d.key
    BY DEF CurrentIsApplied, Current
  <2>1. CASE d # c
    BY <2>1, <1>1, <1>5 DEF RepoInv, CurrentIsApplied, Current
  <2>2. CASE d = c
    <3>1. applied = b.key
      BY <2>2, <1>1, <1>2, <1>3 DEF RepoInv, CurrentIsApplied, Current
    <3>2. b.key.root = None =>
            [[b.key EXCEPT !.root = b.gen + 1] EXCEPT !.root = None] = b.key
      BY <1>2 DEF BuildSet, Keys
    <3> QED
      BY <2>2, <3>1, <3>2, <1>1, <1>3
  <2> QED
    BY <2>1, <2>2
<1>9. UsedIsApplied'
  BY <1>1, <1>3, <1>4, <1>5 DEF RepoInv, UsedIsApplied, Current
<1>10. CreatesForNone' /\ RootIsHad'
  <2>1. \A d \in builds' : d = c /\ d.step # "find" => d.key.root # None
    BY <1>2, <1>3 DEF BuildSet, Keys, None
  <2>2. Creates(c) <=> Creates(b)
    BY <1>2, <1>3 DEF Creates
  <2>3. CreatesForNone'
    BY <2>2, <1>1, <1>3, <1>5 DEF RepoInv, CreatesForNone, Current, Creates
  <2>4. RootIsHad'
    BY <2>1, <1>1, <1>5 DEF RepoInv, RootIsHad
  <2> QED
    BY <2>3, <2>4
<1>11. OnlyUsedOpen'
  <2>1. RepoOf(repo)' = RepoOf(repo)
    BY <1>1 DEF RepoOf
  <2>2. RepoOf(b) \in Nat \X Nat /\ RepoOf(c) \in Nat \X Nat /\ Lost(b.gen) \in Nat \X Nat
        /\ RepoOf(b)[1] = b.gen /\ RepoOf(c)[1] = b.gen /\ Lost(b.gen)[1] = b.gen
    BY <1>2, <1>3 DEF RepoOf, Lost, BuildSet
  <2>3. \A r \in open' : r \in Nat \X Nat /\ r[1] <= generation'
    BY <2>2, <1>1, <1>2, <1>3 DEF RepoInv, OnlyUsedOpen
  <2>4. \A d \in builds : d.gen # b.gen =>
          RepoOf(d) # RepoOf(b) /\ RepoOf(d) # RepoOf(c) /\ RepoOf(d) # Lost(b.gen)
    BY <1>3 DEF RepoOf, Lost
  <2>5. Lost(b.gen) # RepoOf(c)
    BY <1>3 DEF RepoOf, Lost, BuildSet
  <2>6. \A d \in builds' : d.step = "unavailable" => RepoOf(d) \notin open'
    BY <2>4, <2>5, <1>3, <1>5 DEF RepoInv, OnlyUsedOpen
  <2>7. ASSUME NEW r \in open'
        PROVE  \/ r = RepoOf(repo) \/ r = Lost(r[1])
               \/ \E d \in builds' : r = RepoOf(d)
    <3>1. CASE r = RepoOf(c)
      BY <3>1, <1>4
    <3>2. CASE r = Lost(b.gen)
      BY <3>2, <2>2
    <3>3. CASE r \in open /\ r # RepoOf(c)
      <4>1. CASE r = RepoOf(b)
        BY <3>3, <4>1, <1>3, <2>7
      <4>2. CASE r # RepoOf(b)
        BY <3>3, <4>2, <1>4 DEF RepoInv, OnlyUsedOpen
      <4> QED
        BY <4>1, <4>2
    <3> QED
      BY <3>1, <3>2, <3>3, <1>3
  <2> QED
    BY <2>1, <2>3, <2>6, <2>7 DEF OnlyUsedOpen, RepoOf
<1> QED
  BY <1>6, <1>7, <1>8, <1>9, <1>10, <1>11 DEF RepoInv
LEMMA DropStep ==
  ASSUME RepoInv, NEW b \in builds, Drop(b)
  PROVE  RepoInv'
<1>1. UNCHANGED <<server, starts, label, replies, urls, stored, applied, generation, repo>>
  BY DEF Drop, host, asks, shell
<1>2. builds' = builds \ {b} /\ open' = open \ {RepoOf(b)} /\ ~Current(b)
  BY DEF Drop, superseded, Current
<1>3. RepoTypes' /\ OneBuildEach' /\ CurrentIsApplied'
  BY <1>1, <1>2 DEF RepoInv, RepoTypes, OneBuildEach, CurrentIsApplied, Current
<1>4. UsedIsApplied' /\ CreatesForNone' /\ RootIsHad'
  BY <1>1, <1>2 DEF RepoInv, UsedIsApplied, CreatesForNone, RootIsHad, Current, Creates
<1>5. OnlyUsedOpen'
  BY <1>1, <1>2 DEF RepoInv, OnlyUsedOpen, RepoOf, Lost
<1> QED
  BY <1>3, <1>4, <1>5 DEF RepoInv

LEMMA StayStep ==
  ASSUME RepoInv, NEW b \in builds, Stay(b)
  PROVE  RepoInv'
<1>1. UNCHANGED <<server, starts, label, replies, urls, stored, generation, repo, open>>
  BY DEF Stay, host, asks, shell
<1>2. builds' = builds \ {b} /\ Current(b) /\ b.step = "unavailable"
  BY DEF Stay, superseded, Current
<1>3. \/ repo # NoRepo /\ applied' = NoKey
      \/ repo = NoRepo /\ applied' = applied
  BY DEF Stay
<1>4. NoKey \in Keys
  BY DEF NoUrls, UrlSet, NoKey, rendererRepoKey, Keys, Roots, None
<1>5. \A c \in builds' : ~Current(c)
  BY <1>2 DEF RepoInv, OneBuildEach, Current
<1>6. RepoTypes' /\ OneBuildEach' /\ CurrentIsApplied'
  BY <1>1, <1>2, <1>3, <1>4, <1>5
     DEF RepoInv, RepoTypes, OneBuildEach, CurrentIsApplied, Current
<1>7. UsedIsApplied' /\ CreatesForNone' /\ RootIsHad'
  BY <1>1, <1>2, <1>3, <1>5
     DEF RepoInv, UsedIsApplied, CreatesForNone, RootIsHad, Current, Creates
<1>8. OnlyUsedOpen'
  BY <1>1, <1>2 DEF RepoInv, OnlyUsedOpen, RepoOf, Lost
<1> QED
  BY <1>6, <1>7, <1>8 DEF RepoInv

\* What a build that is used knows: it is the newest, and if it created a root
\* document there was none to lose.
LEMMA UsedBuild ==
  ASSUME RepoInv, NEW b \in builds, Use(b)
  PROVE  /\ Current(b) /\ b \in BuildSet /\ b.key.root # None
         /\ b.step = "created" => stored = None
         /\ b.step # "created" => applied = b.key /\ stored # None
BY DEF Use, superseded, Current, RepoInv, RepoTypes, CurrentIsApplied,
       CreatesForNone, RootIsHad, Creates

LEMMA UseStep ==
  ASSUME RepoInv, NEW b \in builds, Use(b)
  PROVE  RepoInv'
<1>1. UNCHANGED <<server, starts, label, replies, urls, generation>>
  BY DEF Use, host, asks
<1>2. /\ builds' = builds \ {b} /\ repo' = [b EXCEPT !.step = "used"]
      /\ open' = open \ {RepoOf(repo)} /\ applied' = b.key
      /\ stored' = IF b.step = "created" THEN b.key.root ELSE stored
  BY UsedBuild DEF Use, keyFor
<1>3. b \in BuildSet /\ b.key \in Keys /\ b.key.root # None /\ b.key.root \in Roots
  BY UsedBuild DEF BuildSet, Keys
<1>4. repo' \in [gen : Nat, key : Keys, attempt : {1, 2}, step : {"used"}]
      /\ repo'.key = b.key /\ repo'.gen = b.gen /\ repo'.attempt = b.attempt
  BY <1>2, <1>3 DEF BuildSet
<1>5. \A c \in builds' : ~Current(c)
  BY <1>2, UsedBuild DEF RepoInv, OneBuildEach, Current
<1>6. RepoTypes'
  BY <1>1, <1>2, <1>3, <1>4 DEF RepoInv, RepoTypes
<1>7. OneBuildEach' /\ CurrentIsApplied' /\ UsedIsApplied' /\ CreatesForNone'
  BY <1>1, <1>2, <1>4, <1>5
     DEF RepoInv, OneBuildEach, CurrentIsApplied, UsedIsApplied, CreatesForNone, Current
<1>8. RootIsHad'
  BY <1>2, <1>3, UsedBuild DEF RepoInv, RootIsHad
<1>9. OnlyUsedOpen'
  <2>1. RepoOf(repo)' = RepoOf(b)
    BY <1>4 DEF RepoOf
  <2>2. \A r \in open' : \/ r = RepoOf(b) \/ r = Lost(r[1])
                         \/ \E c \in builds' : r = RepoOf(c)
    BY <1>2 DEF RepoInv, OnlyUsedOpen
  <2> QED
    BY <2>1, <2>2, <1>1, <1>2 DEF RepoInv, OnlyUsedOpen, RepoOf
<1> QED
  BY <1>6, <1>7, <1>8, <1>9 DEF RepoInv

LEMMA RepoStep == RepoInv /\ [RepoNext]_repoVars => RepoInv'
<1> SUFFICES ASSUME RepoInv, [RepoNext]_repoVars PROVE RepoInv'
  OBVIOUS
<1>1. CASE Started \/ Toggle \/ Write \/ WriteSame \/ Syncs \/ getServerInfo
  BY <1>1, HostStep
<1>2. CASE resolved \/ resolveFailed
  BY <1>2, ResolveStep
<1>3. CASE Import
  BY <1>3, ImportStep
<1>4. CASE initialize
  BY <1>4, InitializeStep
<1>5. ASSUME NEW b \in builds, bootstrapRendererRepo(b) \/ Drop(b) \/ Stay(b) \/ Use(b)
      PROVE  RepoInv'
  BY <1>5, AttemptStep, DropStep, StayStep, UseStep
<1>6. CASE UNCHANGED repoVars
  <2>1. work' = work /\ stored' = stored /\ RepoTypes'
    BY <1>6 DEF repoVars, host, asks, docs, shell, work, RepoInv, RepoTypes
  <2> QED
    BY <2>1, OutsideStep
<1> QED
  BY <1>1, <1>2, <1>3, <1>4, <1>5, <1>6 DEF RepoNext

LEMMA RepoInvariant == RepoSpec => []RepoInv
<1> QED
  BY RepoStart, RepoStep, PTL DEF RepoSpec

\* Whichever of the overlapping builds ends last, the window shows the newest combination
\* it built, unless that could not be had (ElectronClientAppShell.tsx, generationRef).
THEOREM TheLatestRepoWins == RepoSpec => []LatestRepoWins
<1>1. RepoInv => LatestRepoWins
  BY DEF RepoInv, UsedIsApplied, LatestRepoWins, Quiet
<1> QED
  BY <1>1, RepoInvariant, PTL

\* A stored library gives way only to an imported one: a build that creates a root was
\* superseded by then or finds none stored (rendererRepo.ts).
THEOREM TheLibraryIsKept == RepoSpec => KeepsLibrary
<1>1. ASSUME RepoInv, [RepoNext]_repoVars
      PROVE  [stored # None => stored' \in {stored, Imported}]_stored
  <2>1. CASE \E b \in builds : Use(b)
    BY <2>1, <1>1, UsedBuild DEF Use
  <2>2. CASE Import
    BY <2>2 DEF Import
  <2>3. CASE UNCHANGED stored
    BY <2>3
  <2>4. CASE Started \/ Toggle \/ Write \/ WriteSame \/ Syncs \/ getServerInfo
             \/ resolved \/ resolveFailed \/ initialize
    BY <2>4, <2>3 DEF Started, Toggle, Write, WriteSame, Syncs, getServerInfo,
                      resolved, resolveFailed, initialize, shell
  <2>5. CASE \E b \in builds : bootstrapRendererRepo(b) \/ Drop(b) \/ Stay(b)
    BY <2>5, <2>3 DEF bootstrapRendererRepo, Drop, Stay, shell
  <2>6. CASE UNCHANGED repoVars
    BY <2>6, <2>3 DEF repoVars, shell
  <2> QED
    BY <1>1, <2>1, <2>2, <2>4, <2>5, <2>6 DEF RepoNext
<1> QED
  BY <1>1, RepoInvariant, PTL DEF RepoSpec, KeepsLibrary

\* A repo that was replaced, or given up for another, has its sockets closed
\* (ElectronClientAppShell.tsx, closing what a superseded build had).
THEOREM TheSupersededAreClosed == RepoSpec => []SupersededClosed
<1>1. RepoInv => SupersededClosed
  BY DEF RepoInv, OnlyUsedOpen, SupersededClosed, Quiet
<1> QED
  BY <1>1, RepoInvariant, PTL
=============================================================================
