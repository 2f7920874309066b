------------------------------ MODULE HostSession ------------------------------
(***************************************************************************)
(* The host's recording session, from the operator's button to the signed  *)
(* record: sessionRecorder.ts and hostSession.ts, the connection registry  *)
(* it follows (syncConnections.ts), the record's delivery to the           *)
(* recordings (sessionDelivery.ts), the strip that shows it                *)
(* (SessionStrip.tsx), and quitting (main.ts).  The uploads that announce  *)
(* the claims of its takes are the subject of ClaimIngest; here a claim is *)
(* announced at any moment after its take, or never.                       *)
(*                                                                         *)
(* A connection is one socket.  Time is abstract: a grace period may end   *)
(* at any moment, except that it outlasts the search for a document        *)
(* (60 s against 5 s).                                                     *)
(***************************************************************************)
EXTENDS Naturals, FiniteSets

CONSTANTS
    Sids,          \* session ids a host may make
    NoSid,         \* no session
    Conns,         \* sockets of a behaviour
    Proven,        \* those that proved a device key at the upgrade
    Claims,        \* claims of takes
    MayFail,       \* whether signing and finding the document may fail
    MaxWaiting,    \* bound: calls waiting for the root document at once
    MaxOutages     \* bound: restarts of the sync server and crashes of the host

ASSUME SessionAssumption ==
    Proven \subseteq Conns /\ MayFail \in BOOLEAN
    /\ NoSid \notin Sids /\ MaxOutages \in Nat /\ MaxWaiting \in Nat

VARIABLES
    up,          \* whether the sync server runs
    conns,       \* conns[k]: the registry's entry for socket k
    phase,       \* phase[s]: how far session s is
    spans,       \* spans[s][k]: the span of socket k in session s
    claims,      \* claims[s]: the claims announced for session s
    record,      \* record[s]: the claims its signed record names
    covers,      \* covers[s]: the claims whose recordings are told of the record
    taken,       \* taken[c]: the session the take of claim c started in
    docSession,  \* the session the root document names
    publishedIn, \* the session hostSession.ts believes it published
    calls,       \* calls waiting for the root document
    quit,        \* how far quitting is
    view,        \* what the operator's strip shows
    outages,
    early        \* ghost: early[s]: claims announced before its record was begun

vars == <<up, conns, phase, spans, claims, record, covers, taken, docSession,
              publishedIn, calls, quit, view, outages, early>>

Nothing  == [s \in Sids |-> {}]
NoSpans  == [k \in Conns |-> "none"]
Unused   == {s \in Sids : phase[s] = "unused"}
Opened   == {s \in Sids : phase[s] = "open"}
Closing  == {s \in Sids : phase[s] \in {"grace", "signing", "listing"}}
current  == IF Opened = {} THEN NoSid ELSE CHOOSE s \in Opened : TRUE
Call(kind, s, mine) == [kind |-> kind, sid |-> s, mine |-> mine]
Alive    == quit # "exited"
IsUp(k)  == conns[k] \in {"alive", "quiet"}
FreshView(s) == [open |-> s, stopped |-> NoSid, settled |-> FALSE]

Init ==
    /\ up = TRUE
    /\ conns = [k \in Conns |-> "new"]
    /\ phase = [s \in Sids |-> "unused"]
    /\ spans = [s \in Sids |-> NoSpans]
    /\ claims = Nothing /\ early = Nothing /\ record = Nothing /\ covers = Nothing
    /\ taken = [c \in Claims |-> "not"]
    /\ docSession = NoSid /\ publishedIn = NoSid
    /\ calls = {Call("stale", NoSid, FALSE)}
    /\ quit = "no"
    /\ view = FreshView(NoSid)
    /\ outages = 0

-----------------------------------------------------------------------------
\* The recorder follows the registry: a proven connection has a span from the
\* first list that holds it to the first that does not.
track(sp, cs) ==
    [k \in Conns |->
        IF cs[k] \in {"alive", "quiet"} /\ k \in Proven
        THEN IF sp[k] = "none" THEN "live" ELSE sp[k]
        ELSE IF sp[k] = "live" THEN "ended" ELSE sp[k]]

connectionsChanged(cs) ==
    spans' = [s \in Sids |-> IF s \in Opened THEN track(spans[s], cs) ELSE spans[s]]

\* Every change of the registry's list is told (its onChange).
Registry(cs) ==
    /\ conns' = cs
    /\ connectionsChanged(cs)
    /\ UNCHANGED <<up, phase, claims, record, covers, taken, docSession,
                   publishedIn, calls, quit, view, outages, early>>

add(k) ==
    /\ Alive /\ up /\ conns[k] = "new"
    /\ Registry([conns EXCEPT ![k] = "alive"])

remove(k) ==
    /\ Alive /\ IsUp(k)
    /\ Registry([conns EXCEPT ![k] = "gone"])

\* One tick for a socket: who did not answer the last ping is put out.
Evicts(k) == remove(k)
heartbeat(k) ==
    /\ Alive
    /\ \/ conns[k] = "quiet" /\ Evicts(k)
       \/ conns[k] = "alive" /\ Registry([conns EXCEPT ![k] = "quiet"])
pong(k) == /\ Alive /\ conns[k] = "quiet"
           /\ Registry([conns EXCEPT ![k] = "alive"])

-----------------------------------------------------------------------------
\* Calls that wait for the root document.  A call of the strip that is on
\* screen has mine = TRUE; one whose window was closed does not.
findRoot == up
Orphaned(C) == {[x EXCEPT !.mine = FALSE] : x \in C}
Busy == \E x \in calls : x.mine

start ==
    /\ quit = "no" /\ ~Busy /\ view.open = NoSid
    /\ current = NoSid /\ findRoot /\ Cardinality(calls) < MaxWaiting
    /\ calls' = calls \cup {Call("start", NoSid, TRUE)}
    /\ UNCHANGED <<up, conns, phase, spans, claims, record, covers, taken,
                   docSession, publishedIn, quit, view, outages, early>>

\* sessions.open throws if another start opened a session while this one waited.
canOpen == current = NoSid

\* The document was found: the session opens, with whoever is connected, and is
\* published in the same step; or another start came first, and this one fails.
started(x) ==
    /\ Alive /\ x \in calls /\ x.kind = "start"
    /\ calls' = calls \ {x}
    /\ \/ /\ canOpen /\ Unused # {}
          /\ LET s == CHOOSE s \in Unused : TRUE
             IN  /\ phase' = [phase EXCEPT ![s] = "open"]
                 /\ spans' = [spans EXCEPT ![s] = track(@, conns)]
                 /\ publishedIn' = s /\ docSession' = s
                 /\ view' = IF x.mine THEN FreshView(s) ELSE view
       \/ UNCHANGED <<phase, spans, publishedIn, docSession, view>>
    /\ UNCHANGED <<up, conns, claims, record, covers, taken, quit, outages, early>>

\* close: the session stops at once, every span ends, and its grace period begins.
close(s) ==
    /\ phase' = [phase EXCEPT ![s] = "grace"]
    /\ spans' = [spans EXCEPT ![s] = NoSpans]

\* stop: with the document still to be cleared, unless it was not published.
stopping(s, mine) ==
    /\ close(s)
    /\ publishedIn' = NoSid
    /\ IF publishedIn = s
       THEN calls' = calls \cup {Call("stop", s, mine)} /\ UNCHANGED view
       ELSE /\ UNCHANGED calls
            /\ view' = IF mine THEN [FreshView(NoSid) EXCEPT !.stopped = s] ELSE view

stop ==
    /\ quit = "no" /\ ~Busy /\ view.open # NoSid
    /\ IF current = NoSid
       THEN /\ view' = FreshView(NoSid)
            /\ UNCHANGED <<phase, spans, publishedIn, calls>>
       ELSE stopping(current, TRUE)
    /\ UNCHANGED <<up, conns, claims, record, covers, taken, docSession, quit,
                   outages, early>>

\* Mutant: the field is deleted without looking which session it names.
clears_Any(s) == TRUE

\* Only the session that was stopped is taken out of the document.
clears(s) == docSession = s

stopped(x) ==
    /\ Alive /\ x \in calls /\ x.kind = "stop"
    /\ calls' = calls \ {x}
    /\ \/ docSession' = IF up /\ clears(x.sid) THEN NoSid ELSE docSession
       \/ MayFail /\ UNCHANGED docSession
    /\ view' = IF x.mine THEN [FreshView(NoSid) EXCEPT !.stopped = x.sid] ELSE view
    /\ UNCHANGED <<up, conns, phase, spans, claims, record, covers, taken,
                   publishedIn, quit, outages, early>>

\* At launch the documents of known roots are searched: a session that no longer
\* runs is taken out.  The search waits for the server, and a start may come
\* before it ends.
isStale(x) == docSession # NoSid /\ docSession # current

\* Mutant: whoever asked for the stop is not told how the session ended.
Settle_Quiet(s) ==
    /\ claims' = [claims EXCEPT ![s] = {}] /\ early' = [early EXCEPT ![s] = {}]
    /\ record' = [record EXCEPT ![s] = {}] /\ covers' = [covers EXCEPT ![s] = {}]
    /\ UNCHANGED view

clearStale(x) ==
    /\ Alive /\ up /\ x \in calls /\ x.kind = "stale"
    /\ calls' = calls \ {x}
    /\ \/ docSession' = IF isStale(x) THEN NoSid ELSE docSession
       \/ MayFail /\ UNCHANGED docSession
    /\ UNCHANGED <<up, conns, phase, spans, claims, record, covers, taken, publishedIn, quit,
                   view, outages, early>>

-----------------------------------------------------------------------------
\* The record.  Its grace period ends by its timer, or at once on quitting; it
\* never ends before the stop that began it has answered.  The claims it names
\* are read before the key is loaded and the record stored.
Settle(s) ==
    /\ view' = IF view.stopped = s THEN [view EXCEPT !.settled = TRUE] ELSE view
    /\ claims' = [claims EXCEPT ![s] = {}] /\ early' = [early EXCEPT ![s] = {}]
    /\ record' = [record EXCEPT ![s] = {}] /\ covers' = [covers EXCEPT ![s] = {}]

graceOver(s) == quit = "flushing" \/ \A x \in calls : ~(x.kind = "stop" /\ x.sid = s)

sign(s) ==
    /\ Alive /\ phase[s] = "grace" /\ graceOver(s)
    /\ IF up
       THEN /\ phase' = [phase EXCEPT ![s] = "signing"]
            /\ record' = [record EXCEPT ![s] = claims[s]]
            /\ UNCHANGED <<view, claims, covers, early>>
       ELSE phase' = [phase EXCEPT ![s] = "failed"] /\ Settle(s)
    /\ UNCHANGED <<up, conns, spans, taken, docSession, publishedIn, calls, quit,
                   outages>>

\* The record is stored, and the claims announced by now are the ones whose
\* recordings will list it.
signed(s) ==
    /\ Alive /\ phase[s] = "signing"
    /\ \/ /\ phase' = [phase EXCEPT ![s] = "listing"]
          /\ covers' = [covers EXCEPT ![s] = claims[s]]
          /\ UNCHANGED <<view, claims, record, early>>
       \/ /\ MayFail \/ ~up
          /\ phase' = [phase EXCEPT ![s] = "failed"] /\ Settle(s)
    /\ UNCHANGED <<up, conns, spans, taken, docSession, publishedIn, calls, quit,
                   outages>>

listSessionRecord(s) ==
    /\ Alive /\ phase[s] = "listing"
    /\ phase' = [phase EXCEPT ![s] = "signed"]
    /\ Settle(s)
    /\ UNCHANGED <<up, conns, spans, taken, docSession, publishedIn, calls, quit,
                   outages>>

\* A guest starts a take while it is connected: its claim carries the session
\* the document names, and keeps it, whatever becomes of the session.  (A take
\* with no session is none of the recorder's business.)
beginTake(c) ==
    /\ Alive /\ taken[c] = "not"
    /\ (\E k \in Conns : IsUp(k)) /\ docSession # NoSid
    /\ taken' = [taken EXCEPT ![c] = docSession]
    /\ UNCHANGED <<up, conns, phase, spans, claims, record, covers, docSession,
                   publishedIn, calls, quit, view, outages, early>>

\* Mutant: claims are taken for the open session only.
listens_Open(s) == phase[s] = "open"

\* A claim goes to the session it names, while that is open or closing.
listens(s) == phase[s] = "open" \/ s \in Closing

claimVerified(c) ==
    LET s == taken[c]
    IN  /\ claims' = IF s \in Sids /\ listens(s) THEN [claims EXCEPT ![s] = @ \cup {c}] ELSE claims
        /\ early' = IF s \in Sids /\ phase[s] \in {"open", "grace"}
                    THEN [early EXCEPT ![s] = @ \cup {c}] ELSE early

announce(c) ==
    /\ Alive /\ taken[c] \in Sids
    /\ taken' = [taken EXCEPT ![c] = "done"]
    /\ claimVerified(c)
    /\ UNCHANGED <<up, conns, phase, spans, record, covers, docSession, publishedIn, calls,
                   quit, view, outages>>

-----------------------------------------------------------------------------
\* The operator's window is closed and opened again: the strip starts over and
\* asks which session is open.
remount ==
    /\ quit = "no"
    /\ view' = FreshView(current)
    /\ view # view' \/ Busy
    /\ calls' = Orphaned(calls)
    /\ UNCHANGED <<up, conns, phase, spans, claims, record, covers, taken,
                   docSession, publishedIn, quit, outages, early>>

\* Quitting: the open session is stopped, then every grace period is cut short
\* and the records are awaited, and only then does the server stop.
onWillQuit ==
    /\ quit = "no"
    /\ quit' = "stopping"
    /\ IF current = NoSid THEN UNCHANGED <<phase, spans, publishedIn, calls, view>>
       ELSE stopping(current, FALSE)
    /\ UNCHANGED <<up, conns, claims, record, covers, taken, docSession, outages, early>>

\* Mutant: flush cuts the grace periods short and does not await the records.
flushed_AtOnce == TRUE

flush ==
    /\ quit = "stopping" /\ \A x \in calls : x.kind # "stop"
    /\ quit' = "flushing"
    /\ IF current = NoSid THEN UNCHANGED <<phase, spans>> ELSE close(current)
    /\ UNCHANGED <<up, conns, claims, record, covers, taken, docSession,
                   publishedIn, calls, view, outages, early>>

flushed == Closing = {}

exit ==
    /\ quit = "flushing" /\ flushed
    /\ quit' = "exited" /\ up' = FALSE
    /\ UNCHANGED <<conns, phase, spans, claims, record, covers, taken, docSession,
                   publishedIn, calls, view, outages, early>>

\* The LAN and HTTPS switches restart the server: every connection goes, the
\* session stays open.
stopSyncServer ==
    /\ quit = "no" /\ up /\ outages < MaxOutages
    /\ outages' = outages + 1 /\ up' = FALSE
    /\ conns' = [k \in Conns |-> IF IsUp(k) THEN "gone" ELSE conns[k]]
    /\ connectionsChanged(conns')
    /\ UNCHANGED <<phase, claims, record, covers, taken, docSession, publishedIn,
                   calls, quit, view, early>>

startSyncServer ==
    /\ Alive /\ ~up
    /\ up' = TRUE
    /\ UNCHANGED <<conns, phase, spans, claims, record, covers, taken, docSession,
                   publishedIn, calls, quit, view, outages, early>>

\* The host dies: what its memory held is gone, the store and the document stay.
crash ==
    /\ Alive /\ outages < MaxOutages
    /\ outages' = outages + 1
    /\ phase' = [s \in Sids |-> IF s \in Opened \cup Closing THEN "lost" ELSE phase[s]]
    /\ conns' = [k \in Conns |-> IF IsUp(k) THEN "gone" ELSE conns[k]]
    /\ spans' = [s \in Sids |-> NoSpans]
    /\ claims' = Nothing /\ record' = Nothing /\ covers' = Nothing /\ early' = Nothing
    /\ publishedIn' = NoSid /\ calls' = {Call("stale", NoSid, FALSE)} /\ up' = FALSE
    /\ view' = FreshView(NoSid) /\ quit' = "no"
    /\ UNCHANGED <<taken, docSession>>

Next ==
    \/ \E k \in Conns : add(k) \/ remove(k) \/ heartbeat(k) \/ pong(k)
    \/ start \/ stop \/ remount
    \/ \E x \in calls : started(x) \/ stopped(x) \/ clearStale(x)
    \/ \E s \in Sids : sign(s) \/ signed(s) \/ listSessionRecord(s)
    \/ \E c \in Claims : beginTake(c) \/ announce(c)
    \/ onWillQuit \/ flush \/ exit \/ stopSyncServer \/ startSyncServer \/ crash

\* Timers fire, calls answer, and a server that stopped for a restart starts.
Fairness ==
    /\ \A s \in Sids : WF_vars(sign(s)) /\ WF_vars(signed(s)) /\ WF_vars(listSessionRecord(s))
    /\ WF_vars(\E x \in calls : started(x)) /\ WF_vars(\E x \in calls : clearStale(x))
    /\ \A s \in Sids : WF_vars(\E x \in calls : x.sid = s /\ stopped(x))
    /\ WF_vars(flush) /\ WF_vars(exit) /\ WF_vars(startSyncServer)

Spec == Init /\ [][Next]_vars /\ Fairness

-----------------------------------------------------------------------------
TypeOK ==
    /\ up \in BOOLEAN
    /\ conns \in [Conns -> {"new", "alive", "quiet", "gone"}]
    /\ phase \in [Sids -> {"unused", "open", "grace", "signing", "listing", "signed",
                           "failed", "lost"}]
    /\ Cardinality(Opened) <= 1
    /\ spans \in [Sids -> [Conns -> {"none", "live", "ended"}]]
    /\ {claims, record, covers, early} \subseteq [Sids -> SUBSET Claims]
    /\ taken \in [Claims -> Sids \cup {"not", "done"}]
    /\ {docSession, publishedIn} \subseteq Sids \cup {NoSid}
    /\ calls \subseteq [kind : {"start", "stop", "stale"}, sid : Sids \cup {NoSid}, mine : BOOLEAN]
    /\ quit \in {"no", "stopping", "flushing", "exited"}
    /\ view \in [open : Sids \cup {NoSid}, stopped : Sids \cup {NoSid}, settled : BOOLEAN]
    /\ outages \in 0 .. MaxOutages

\* The spans still running in the open session are those of the proven sockets
\* connected now, through evictions, restarts of the server and sessions opened
\* mid-connection; no other session has one.
LiveIsConnected ==
    \A s \in Sids, k \in Conns :
        (spans[s][k] = "live") <=> (phase[s] = "open" /\ IsUp(k) /\ k \in Proven)

\* While a session is open the document names it, whatever stop of an earlier
\* one or sweep of a stale one is still waiting for the document.
OpenIsPublished == Alive => (current # NoSid => docSession = current)

\* A claim announced while its session was open or in its grace period is named
\* by the record that is signed.
InTimeIsNamed ==
    \A s \in Sids : phase[s] \in {"signing", "listing"} => early[s] \subseteq record[s]

\* Quitting leaves no session half signed: every one that was closed has its
\* record, or has failed.
QuitSignsAll == quit = "exited" => Closing = {}

\* The recordings that are told of a record are the ones it names ("A recording
\* is covered when its `statements` list names one of the record's claims",
\* sessionDelivery.ts).
RecordNamesItsClaims ==
    \A s \in Sids : phase[s] = "listing" => covers[s] \subseteq record[s]

\* A session that was stopped settles, signed or not, unless the host dies first.
SessionSettles ==
    \A s \in Sids : (phase[s] = "grace") ~> (phase[s] \in {"signed", "failed", "lost"})

\* The strip that shows a stopped session learns how it ended, or is closed.
StripLearns ==
    \A s \in Sids : (view.stopped = s) ~> (view.stopped # s \/ view.settled \/ quit # "no")
=============================================================================
