----------------------------- MODULE SyncServer -----------------------------
(***************************************************************************)
(* The lifecycle of the desktop app's sync server and who is connected to  *)
(* it (apps/electron-client/src/syncServer.ts, syncServerRuntime.ts,       *)
(* syncConnections.ts, syncChallenges.ts), the guests' side of the socket  *)
(* (web-client's provenSyncAdapter.ts) and the panel of connected devices  *)
(* in the window (core's useConnectedDevices.ts over connectedDevicesPush  *)
(* and GetConnectedDevicesChannel).                                        *)
(*                                                                         *)
(* The launch and every press of the LAN or HTTPS checkbox is a call.      *)
(* Call c stops the server that is current and starts server c.  Starting  *)
(* awaits the event log and the host key, stopping awaits the repo's flush *)
(* and every socket's close; everything else runs in those gaps.           *)
(***************************************************************************)
EXTENDS Naturals, Sequences, FiniteSets

CONSTANTS Guest,         \* devices that hold the pairing link
          MaxCalls,      \* the launch and the presses of a checkbox
          MaxSockets,    \* sockets the host holds at a time
          MaxChallenges, \* challenges the host keeps (256 in the code)
          MaxEvents,     \* pushes in transit to the window
          MaxFaults,     \* failed starts, lost sockets, unanswered challenges
          MaxLooks,      \* times the panel is opened or asked to try again
          Patient        \* TRUE: a checkbox waits for the last call's answer

ASSUME ServerBounds ==
  /\ {MaxCalls, MaxSockets, MaxChallenges, MaxEvents} \subseteq Nat \ {0}
  /\ {MaxFaults, MaxLooks} \subseteq Nat
  /\ Patient \in BOOLEAN

Server == 1 .. MaxCalls
Socket == 1 .. MaxSockets
None   == 0              \* no server

VARIABLES
  call,      \* per call: idle, stopping, starting, done
  closes,    \* per call: the server it is stopping
  stage,     \* per server: none, opening, keying, up, flushing, closing, gone
  home,      \* the server that holds the port the guests were given
  current,   \* the module's `current`
  registry,  \* per server: the sockets its registry lists
  alive,     \* sockets that answered the last ping
  sock,      \* per socket: whose it is, at which server, and whether it is up
  issued,    \* per server: whose challenges are outstanding, oldest first
  guest,     \* away, proving, dialing, checking, judged, refusing, open, refused
  at,        \* the server that answered the guest's last request
  proven,    \* whether its challenge is signed, later whether it held
  revoked,   \* devices the host's roster holds a revocation for
  events,    \* pushes on their way to the window
  panel,     \* what the panel shows
  ask,       \* the panel's request for a snapshot
  faults,
  looks

servers == <<call, closes, stage, home, current>>
conns   == <<registry, alive, sock, events>>
guests  == <<issued, guest, at, proven, revoked>>
window  == <<panel, ask, looks>>
serverVars == <<servers, conns, guests, window, faults>>

Free       == [of |-> "nobody", at |-> None, up |-> FALSE]
Shows(status, list) == [status |-> status, list |-> list]
Off        == Shows("off", {})
Loading    == Shows("loading", {})
Refusal    == Shows("unavailable", {})
NotAsked   == Shows("none", {})
Asked      == Shows("asked", {})

ServerInit ==
  /\ call = [c \in Server |-> "idle"]
  /\ closes = [c \in Server |-> None]
  /\ stage = [s \in Server |-> "none"]
  /\ home = None
  /\ current = None
  /\ registry = [s \in Server |-> {}]
  /\ alive = {}
  /\ sock = [x \in Socket |-> Free]
  /\ issued = [s \in Server |-> <<>>]
  /\ guest = [g \in Guest |-> "away"]
  /\ at = [g \in Guest |-> None]
  /\ proven = [g \in Guest |-> FALSE]
  /\ revoked = {}
  /\ events = <<>>
  /\ panel = Off
  /\ ask = NotAsked
  /\ faults = 0
  /\ looks = 0

\* Servers that have bound a port and built their repo on the storage folder.
Standing == {s \in Server : stage[s] \in {"keying", "up", "flushing", "closing"}}
\* The server that takes requests on the port the guests were given.
Takes(s) == home = s /\ stage[s] \in {"keying", "up", "flushing"}
Sockets(s) == {x \in Socket : sock[x].at = s}
\* The registry's own timer, cleared when the registry is closed.
Beats(s) == stage[s] \in {"keying", "up"}

Fault == faults < MaxFaults /\ faults' = faults + 1

\* Every change of a registry is told to the module's listeners, and one of
\* them pushes the list to the window.
emitConnections(list) == Len(events) < MaxEvents /\ events' = Append(events, list)

-----------------------------------------------------------------------------
(***************************************************************************)
(* The calls                                                               *)
(***************************************************************************)

\* stopSyncServer's first part runs at once: the server is no longer current
\* and its registry is closed before any socket is.
\* Mutant: the caller goes on without waiting for the server to end.
stop_NotAwaited(c) ==
  /\ call' = [call EXCEPT ![c] = "starting"]
  /\ stage' = [stage EXCEPT ![current] = "flushing", ![c] = "opening"]
  /\ current' = None
  /\ registry' = [registry EXCEPT ![current] = {}]
  /\ emitConnections({})
  /\ UNCHANGED closes
stop(c) ==
  /\ call' = [call EXCEPT ![c] = "stopping"]
  /\ closes' = [closes EXCEPT ![c] = current]
  /\ stage' = [stage EXCEPT ![current] = "flushing"]
  /\ current' = None
  /\ registry' = [registry EXCEPT ![current] = {}]
  /\ emitConnections({})

\* The launch, or a press of the LAN or HTTPS checkbox.
Press(c) ==
  /\ call[c] = "idle"
  /\ \A d \in 1 .. c - 1 : IF Patient THEN call[d] = "done" ELSE call[d] # "idle"
  /\ \/ current # None /\ stop(c)
     \/ /\ current = None
        /\ call' = [call EXCEPT ![c] = "starting"]
        /\ stage' = [stage EXCEPT ![c] = "opening"]
        /\ UNCHANGED <<closes, current, registry, events>>
  /\ UNCHANGED <<home, alive, sock, guests, window, faults>>

\* repo.flush is done: the sockets are terminated and the socket server closed.
Flushed(s) ==
  /\ stage[s] = "flushing"
  /\ stage' = [stage EXCEPT ![s] = "closing"]
  /\ UNCHANGED <<call, closes, home, current, conns, guests, window, faults>>

\* Every socket has closed and so has the HTTP server.  The call that waited
\* starts its own server, unless another one stands by now.
Stopped(c) ==
  LET s == closes[c] IN
  /\ call[c] = "stopping" /\ stage[s] = "closing" /\ Sockets(s) = {}
  /\ home' = IF home = s THEN None ELSE home
  /\ closes' = [closes EXCEPT ![c] = None]
  /\ call' = [call EXCEPT ![c] = IF current = None THEN "starting" ELSE "done"]
  /\ stage' = [stage EXCEPT ![s] = "gone",
                            ![c] = IF current = None THEN "opening" ELSE @]
  /\ UNCHANGED <<current, conns, guests, window, faults>>

\* The event log is open, or left out.  The server listens on its own port or,
\* when that is in use, on any free one, and already takes connections.
Opened(c) ==
  /\ stage[c] = "opening"
  /\ stage' = [stage EXCEPT ![c] = "keying"]
  /\ home' = IF home = None THEN c ELSE home
  /\ UNCHANGED <<call, closes, current, conns, guests, window, faults>>

\* The certificate cannot be issued or the port cannot be bound.
StartFails(c) ==
  /\ stage[c] = "opening" /\ Fault
  /\ stage' = [stage EXCEPT ![c] = "gone"]
  /\ call' = [call EXCEPT ![c] = "done"]
  /\ UNCHANGED <<closes, home, current, conns, guests, window>>

\* The host key is loaded, or could not be: the server becomes current.
Keyed(c) ==
  /\ stage[c] = "keying"
  /\ stage' = [stage EXCEPT ![c] = "up"]
  /\ current' = c
  /\ call' = [call EXCEPT ![c] = "done"]
  /\ UNCHANGED <<closes, home, conns, guests, window, faults>>

-----------------------------------------------------------------------------
(***************************************************************************)
(* A guest: ProvenSyncAdapter and the upgrade handler                      *)
(***************************************************************************)

Goes(g, to) == guest' = [guest EXCEPT ![g] = to]

\* connect, on the base adapter's retry timer.
connect(g) ==
  /\ guest[g] = "away"
  /\ Goes(g, "proving")
  /\ UNCHANGED <<servers, conns, issued, at, proven, revoked, window, faults>>

\* GET /challenge is answered and the challenge signed.  A full store evicts
\* its oldest challenge.
issue(g) == \E s \in Server :
  /\ guest[g] = "proving" /\ Takes(s)
  /\ issued' = [issued EXCEPT ![s] =
       Append(IF Len(@) < MaxChallenges THEN @ ELSE Tail(@), g)]
  /\ at' = [at EXCEPT ![g] = s]
  /\ proven' = [proven EXCEPT ![g] = TRUE]
  /\ Goes(g, "dialing")
  /\ UNCHANGED <<servers, conns, revoked, window, faults>>

\* The oldest challenge is a minute old, or was evicted by others' requests.
lapse(s) ==
  /\ issued[s] # <<>> /\ Fault
  /\ issued' = [issued EXCEPT ![s] = Tail(@)]
  /\ UNCHANGED <<servers, conns, guest, at, proven, revoked, window>>

\* The challenge cannot be fetched in time: the guest dials without a proof.
\* Mutant: the flag that a proof is being made is left set.
unproven_Stuck(g) ==
  /\ guest[g] = "proving"
  /\ Goes(g, "stuck")
  /\ UNCHANGED faults
unproven(g) ==
  /\ guest[g] = "proving"
  /\ Goes(g, "dialing")
  /\ \/ (\A s \in Server : ~Takes(s)) /\ UNCHANGED faults
     \/ (\E s \in Server : Takes(s)) /\ Fault
Unproven(g) ==
  /\ unproven(g)
  /\ UNCHANGED <<servers, conns, issued, at, proven, revoked, window>>

\* The key the upgrade proves: by a challenge of this server's, still held.
readProvenDeviceKey(g, s) ==
  proven[g] /\ at[g] = s /\ \E i \in 1 .. Len(issued[s]) : issued[s][i] = g

\* The upgrade request arrives and its challenge is used up.
Upgrade(g) == \E s \in Server :
  /\ guest[g] = "dialing" /\ Takes(s)
  /\ proven' = [proven EXCEPT ![g] = readProvenDeviceKey(g, s)]
  /\ issued' = IF proven'[g]
               THEN [issued EXCEPT ![s] = SelectSeq(@, LAMBDA d : d # g)]
               ELSE issued
  /\ at' = [at EXCEPT ![g] = s]
  /\ Goes(g, "checking")
  /\ UNCHANGED <<servers, conns, revoked, window, faults>>

Back(g) == /\ Goes(g, "away")
           /\ at' = [at EXCEPT ![g] = None]
           /\ proven' = [proven EXCEPT ![g] = FALSE]

\* Nothing listens on the port.
Unanswered(g) ==
  /\ guest[g] = "dialing" /\ \A s \in Server : ~Takes(s)
  /\ Back(g)
  /\ UNCHANGED <<servers, conns, issued, revoked, window, faults>>

isRevokedDeviceKey(g) == proven[g] /\ g \in revoked

\* isRevoked: the roster is read for a proven key.  An unreadable roster turns
\* nobody away.
isRevoked(g) ==
  /\ guest[g] = "checking"
  /\ \/ Goes(g, IF isRevokedDeviceKey(g) THEN "refusing" ELSE "judged")
        /\ UNCHANGED faults
     \/ isRevokedDeviceKey(g) /\ Fault /\ Goes(g, "judged")
  /\ UNCHANGED <<servers, conns, issued, at, proven, revoked, window>>

\* The socket is opened and listed, or opened only to be closed for good.  A
\* closed socket server answers 503.
handleUpgrade(g) ==
  LET s == at[g]
      closed == stage[s] \in {"closing", "gone"}
  IN
  \/ /\ guest[g] \in {"judged", "refusing"} /\ closed
     /\ Back(g)
     /\ UNCHANGED <<registry, alive, sock, events>>
  \/ /\ guest[g] = "refusing" /\ ~closed
     /\ Goes(g, "refused")
     /\ at' = [at EXCEPT ![g] = None]
     /\ proven' = [proven EXCEPT ![g] = FALSE]
     /\ UNCHANGED <<registry, alive, sock, events>>
  \/ /\ guest[g] = "judged" /\ ~closed
     /\ \E x \in Socket :
          /\ sock[x] = Free /\ \A y \in 1 .. x - 1 : sock[y] # Free
          /\ sock' = [sock EXCEPT ![x] = [of |-> g, at |-> s, up |-> TRUE]]
          /\ registry' = [registry EXCEPT ![s] = @ \cup {x}]
          /\ alive' = alive \cup {x}
          /\ emitConnections(registry'[s])
     /\ Goes(g, "open")
     /\ UNCHANGED <<at, proven>>
HandleUpgrade(g) ==
  /\ handleUpgrade(g)
  /\ UNCHANGED <<servers, issued, revoked, window, faults>>

-----------------------------------------------------------------------------
(***************************************************************************)
(* Open sockets and the registry                                           *)
(***************************************************************************)

\* A socket's close event: its entry goes, once, and the guest on it learns.
\* Mutant: the entry is deleted without telling anybody.
remove_Quietly(x) ==
  LET s == sock[x].at IN
  /\ registry' = [registry EXCEPT ![s] = @ \ {x}]
  /\ UNCHANGED events
remove(x) ==
  LET s == sock[x].at IN
  IF x \in registry[s]
  THEN /\ registry' = [registry EXCEPT ![s] = @ \ {x}]
       /\ emitConnections(registry'[s])
  ELSE UNCHANGED <<registry, events>>
Closes(x) ==
  /\ remove(x)
  /\ sock' = [sock EXCEPT ![x] = Free]
  /\ alive' = alive \ {x}
  /\ IF sock[x].up THEN Back(sock[x].of) ELSE UNCHANGED <<guest, at, proven>>
  /\ UNCHANGED <<servers, issued, revoked, window>>

\* The guest closes the socket.
Leave(x) == sock[x].up /\ Fault /\ Closes(x)

\* The guest goes out of range: it dials again, the host hears nothing.
Vanish(x) ==
  /\ sock[x].up /\ Fault
  /\ sock' = [sock EXCEPT ![x].up = FALSE]
  /\ Back(sock[x].of)
  /\ UNCHANGED <<servers, registry, alive, events, issued, revoked, window>>

\* A server that is closing terminates its sockets.
Terminated(x) ==
  /\ sock[x] # Free /\ stage[sock[x].at] = "closing"
  /\ Closes(x) /\ UNCHANGED faults

\* One entry's turn in the keepalive: evicted if it never answered, pinged
\* otherwise.
heartbeat(x) ==
  /\ sock[x] # Free /\ x \in registry[sock[x].at] /\ Beats(sock[x].at)
  /\ \/ x \notin alive /\ Closes(x) /\ UNCHANGED faults
     \/ /\ x \in alive
        /\ alive' = alive \ {x}
        /\ UNCHANGED <<servers, registry, sock, events, guests, window, faults>>

pong(x) ==
  /\ sock[x].up /\ x \notin alive /\ x \in registry[sock[x].at]
  /\ alive' = alive \cup {x}
  /\ UNCHANGED <<servers, registry, sock, events, guests, window, faults>>

\* The operator revokes a device's vouch.
Revoke(g) ==
  /\ g \notin revoked
  /\ revoked' = revoked \cup {g}
  /\ UNCHANGED <<servers, conns, issued, guest, at, proven, window, faults>>

-----------------------------------------------------------------------------
(***************************************************************************)
(* The panel: useConnectedDevices                                          *)
(***************************************************************************)

\* Opened, or asked to try again: what an earlier attempt was told no longer
\* counts and its request is cancelled.  The panel subscribes before it asks.
refresh ==
  /\ looks < MaxLooks /\ looks' = looks + 1
  /\ panel' = Loading
  /\ ask' = Asked
  /\ UNCHANGED <<servers, conns, guests, faults>>

\* GetConnectedDevicesChannel: a failure, not an empty list, with no server.
GetConnectedDevices ==
  /\ ask = Asked
  /\ ask' = IF current = None THEN Refusal ELSE Shows("ready", registry[current])
  /\ UNCHANGED <<servers, conns, guests, panel, looks, faults>>

\* The snapshot arrives.  An event that answered this attempt is newer.
\* Mutant: the snapshot always wins.
answered_Overwrites ==
  /\ ask.status \in {"ready", "unavailable"}
  /\ panel' = ask
  /\ ask' = NotAsked
  /\ UNCHANGED <<servers, conns, guests, looks, faults>>
answered ==
  /\ ask.status \in {"ready", "unavailable"}
  /\ panel' = IF panel.status = "ready" THEN panel ELSE ask
  /\ ask' = NotAsked
  /\ UNCHANGED <<servers, conns, guests, looks, faults>>

\* A push arrives; nobody listens before the panel is opened.
Pushed ==
  /\ events # <<>>
  /\ events' = Tail(events)
  /\ panel' = IF panel = Off THEN Off ELSE Shows("ready", Head(events))
  /\ UNCHANGED <<servers, registry, alive, sock, guests, ask, looks, faults>>

-----------------------------------------------------------------------------
Host(c) == Press(c) \/ Flushed(c) \/ Stopped(c) \/ Opened(c) \/ StartFails(c) \/ Keyed(c)
           \/ lapse(c)
Dials(g) == connect(g) \/ issue(g) \/ Unproven(g) \/ Upgrade(g) \/ Unanswered(g)
            \/ isRevoked(g) \/ HandleUpgrade(g)
Wire(x) == Leave(x) \/ Vanish(x) \/ Terminated(x) \/ heartbeat(x) \/ pong(x)
Panel == refresh \/ GetConnectedDevices \/ answered \/ Pushed

ServerNext == \/ \E c \in Server : Host(c)
        \/ \E g \in Guest : Dials(g) \/ Revoke(g)
        \/ \E x \in Socket : Wire(x)
        \/ Panel

\* A call that began is carried on; sockets that were terminated close; the
\* keepalive timer fires and a socket that is up answers it; a guest's retry
\* timer fires, its requests are answered or fail; the window's messages are
\* delivered.  A tick visits every entry whatever else goes on, so heartbeat is
\* strongly fair: MaxEvents may hold it up for a moment, the code never does.
\* Nobody has to press, leave, vanish or revoke.
Fairness ==
  /\ \A c \in Server : WF_serverVars(Flushed(c)) /\ WF_serverVars(Stopped(c))
                       /\ WF_serverVars(Opened(c)) /\ WF_serverVars(Keyed(c))
  /\ \A g \in Guest : WF_serverVars(Dials(g))
  /\ \A x \in Socket : WF_serverVars(Terminated(x)) /\ SF_serverVars(heartbeat(x))
                       /\ WF_serverVars(pong(x))
  /\ WF_serverVars(GetConnectedDevices) /\ WF_serverVars(answered) /\ WF_serverVars(Pushed)

ServerSpec == ServerInit /\ [][ServerNext]_serverVars /\ Fairness

-----------------------------------------------------------------------------
\* One repo at a time stands on the storage folder: the repo of the server
\* that is being restarted is flushed and its sockets are closed before the
\* next server builds its own.
OneServer == Cardinality(Standing) <= 1

\* Once the calls are answered and the pushes are delivered, a panel that shows
\* a list shows whom the host lists: nobody, while no server runs.  Neither a
\* snapshot that was taken before a change nor a push from the server that was
\* restarted is left standing.
PanelIsRight ==
  (/\ panel.status = "ready" /\ events = <<>>
   /\ \A c \in Server : call[c] \in {"idle", "done"})
  => panel.list = IF current = None THEN {} ELSE registry[current]

\* A socket whose guest went out of range without a close leaves the list and
\* is ended.
DeadLeave == \A x \in Socket :
  (sock[x] # Free /\ ~sock[x].up) ~> (sock[x] = Free \/ sock[x].up)

\* A guest gets back in, whatever it lost on the way: once a server stands for
\* good on the port the guest knows, the guest is connected time and again
\* unless the host told it that its key is revoked.
GuestsReturn == \A g \in Guest :
  <>[](\E s \in Server : home = s /\ stage[s] = "up")
  => []<>(guest[g] \in {"open", "refused"})
=============================================================================
