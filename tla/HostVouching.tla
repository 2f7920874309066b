----------------------------- MODULE HostVouching -----------------------------
(***************************************************************************)
(* How a host comes to vouch for a device: hostVouching.ts over the stored *)
(* roster of personRoster.ts, the routes of vouchHttp.ts, the operator's   *)
(* panels, and the guest that picks its name and waits (RejoinFlow.tsx,    *)
(* PinSettings.tsx, rosterClient.ts).                                      *)
(*                                                                         *)
(* The roster is one file, written one change at a time; a handler that    *)
(* awaits between two changes is a slot at one of the stages below, and    *)
(* any other handler may run in between.  Signed statements are numbers:   *)
(* vouch v is the v-th the host signed, revocation r the r-th.  Waiting    *)
(* requests live in memory only.                                           *)
(***************************************************************************)
EXTENDS Integers, Sequences, FiniteSets

CONSTANTS
    People,            \* person keys
    Devices,           \* guest devices, each with its own device key
    Slots,             \* handlers the host may have open at once
    Recordings,        \* recordings that name the vouches being withdrawn
    PinValues,         \* PINs somebody may type
    ChosenPins,        \* those a person may choose
    NoPin,             \* the absence of a PIN
    MAX_PENDING,       \* waiting requests the host keeps
    MAX_PIN_FAILURES,  \* wrong PINs before the person is locked out
    MaxCalls,          \* bound: handlers begun in a behaviour
    MaxRequests,       \* bound: requests inserted
    MaxSigned,         \* bound: vouches, and revocations, signed
    MayFail            \* whether writes and deliveries may fail, the host restart

ASSUME VouchingAssumption ==
    /\ MAX_PENDING \in Nat \ {0}
    /\ MAX_PIN_FAILURES \in Nat \ {0}
    /\ MaxCalls \in Nat /\ MaxRequests \in Nat /\ MaxSigned \in Nat
    /\ NoPin \notin PinValues /\ ChosenPins \subseteq PinValues
    /\ MayFail \in BOOLEAN
    /\ IsFiniteSet(Slots)
    /\ People # {} /\ Devices # {}

Ids     == 1 .. MaxRequests
Numbers == 1 .. MaxSigned

VARIABLES
    roster,     \* roster[p]: the stored entry of person p
    entries,    \* entries[id]: the in-memory request, with its status
    calls,      \* calls[s]: the handler open in slot s
    begun,      \* handlers begun so far
    fresh,      \* challenges handed out and not consumed
    joins,      \* signed join requests on the network, kept: they may be resent
    signed,     \* the vouches signed: their device, person, method and request
    revoked,    \* the revocations signed: the vouch each withdraws
    listed,     \* listed[r]: whether revocation r was delivered, and on what
    guest,      \* guest[d]: the flow on device d
    holds,      \* holds[d]: vouches the device was handed
    applied,    \* ghost: times each challenge put a join on the roster
    wrong,      \* ghost: wrong PINs compared since the count was last cleared
    replaced    \* ghost: people whose stored entry a first join wrote over

vars == <<roster, entries, calls, begun, fresh, joins, signed, revoked, listed,
          guest, holds, applied, wrong, replaced>>

\* A person not on the roster, and what a first join stores.
NoEntry == [on |-> FALSE, pin |-> NoPin, failures |-> 0, vouches |-> {}, marks |-> {}]
FirstEntry(pin) == [NoEntry EXCEPT !.on = TRUE, !.pin = pin]

Unused == [status |-> "none", device |-> CHOOSE d \in Devices : TRUE,
           person |-> CHOOSE p \in People : TRUE, vouch |-> 0, old |-> FALSE]

Forgotten == [Unused EXCEPT !.status = "gone", !.old = TRUE]

Idle == [op |-> "idle"]
Out  == [at |-> "out", id |-> 0, checking |-> FALSE]
Waiting(id) == [at |-> "waiting", id |-> id, checking |-> FALSE]

\* Wrong PINs are counted per person, never per device.
isLocked(e) == e.failures >= MAX_PIN_FAILURES

\* What a stored entry must be to be read back.
isRosterEntry(e) ==
    /\ e.pin \in PinValues \cup {NoPin}
    /\ e.failures \in 0 .. MAX_PIN_FAILURES
    /\ \A v \in e.vouches : v \in Numbers
    /\ \A m \in e.marks : m.vouch \in e.vouches

At(s, stage) == calls[s].op # "idle" /\ calls[s].at = stage

\* The guesses at a person's PIN that are being compared, and the count of wrong
\* ones when it is cleared: those still out are not the next round's.
comparing(p) == {s \in Slots : At(s, "compare") /\ calls[s].person = p}
Cleared(p)   == [wrong EXCEPT ![p] = -Cardinality(comparing(p))]

\* The names a new device can pick from.
pickable == {p \in People : roster[p].on}

\* Mutant: old requests are kept.
dropStale_Keeps(es) == es

\* dropStale: every handler that reads the waiting list first forgets what is
\* older than PENDING_TTL_MS, answered or not.
dropStale(es) == [id \in Ids |->
    IF es[id].old THEN Forgotten ELSE es[id]]

pendingIds(es) == {id \in Ids : es[id].status = "pending"}

\* pendingEntry: the request is there and still waiting.
pendingEntry(id) == id \in pendingIds(dropStale(entries))

\* Slots are taken in any one order; which is free says nothing of the host.
nextSlot == CHOOSE s \in Slots : calls[s] = Idle
free(s)  == calls[s] = Idle /\ s = nextSlot /\ begun < MaxCalls
Begin(s, call) == /\ free(s)
                  /\ begun' = begun + 1
                  /\ calls' = [calls EXCEPT ![s] = call]
Goes(s, stage) == calls' = [calls EXCEPT ![s].at = stage]
Ends(s)        == calls' = [calls EXCEPT ![s] = Idle]

\* The page waiting on a PIN hears the answer, or has gone.
Answer(s, g) ==
    IF calls[s].op = "pin" /\ guest[calls[s].device].checking
        THEN guest' = [guest EXCEPT ![calls[s].device] = g]
        ELSE guest' = guest

-----------------------------------------------------------------------------
Init ==
    /\ roster \in [People -> {NoEntry} \cup {FirstEntry(pin) : pin \in ChosenPins}]
    /\ entries = [id \in Ids |-> Unused]
    /\ calls = [s \in Slots |-> Idle]
    /\ begun = 0
    /\ fresh = {}
    /\ joins = {}
    /\ signed = <<>>
    /\ revoked = <<>>
    /\ listed = [r \in Numbers |-> [done |-> FALSE, on |-> {}]]
    /\ guest = [d \in Devices |-> Out]
    /\ holds = [d \in Devices |-> {}]
    /\ applied = [n \in 1 .. MaxCalls |-> 0]
    /\ wrong = [p \in People |-> 0]
    /\ replaced = {}

-----------------------------------------------------------------------------
(***************************************************************************)
(* Joining.  The guest asks for a challenge, its worker signs a join that  *)
(* carries it, and the page posts that: rosterClient.joinHostRoster.  The  *)
(* pin is a new one, NoPin to remove it, or "keep".                        *)
(***************************************************************************)
joinHostRoster(p, pin) ==
    LET n == begun + 1
    IN /\ begun < MaxCalls
       /\ begun' = n
       /\ fresh' = fresh \cup {n}
       /\ joins' = joins \cup {[person |-> p, pin |-> pin, challenge |-> n]}
       /\ UNCHANGED <<roster, entries, calls, signed, revoked, listed, guest,
                      holds, applied, wrong, replaced>>

\* join: signature, challenge, certificate, name and PIN.  The challenge is
\* used up even when a later check fails.
JoinArrives(s, m) ==
    /\ calls[s] = Idle /\ s = nextSlot
    /\ m \in joins
    /\ m.challenge \in fresh
    /\ fresh' = fresh \ {m.challenge}
    /\ joins' = joins \ {m}         \* a second copy would be refused
    /\ \/ calls' = [calls EXCEPT ![s] = [op |-> "join", at |-> "update", join |-> m]]
       \/ calls' = calls            \* certificate, name or PIN refused
    /\ UNCHANGED <<roster, entries, begun, signed, revoked, listed, guest,
                   holds, applied, wrong, replaced>>

\* The rename: a later join keeps the certificate, and the PIN unless it names
\* one, which also clears a lockout.
JoinUpdates(s) ==
    /\ At(s, "update")
    /\ LET m == calls[s].join
           e == roster[m.person]
           new == m.pin # "keep"
       IN IF e.on
            THEN /\ roster' = [roster EXCEPT ![m.person] =
                       IF new THEN [e EXCEPT !.pin = m.pin, !.failures = 0] ELSE e]
                 /\ wrong' = IF new THEN Cleared(m.person) ELSE wrong
                 /\ applied' = [applied EXCEPT ![m.challenge] = @ + 1]
                 /\ Ends(s)
            ELSE /\ Goes(s, "put")
                 /\ UNCHANGED <<roster, wrong, applied>>
    /\ UNCHANGED <<entries, begun, fresh, joins, signed, revoked, listed, guest,
                   holds, replaced>>

\* Nobody to rename: the person is added, replacing whatever was stored since.
JoinPuts(s) ==
    /\ At(s, "put")
    /\ LET m == calls[s].join
       IN /\ roster' = [roster EXCEPT ![m.person] =
                           FirstEntry(IF m.pin = "keep" THEN NoPin ELSE m.pin)]
          /\ wrong' = Cleared(m.person)
          /\ applied' = [applied EXCEPT ![m.challenge] = @ + 1]
          /\ replaced' = IF roster[m.person].on THEN replaced \cup {m.person}
                                                ELSE replaced
    /\ Ends(s)
    /\ UNCHANGED <<entries, begun, fresh, joins, signed, revoked, listed, guest, holds>>

-----------------------------------------------------------------------------
(***************************************************************************)
(* Asking.  The guest picked a name; the request is checked, and from the  *)
(* last await to the insert nothing else runs.                             *)
(***************************************************************************)
\* The waiting request of the same device for the same person, if any.
requested(es, d, p) ==
    {id \in pendingIds(es) : es[id].device = d /\ es[id].person = p}

\* What the host makes of a request: the waiting one again, or a new one.
request(es, d, p) ==
    IF requested(es, d, p) # {} THEN "again"
    ELSE IF Cardinality(pendingIds(es)) >= MAX_PENDING THEN "too-many-pending"
    ELSE "new"

\* The HTTP status that is sent with.
requestVouch(answer) == IF answer = "too-many-pending" THEN 429 ELSE 201

unusedIds == {id \in Ids : entries[id].status = "none"}
nextId == CHOOSE id \in unusedIds : \A other \in unusedIds : id <= other

\* The page posts the request.  It keeps the id of a 2xx answer, and goes back
\* to the names on any other.
askForVouch(d, p) ==
    LET es == dropStale(entries)
        answer == request(es, d, p)
        id == IF answer = "again" THEN CHOOSE i \in requested(es, d, p) : TRUE ELSE nextId
    IN /\ answer = "new" => unusedIds # {}
       /\ entries' = IF answer = "new"
             THEN [es EXCEPT ![id] = [Unused EXCEPT !.status = "pending", !.device = d,
                                                    !.person = p]]
             ELSE es
       /\ guest' = IF requestVouch(answer) = 201
             THEN [guest EXCEPT ![d] = Waiting(id)] ELSE guest

\* RejoinFlow mounts for a picked name and asks.  An answer that is lost is one
\* after which the page is left at once.
Rejoin(d, p) ==
    /\ guest[d].at = "out"
    /\ p \in pickable
    /\ begun < MaxCalls /\ begun' = begun + 1
    /\ askForVouch(d, p)
    /\ UNCHANGED <<roster, calls, fresh, joins, signed, revoked, listed, holds,
                   applied, wrong, replaced>>

\* PENDING_TTL_MS passes, for the oldest requests first.
Ages(id) ==
    /\ entries[id].status \in {"pending", "vouched", "rejected"}
    /\ ~entries[id].old
    /\ \A older \in 1 .. id - 1 : entries[older].old
    /\ entries' = [entries EXCEPT ![id].old = TRUE]
    /\ UNCHANGED <<roster, calls, begun, fresh, joins, signed, revoked, listed, guest,
                   holds, applied, wrong, replaced>>

\* Where a request stands; undefined, sent as 404, once it is forgotten.
status(es, id) == IF es[id].status = "gone" THEN "404" ELSE es[id].status

\* The two-second poll of the waiting page, and what it does with the answer:
\* a vouch goes to the worker, a no or a 404 back to the names.
PollVouch(d) ==
    LET es == dropStale(entries)
        answer == status(es, guest[d].id)
    IN /\ guest[d].at = "waiting"
       /\ entries' = es
       /\ guest' = IF answer = "pending" THEN guest ELSE [guest EXCEPT ![d] = Out]
       /\ holds' = IF answer = "vouched"
             THEN [holds EXCEPT ![d] = @ \cup {es[guest[d].id].vouch}] ELSE holds
       /\ UNCHANGED <<roster, calls, begun, fresh, joins, signed, revoked, listed,
                      applied, wrong, replaced>>

\* "That's not me", or the page closes.
Leaves(d) ==
    /\ guest[d].at = "waiting"
    /\ guest' = [guest EXCEPT ![d] = Out]
    /\ UNCHANGED <<roster, entries, calls, begun, fresh, joins, signed, revoked,
                   listed, holds, applied, wrong, replaced>>

-----------------------------------------------------------------------------
(***************************************************************************)
(* Answering: the operator says yes or no, or the person types a PIN.      *)
(***************************************************************************)
\* The row's two buttons are disabled while an answer is on its way.
answering(id) == \E s \in Slots : calls[s].op = "confirm" /\ calls[s].id = id

confirm(s, id) ==
    /\ ~answering(id)
    /\ pendingEntry(id)
    /\ Begin(s, [op |-> "confirm", at |-> "sign", id |-> id, device |-> entries[id].device,
                 person |-> entries[id].person])
    /\ entries' = dropStale(entries)
    /\ UNCHANGED <<roster, fresh, joins, signed, revoked, listed, guest, holds,
                   applied, wrong, replaced>>

reject(id) ==
    /\ ~answering(id)
    /\ pendingEntry(id)
    /\ entries' = [dropStale(entries) EXCEPT ![id].status = "rejected"]
    /\ UNCHANGED <<roster, calls, begun, fresh, joins, signed, revoked, listed, guest,
                   holds, applied, wrong, replaced>>

\* The host begins to check a PIN for a request that waits.
enterPin(s, id, pin) ==
    /\ pendingEntry(id)
    /\ Begin(s, [op |-> "pin", at |-> "count", id |-> id, device |-> entries[id].device,
                 person |-> entries[id].person, pin |-> pin, stored |-> NoPin])
    /\ entries' = dropStale(entries)

\* The page sends a PIN; its button is disabled while one is checked.
submitPin(s, d, pin) ==
    /\ guest[d].at = "waiting" /\ ~guest[d].checking
    /\ enterPin(s, guest[d].id, pin)
    /\ guest' = [guest EXCEPT ![d].checking = TRUE]
    /\ UNCHANGED <<roster, fresh, joins, signed, revoked, listed, holds,
                   applied, wrong, replaced>>

changePin(s, p, old, new) ==
    /\ roster[p].on
    /\ Begin(s, [op |-> "change", at |-> "count", person |-> p, pin |-> old,
                 stored |-> NoPin, new |-> new])

\* Settings on a device that holds a vouch but no person key: the PIN changes,
\* proven by the old one.  A device with the person key joins again instead.
saveWithOldPin(s, d, p, old, new) ==
    /\ \E v \in holds[d] : signed[v].person = p
    /\ changePin(s, p, old, new)
    /\ UNCHANGED <<roster, entries, fresh, joins, signed, revoked, listed, guest, holds,
                   applied, wrong, replaced>>

\* Mutant: the guess is compared without having been counted.
checkPin_Uncounted(s) ==
    /\ At(s, "count")
    /\ LET p == calls[s].person
           e == roster[p]
       IN IF e.pin # NoPin /\ ~isLocked(e)
            THEN /\ calls' = [calls EXCEPT ![s].at = "compare", ![s].stored = e.pin]
                 /\ UNCHANGED <<roster, guest>>
            ELSE /\ Ends(s) /\ Answer(s, Waiting(calls[s].id)) /\ UNCHANGED roster
    /\ UNCHANGED <<entries, begun, fresh, joins, signed, revoked, listed, holds,
                   applied, wrong, replaced>>

\* checkPin, first half: counted and saved before the slow hash.
checkPin(s) ==
    /\ At(s, "count")
    /\ LET p == calls[s].person
           e == roster[p]
       IN IF e.pin # NoPin /\ ~isLocked(e)
            THEN /\ roster' = [roster EXCEPT ![p].failures = @ + 1]
                 /\ calls' = [calls EXCEPT ![s].at = "compare", ![s].stored = e.pin]
                 /\ UNCHANGED guest
            ELSE /\ Ends(s) /\ UNCHANGED roster
                 /\ Answer(s, Waiting(calls[s].id))
    /\ UNCHANGED <<entries, begun, fresh, joins, signed, revoked, listed, holds,
                   applied, wrong, replaced>>

\* Second half: the typed PIN against the hash that was read when it was counted.
pinMatches(s) ==
    /\ At(s, "compare")
    /\ LET p == calls[s].person
       IN IF calls[s].pin = calls[s].stored
            THEN Goes(s, "clear") /\ UNCHANGED <<guest, wrong>>
            ELSE /\ Ends(s)
                 /\ Answer(s, Waiting(calls[s].id))
                 /\ wrong' = IF roster[p].pin = calls[s].stored
                               THEN [wrong EXCEPT ![p] = @ + 1] ELSE wrong
    /\ UNCHANGED <<roster, entries, begun, fresh, joins, signed, revoked, listed,
                   holds, applied, replaced>>

\* A right PIN forgets the wrong ones before it.
pinClears(s) ==
    /\ At(s, "clear")
    /\ roster' = [roster EXCEPT ![calls[s].person].failures = 0]
    /\ wrong' = Cleared(calls[s].person)
    /\ Goes(s, IF calls[s].op = "pin" THEN "sign" ELSE "save")
    /\ UNCHANGED <<entries, begun, fresh, joins, signed, revoked, listed, guest, holds,
                   applied, replaced>>

-----------------------------------------------------------------------------
(***************************************************************************)
(* vouchFor, after either answer: sign with the name and certificate found *)
(* on the roster, remember the vouch there, then let the guest have it.    *)
(* Nothing looks at the request's status again.                            *)
(***************************************************************************)
vouchSigns(s) ==
    /\ At(s, "sign")
    /\ Len(signed) < MaxSigned
    /\ LET c == calls[s]
       IN /\ signed' = Append(signed, [device |-> c.device, person |-> c.person,
                                       method |-> c.op, id |-> c.id])
          /\ calls' = [calls EXCEPT ![s] =
                [op |-> c.op, at |-> "record", id |-> c.id, device |-> c.device,
                 person |-> c.person, vouch |-> Len(signed')]]
    /\ UNCHANGED <<roster, entries, begun, fresh, joins, revoked, listed, guest, holds,
                   applied, wrong, replaced>>

\* What the waiting device gets to see, by the answer to its PIN or its poll.
Vouched(s) ==
    LET c == calls[s]
    IN entries' = IF entries[c.id].status = "gone" THEN entries
          ELSE [entries EXCEPT ![c.id].status = "vouched", ![c.id].vouch = c.vouch]

\* The answer to a right PIN: the page hands the vouch to its worker.
HandsOver(s) ==
    LET c == calls[s]
    IN IF c.op = "pin" /\ guest[c.device].checking
         THEN /\ guest' = [guest EXCEPT ![c.device] = Out]
              /\ holds' = [holds EXCEPT ![c.device] = @ \cup {c.vouch}]
         ELSE UNCHANGED <<guest, holds>>

\* Mutant: the guest is told before the roster has the vouch.
vouchFor_TellsFirst(s) ==
    /\ At(s, "record")
    /\ Vouched(s)
    /\ HandsOver(s)
    /\ Ends(s)
    /\ UNCHANGED <<roster, begun, fresh, joins, signed, revoked, listed, applied,
                   wrong, replaced>>

vouchFor(s) ==
    /\ At(s, "record")
    /\ LET p == calls[s].person
       IN roster' = [roster EXCEPT ![p].vouches = @ \cup {calls[s].vouch}]
    /\ Vouched(s)
    /\ HandsOver(s)
    /\ Ends(s)
    /\ UNCHANGED <<begun, fresh, joins, signed, revoked, listed, applied, wrong, replaced>>

-----------------------------------------------------------------------------
(***************************************************************************)
(* The operator's side of the roster: PINs and withdrawals.                *)
(***************************************************************************)
setPin(s, p, pin) ==
    /\ roster[p].on
    /\ Begin(s, [op |-> "set", at |-> "save", person |-> p, new |-> pin])
    /\ UNCHANGED <<roster, entries, fresh, joins, signed, revoked, listed, guest, holds,
                   applied, wrong, replaced>>

\* savePin, when the new PIN is hashed: it starts with a clean count.
savePin(s) ==
    /\ At(s, "save")
    /\ LET p == calls[s].person
       IN /\ roster' = [roster EXCEPT ![p].pin = calls[s].new, ![p].failures = 0]
          /\ wrong' = Cleared(p)
    /\ Ends(s)
    /\ UNCHANGED <<entries, begun, fresh, joins, signed, revoked, listed, guest, holds,
                   applied, replaced>>

unlockPin(p) ==
    /\ roster[p].on /\ roster[p].failures > 0
    /\ begun < MaxCalls /\ begun' = begun + 1
    /\ roster' = [roster EXCEPT ![p].failures = 0]
    /\ wrong' = Cleared(p)
    /\ UNCHANGED <<entries, calls, fresh, joins, signed, revoked, listed, guest, holds,
                   applied, replaced>>

\* signedVouchState: a vouch is withdrawn once its roster record is marked.
marked(p, v) == \E m \in roster[p].marks : m.vouch = v

\* revokeVouch up to the delivery: found, not withdrawn yet, and signed.
revokeVouch(s, p, v) ==
    /\ v \in roster[p].vouches
    /\ ~marked(p, v)
    /\ Len(revoked) < MaxSigned
    /\ revoked' = Append(revoked, v)
    /\ Begin(s, [op |-> "revoke", at |-> "deliver", person |-> p, vouch |-> v,
                 revocation |-> Len(revoked')])
    /\ UNCHANGED <<roster, entries, fresh, joins, signed, listed, guest, holds,
                   applied, wrong, replaced>>

\* Mutant: the roster is marked although the root document did not load.
listDeviceRevocation_Swallows(s) ==
    /\ At(s, "deliver")
    /\ listed' = listed
    /\ Goes(s, "mark")
    /\ UNCHANGED <<roster, entries, begun, fresh, joins, signed, revoked, guest, holds,
                   applied, wrong, replaced>>

\* The revocation goes on every recording that names the vouch; a recording
\* that does not open, or whose bytes are not stored, is skipped.  Unless
\* writes may fail, none is.
listDeviceRevocation(s) ==
    /\ At(s, "deliver")
    /\ \E got \in IF MayFail THEN SUBSET Recordings ELSE {Recordings} :
          listed' = [listed EXCEPT ![calls[s].revocation] = [done |-> TRUE, on |-> got]]
    /\ Goes(s, "mark")
    /\ UNCHANGED <<roster, entries, begun, fresh, joins, signed, revoked, guest, holds,
                   applied, wrong, replaced>>

\* The roster is marked after the delivery; a second withdrawal that passed
\* the test above writes its own revocation over the first.
revokeMarks(s) ==
    /\ At(s, "mark")
    /\ LET p == calls[s].person
           v == calls[s].vouch
       IN roster' = IF v \in roster[p].vouches
            THEN [roster EXCEPT ![p].marks = {m \in @ : m.vouch # v} \cup
                     {[vouch |-> v, revocation |-> calls[s].revocation]}]
            ELSE roster
    /\ Ends(s)
    /\ UNCHANGED <<entries, begun, fresh, joins, signed, revoked, listed, guest, holds,
                   applied, wrong, replaced>>

-----------------------------------------------------------------------------
(***************************************************************************)
(* What goes wrong: a roster write, the signing key or the root document   *)
(* fails and the handler throws; the host process ends, and with it the    *)
(* waiting list, the challenges and every open handler.                    *)
(***************************************************************************)
Throws(s) ==
    /\ MayFail
    /\ calls[s] # Idle /\ calls[s].at # "compare"
    /\ Ends(s)
    /\ Answer(s, Waiting(calls[s].id))
    /\ UNCHANGED <<roster, entries, begun, fresh, joins, signed, revoked, listed, holds,
                   applied, wrong, replaced>>

Restart ==
    /\ MayFail
    /\ begun < MaxCalls /\ begun' = begun + 1
    /\ roster' = [p \in People |-> IF isRosterEntry(roster[p]) THEN roster[p] ELSE NoEntry]
    /\ calls' = [s \in Slots |-> Idle]
    /\ entries' = [id \in Ids |->
          IF entries[id].status = "none" THEN Unused ELSE Forgotten]
    /\ fresh' = {}
    /\ guest' = [d \in Devices |-> [guest[d] EXCEPT !.checking = FALSE]]
    /\ UNCHANGED <<joins, signed, revoked, listed, holds, applied, wrong, replaced>>

HostStep(s) ==
    \/ JoinUpdates(s) \/ JoinPuts(s)
    \/ checkPin(s) \/ pinMatches(s) \/ pinClears(s) \/ savePin(s)
    \/ vouchSigns(s) \/ vouchFor(s)
    \/ listDeviceRevocation(s) \/ revokeMarks(s)

Next ==
    \/ \E p \in People, pin \in ChosenPins \cup {NoPin, "keep"} : joinHostRoster(p, pin)
    \/ \E s \in Slots, m \in joins : JoinArrives(s, m)
    \/ \E d \in Devices, p \in People : Rejoin(d, p)
    \/ \E id \in Ids : Ages(id) \/ reject(id)
    \/ \E d \in Devices : PollVouch(d) \/ Leaves(d)
    \/ \E s \in Slots, id \in Ids : confirm(s, id)
    \/ \E s \in Slots, d \in Devices, pin \in PinValues : submitPin(s, d, pin)
    \/ \E s \in Slots, d \in Devices, p \in People, old \in PinValues,
          new \in ChosenPins \cup {NoPin} : saveWithOldPin(s, d, p, old, new)
    \/ \E s \in Slots, p \in People, pin \in ChosenPins \cup {NoPin} : setPin(s, p, pin)
    \/ \E p \in People : unlockPin(p)
    \/ \E s \in Slots, p \in People, v \in 1 .. Len(signed) : revokeVouch(s, p, v)
    \/ \E s \in Slots : HostStep(s) \/ Throws(s)
    \/ Restart

\* The host finishes what it began, a waiting page polls, and time passes.
Spec == /\ Init /\ [][Next]_vars
        /\ \A s \in Slots : WF_vars(HostStep(s))
        /\ \A d \in Devices : WF_vars(PollVouch(d))
        /\ \A id \in Ids : WF_vars(Ages(id))

-----------------------------------------------------------------------------
RosterEntries ==
    [on : BOOLEAN, pin : PinValues \cup {NoPin}, failures : 0 .. MAX_PIN_FAILURES,
     vouches : SUBSET Numbers, marks : SUBSET [vouch : Numbers, revocation : Numbers]]
Requests ==
    [status : {"none", "pending", "vouched", "rejected", "gone"}, device : Devices,
     person : People, vouch : 0 .. MaxSigned, old : BOOLEAN]
Joins == [person : People, pin : ChosenPins \cup {NoPin, "keep"}, challenge : 1 .. MaxCalls]
Calls ==
    {Idle}
    \cup [op : {"join"}, at : {"update", "put"}, join : Joins]
    \cup [op : {"pin"}, at : {"count", "compare", "clear", "sign"}, id : Ids,
          device : Devices, person : People, pin : PinValues, stored : PinValues \cup {NoPin}]
    \cup [op : {"change"}, at : {"count", "compare", "clear", "save"}, person : People,
          pin : PinValues, stored : PinValues \cup {NoPin}, new : ChosenPins \cup {NoPin}]
    \cup [op : {"confirm"}, at : {"sign"}, id : Ids, device : Devices, person : People]
    \cup [op : {"pin", "confirm"}, at : {"record"}, id : Ids, device : Devices,
          person : People, vouch : Numbers]
    \cup [op : {"set"}, at : {"save"}, person : People, new : ChosenPins \cup {NoPin}]
    \cup [op : {"revoke"}, at : {"deliver", "mark"}, person : People, vouch : Numbers,
          revocation : Numbers]

(***************************************************************************)
(* Every variable keeps its type, and a stored entry can be read back.     *)
(***************************************************************************)
TypeOK ==
    /\ roster \in [People -> RosterEntries]
    /\ \A p \in People : isRosterEntry(roster[p])
    /\ entries \in [Ids -> Requests]
    /\ calls \in [Slots -> Calls]
    /\ begun \in 0 .. MaxCalls
    /\ fresh \subseteq 1 .. MaxCalls
    /\ joins \subseteq Joins
    /\ signed \in Seq([device : Devices, person : People, method : {"pin", "confirm"}, id : Ids])
    /\ revoked \in Seq(Numbers)
    /\ Len(signed) <= MaxSigned /\ Len(revoked) <= MaxSigned
    /\ listed \in [Numbers -> [done : BOOLEAN, on : SUBSET Recordings]]
    /\ guest \in [Devices -> [at : {"out", "waiting"}, id : 0 .. MaxRequests, checking : BOOLEAN]]
    /\ \A d \in Devices : guest[d].at = "waiting" => guest[d].id \in Ids
    /\ holds \in [Devices -> SUBSET Numbers]
    /\ applied \in [1 .. MaxCalls -> Nat]
    /\ wrong \in [People -> Int]
    /\ replaced \subseteq People

(***************************************************************************)
(* "Remembered before the guest is told, so a vouch the host handed out is *)
(* never one the operator cannot find again" (hostVouching.ts:263): every  *)
(* vouch a device was handed is on the roster, across restarts, failing    *)
(* writes and two answers to one request.  It holds as long as no entry    *)
(* was written over by a first join that raced another one.                *)
(***************************************************************************)
HandedOutFindable ==
    \A d \in Devices : \A v \in holds[d] :
        signed[v].person \notin replaced => v \in roster[signed[v].person].vouches

\* The same without the exception, as the comment has it.
HandedOutNeverLost ==
    \A d \in Devices : \A v \in holds[d] : v \in roster[signed[v].person].vouches

(***************************************************************************)
(* "Parallel guesses cannot slip in under the limit, and a restart forgets *)
(* none" (hostVouching.ts:194): between two times the count is cleared, by *)
(* a right PIN, the operator, or a new PIN, at most MAX_PIN_FAILURES wrong *)
(* PINs are compared with the stored one, besides those that were being    *)
(* compared when it was cleared.                                           *)
(***************************************************************************)
GuessesLimited == \A p \in People : wrong[p] <= MAX_PIN_FAILURES

(***************************************************************************)
(* One waiting request per device and person, however often the device     *)
(* asks or loses the answer (hostVouching.ts:374), and never more than the *)
(* host keeps: the guest's id is the one the operator will answer.         *)
(***************************************************************************)
OneRequestEach ==
    /\ \A i, j \in pendingIds(entries) :
          entries[i].device = entries[j].device /\ entries[i].person = entries[j].person
             => i = j
    /\ Cardinality(pendingIds(entries)) <= MAX_PENDING

(***************************************************************************)
(* A signed join changes the roster once, however often it is delivered:   *)
(* the challenge in it is used up first (hostVouching.ts:318).             *)
(***************************************************************************)
JoinAppliedOnce == \A n \in 1 .. MaxCalls : applied[n] <= 1

(***************************************************************************)
(* A vouch the roster calls withdrawn names a revocation of that vouch     *)
(* whose delivery came back: a delivery that fails outright, or a second   *)
(* withdrawal racing the first, leaves nothing the operator's list calls   *)
(* withdrawn and no reader was told of (hostVouching.ts:536).              *)
(***************************************************************************)
WithdrawnIsDelivered ==
    \A p \in People : \A m \in roster[p].marks :
        revoked[m.revocation] = m.vouch /\ listed[m.revocation].done

(***************************************************************************)
(* "A recording the store cannot take the revocation for is left out of    *)
(* the list, so the operator can try it again" (vouchRevocation.ts:68): a  *)
(* vouch that can no longer be withdrawn is listed wherever it is named.   *)
(***************************************************************************)
WithdrawnEverywhere ==
    \A p \in People : \A m \in roster[p].marks :
        \A rec \in Recordings : \E r \in Numbers :
            r <= Len(revoked) /\ revoked[r] = m.vouch /\ rec \in listed[r].on

(***************************************************************************)
(* The page that waits is let go: by an answer, or because the host forgot *)
(* the request after PENDING_TTL_MS (RejoinFlow.tsx:243).                  *)
(***************************************************************************)
WaitingEnds == \A d \in Devices : guest[d].at = "waiting" ~> guest[d].at = "out"
=============================================================================
