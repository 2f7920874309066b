------------------------------ MODULE VouchingProofs ------------------------------
(***************************************************************************)
(* Proofs about HostVouching: a vouch that was handed out can be found on  *)
(* the roster, parallel guesses stay limited, and what is marked withdrawn *)
(* was delivered, however the handlers interleave and fail.                *)
(***************************************************************************)
EXTENDS HostVouching, FiniteSetTheorems, SequenceTheorems, WellFoundedInduction, TLAPS

\* Who waits for a vouch, and whose answer is under way, is on the roster; and
\* nobody's vouches or marks are anywhere else.
OnRoster ==
    /\ \A p \in People : ~roster[p].on => roster[p].vouches = {}
    /\ \A id \in Ids : entries[id].status = "pending" => roster[entries[id].person].on
    /\ \A s \in Slots : calls[s].op \in {"pin", "confirm"} => roster[calls[s].person].on

\* A vouch was signed, and is on its person's entry unless that was replaced.
Findable(v) ==
    /\ v \in 1 .. Len(signed)
    /\ signed[v].person \notin replaced => v \in roster[signed[v].person].vouches

\* Remembered before the guest is told, by its poll or by the answer to its PIN.
RememberedFirst ==
    /\ \A s \in Slots : At(s, "record") =>
          calls[s].vouch \in 1 .. Len(signed) /\ signed[calls[s].vouch].person = calls[s].person
    /\ \A id \in Ids : entries[id].status = "vouched" => Findable(entries[id].vouch)
    /\ \A d \in Devices : \A v \in holds[d] : Findable(v)

\* A guess is counted before it is compared.
underWay(p) == Cardinality(comparing(p))
CountedFirst == \A p \in People : wrong[p] + underWay(p) <= roster[p].failures

\* A revocation is of the vouch it is kept for, and is delivered before the mark.
DeliveredFirst ==
    /\ \A s \in Slots : calls[s].op = "revoke" =>
          /\ calls[s].revocation \in 1 .. Len(revoked)
          /\ revoked[calls[s].revocation] = calls[s].vouch
          /\ calls[s].at = "mark" => listed[calls[s].revocation].done
    /\ \A p \in People : \A m \in roster[p].marks :
          /\ m.revocation \in 1 .. Len(revoked)
          /\ revoked[m.revocation] = m.vouch /\ listed[m.revocation].done

Inv == TypeOK /\ OnRoster /\ RememberedFirst /\ CountedFirst /\ DeliveredFirst
-----------------------------------------------------------------------------
\* The handlers by what they are about.
JoinCalls == [op : {"join"}, at : {"update", "put"}, join : Joins]
PinCalls == [op : {"pin"}, at : {"count", "compare", "clear", "sign"}, id : Ids,
             device : Devices, person : People, pin : PinValues, stored : PinValues \cup {NoPin}]
ChangeCalls == [op : {"change"}, at : {"count", "compare", "clear", "save"}, person : People,
                pin : PinValues, stored : PinValues \cup {NoPin}, new : ChosenPins \cup {NoPin}]
ConfirmCalls == [op : {"confirm"}, at : {"sign"}, id : Ids, device : Devices, person : People]
RecordCalls == [op : {"pin", "confirm"}, at : {"record"}, id : Ids, device : Devices,
                person : People, vouch : Numbers]
SetCalls == [op : {"set"}, at : {"save"}, person : People, new : ChosenPins \cup {NoPin}]
RevokeCalls == [op : {"revoke"}, at : {"deliver", "mark"}, person : People, vouch : Numbers,
                revocation : Numbers]

LEMMA CallsAre ==
    Calls = {Idle} \cup JoinCalls \cup PinCalls \cup ChangeCalls \cup ConfirmCalls
            \cup RecordCalls \cup SetCalls \cup RevokeCalls
BY DEF Calls, JoinCalls, PinCalls, ChangeCalls, ConfirmCalls, RecordCalls, SetCalls, RevokeCalls

\* The stage a handler is at says which it is.
LEMMA Stages ==
    ASSUME NEW c \in Calls, c.op # "idle"
    PROVE  /\ c.at \in {"update", "put"} => c \in JoinCalls
           /\ c.at \in {"count", "compare", "clear"} => c \in PinCalls \cup ChangeCalls
           /\ c.at = "sign" => c \in PinCalls \cup ConfirmCalls
           /\ c.at = "record" => c \in RecordCalls
           /\ c.at = "save" => c \in ChangeCalls \cup SetCalls
           /\ c.at \in {"deliver", "mark"} => c \in RevokeCalls
           /\ c.op = "pin" => c \in PinCalls \cup RecordCalls
           /\ c.op \in {"pin", "confirm"} => c \in PinCalls \cup ConfirmCalls \cup RecordCalls
           /\ c.op = "revoke" => c \in RevokeCalls
<1>1. c \in JoinCalls \cup PinCalls \cup ChangeCalls \cup ConfirmCalls
            \cup RecordCalls \cup SetCalls \cup RevokeCalls
  BY CallsAre DEF Idle
<1>2. CASE c \in JoinCalls
  BY <1>2 DEF JoinCalls
<1>3. CASE c \in PinCalls
  BY <1>3 DEF PinCalls
<1>4. CASE c \in ChangeCalls
  BY <1>4 DEF ChangeCalls
<1>5. CASE c \in ConfirmCalls
  BY <1>5 DEF ConfirmCalls
<1>6. CASE c \in RecordCalls
  BY <1>6 DEF RecordCalls
<1>7. CASE c \in SetCalls
  BY <1>7 DEF SetCalls
<1>8. CASE c \in RevokeCalls
  BY <1>8 DEF RevokeCalls
<1> QED BY <1>1, <1>2, <1>3, <1>4, <1>5, <1>6, <1>7, <1>8

LEMMA LeastNat ==
    ASSUME NEW T \in SUBSET Nat, T # {}
    PROVE  \E x \in T : \A y \in T : x <= y
<1>1. PICK x \in T : \A y \in T : ~(<<y, x>> \in OpToRel(<, Nat))
  BY NatLessThanWellFounded, WFMin
<1>2. \A y \in T : ~(y < x)
  BY <1>1 DEF OpToRel
<1>3. x \in Nat /\ \A y \in T : y \in Nat
  OBVIOUS
<1>4. \A y \in T : x <= y
  BY <1>2, <1>3
<1> QED BY <1>4

LEMMA NextIdIsUnused ==
    ASSUME unusedIds # {}
    PROVE  nextId \in unusedIds
<1>1. unusedIds \in SUBSET Nat
  BY VouchingAssumption DEF unusedIds, Ids
<1>2. \E x \in unusedIds : \A y \in unusedIds : x <= y
  BY <1>1, LeastNat
<1> QED BY <1>2 DEF nextId

LEMMA RequestTypes ==
    /\ Unused \in Requests /\ Unused.status = "none"
    /\ Forgotten \in Requests /\ Forgotten.status = "gone"
<1>1. (CHOOSE d \in Devices : TRUE) \in Devices /\ (CHOOSE p \in People : TRUE) \in People
  BY VouchingAssumption
<1>2. Unused \in Requests /\ Unused.status = "none"
  BY <1>1, VouchingAssumption DEF Unused, Requests
<1>3. Forgotten \in Requests /\ Forgotten.status = "gone"
  BY <1>2 DEF Forgotten, Requests
<1> QED BY <1>2, <1>3

\* dropStale forgets, and changes nothing else.
LEMMA StaleTypes ==
    ASSUME NEW es \in [Ids -> Requests]
    PROVE  /\ dropStale(es) \in [Ids -> Requests]
           /\ \A id \in Ids : dropStale(es)[id] = es[id] \/ dropStale(es)[id] = Forgotten
BY RequestTypes DEF dropStale

LEMMA EntryTypes ==
    /\ NoEntry \in RosterEntries /\ isRosterEntry(NoEntry) /\ ~NoEntry.on
    /\ \A pin \in PinValues \cup {NoPin} :
          /\ FirstEntry(pin) \in RosterEntries /\ isRosterEntry(FirstEntry(pin))
          /\ FirstEntry(pin).on /\ FirstEntry(pin).failures = 0
          /\ FirstEntry(pin).vouches = {} /\ FirstEntry(pin).marks = {}
    /\ \A e \in RosterEntries :
          (\A m \in e.marks : m.vouch \in e.vouches) => isRosterEntry(e)
<1>1. MAX_PIN_FAILURES \in Nat
  BY VouchingAssumption
<1>2. \A e \in RosterEntries : (\A m \in e.marks : m.vouch \in e.vouches) => isRosterEntry(e)
  BY DEF RosterEntries, isRosterEntry
<1>3. NoEntry \in RosterEntries /\ NoEntry.marks = {} /\ ~NoEntry.on
  BY <1>1 DEF NoEntry, RosterEntries
<1>4. ASSUME NEW pin \in PinValues \cup {NoPin}
      PROVE  /\ FirstEntry(pin) \in RosterEntries
             /\ FirstEntry(pin).on /\ FirstEntry(pin).failures = 0
             /\ FirstEntry(pin).vouches = {} /\ FirstEntry(pin).marks = {}
  <2>1. NoEntry.failures = 0 /\ NoEntry.vouches = {} /\ NoEntry.marks = {}
    BY DEF NoEntry
  <2>2. FirstEntry(pin) \in RosterEntries
    BY <1>3 DEF FirstEntry, RosterEntries
  <2>3. FirstEntry(pin).on
    BY <1>3 DEF FirstEntry, RosterEntries
  <2>4. /\ FirstEntry(pin).failures = NoEntry.failures /\ FirstEntry(pin).vouches = NoEntry.vouches
        /\ FirstEntry(pin).marks = NoEntry.marks
    BY <1>3 DEF FirstEntry, RosterEntries
  <2> QED BY <2>1, <2>2, <2>3, <2>4
<1> QED BY <1>2, <1>3, <1>4

LEMMA InitInv == Init => Inv
<1> SUFFICES ASSUME Init PROVE Inv
  OBVIOUS
<1> USE VouchingAssumption DEF Init
<1>1. \A p \in People : /\ roster[p] \in RosterEntries /\ isRosterEntry(roster[p])
                        /\ roster[p].failures = 0 /\ roster[p].vouches = {}
                        /\ roster[p].marks = {}
  <2>1. NoEntry.failures = 0 /\ NoEntry.vouches = {} /\ NoEntry.marks = {}
    BY DEF NoEntry
  <2> QED BY <2>1, EntryTypes
<1>2. TypeOK
  <2>1. roster \in [People -> RosterEntries] /\ \A p \in People : isRosterEntry(roster[p])
    BY <1>1, EntryTypes
  <2>2. entries \in [Ids -> Requests]
    BY RequestTypes
  <2>3. calls \in [Slots -> Calls]
    BY CallsAre
  <2>4. /\ signed \in Seq([device : Devices, person : People, method : {"pin", "confirm"}, id : Ids])
        /\ revoked \in Seq(Numbers) /\ Len(signed) <= MaxSigned /\ Len(revoked) <= MaxSigned
    BY EmptySeq
  <2>5. listed \in [Numbers -> [done : BOOLEAN, on : SUBSET Recordings]]
    OBVIOUS
  <2>6. /\ guest \in [Devices -> [at : {"out", "waiting"}, id : 0 .. MaxRequests, checking : BOOLEAN]]
        /\ \A d \in Devices : guest[d].at = "waiting" => guest[d].id \in Ids
    BY DEF Out
  <2>7. holds \in [Devices -> SUBSET Numbers] /\ applied \in [1 .. MaxCalls -> Nat]
    OBVIOUS
  <2>8. wrong \in [People -> Int] /\ begun \in 0 .. MaxCalls
    OBVIOUS
  <2> QED BY ONLY Init, <2>1, <2>2, <2>3, <2>4, <2>5, <2>6, <2>7, <2>8 DEF TypeOK, Init
<1>3. OnRoster
  BY <1>1, RequestTypes DEF OnRoster, Idle
<1>4. RememberedFirst
  BY RequestTypes DEF RememberedFirst, At, Idle
<1>5. CountedFirst
  <2>1. \A p \in People : comparing(p) = {}
    BY DEF comparing, At, Idle
  <2>2. \A p \in People : underWay(p) = 0
    BY <2>1, FS_EmptySet, Zenon DEF underWay
  <2>3. \A p \in People : wrong[p] = 0
    OBVIOUS
  <2> QED BY ONLY <1>1, <2>2, <2>3 DEF CountedFirst
<1>6. DeliveredFirst
  BY <1>1 DEF DeliveredFirst, Idle
<1> QED BY <1>2, <1>3, <1>4, <1>5, <1>6 DEF Inv

-----------------------------------------------------------------------------
(***************************************************************************)
(* Types.                                                                  *)
(***************************************************************************)
LEMMA CallTyped ==
    ASSUME TypeOK, NEW s \in Slots, NEW c \in Calls, calls' = [calls EXCEPT ![s] = c]
    PROVE  /\ calls' \in [Slots -> Calls] /\ calls'[s] = c
           /\ \A r \in Slots \ {s} : calls'[r] = calls[r]
BY DEF TypeOK

LEMMA RosterTyped ==
    ASSUME TypeOK, NEW p \in People, NEW e \in RosterEntries,
           \A m \in e.marks : m.vouch \in e.vouches, roster' = [roster EXCEPT ![p] = e]
    PROVE  /\ roster' \in [People -> RosterEntries] /\ roster'[p] = e
           /\ \A q \in People : isRosterEntry(roster'[q])
           /\ \A q \in People \ {p} : roster'[q] = roster[q]
<1>1. roster' \in [People -> RosterEntries] /\ roster'[p] = e
      /\ \A q \in People \ {p} : roster'[q] = roster[q]
  BY DEF TypeOK
<1>2. isRosterEntry(e)
  BY EntryTypes
<1>3. \A q \in People : isRosterEntry(roster[q])
  BY DEF TypeOK
<1> QED BY <1>1, <1>2, <1>3

\* What each write to a stored entry leaves of it.
LEMMA EntryWrites ==
    ASSUME NEW e \in RosterEntries, \A m \in e.marks : m.vouch \in e.vouches
    PROVE  /\ \A n \in 0 .. MAX_PIN_FAILURES : LET w == [e EXCEPT !.failures = n]
                 IN /\ w \in RosterEntries /\ w.failures = n
                    /\ w.on = e.on /\ w.pin = e.pin /\ w.vouches = e.vouches /\ w.marks = e.marks
           /\ \A pin \in PinValues \cup {NoPin} : LET w == [e EXCEPT !.pin = pin, !.failures = 0]
                 IN /\ w \in RosterEntries /\ w.failures = 0
                    /\ w.on = e.on /\ w.vouches = e.vouches /\ w.marks = e.marks
           /\ \A v \in Numbers : LET w == [e EXCEPT !.vouches = @ \cup {v}]
                 IN /\ w \in RosterEntries /\ w.vouches = e.vouches \cup {v}
                    /\ w.on = e.on /\ w.failures = e.failures /\ w.marks = e.marks
           /\ \A M \in SUBSET [vouch : Numbers, revocation : Numbers] :
                 LET w == [e EXCEPT !.marks = M]
                 IN /\ w \in RosterEntries /\ w.marks = M
                    /\ w.on = e.on /\ w.failures = e.failures /\ w.vouches = e.vouches
<1>1. 0 \in 0 .. MAX_PIN_FAILURES
  BY VouchingAssumption
<1> QED BY <1>1 DEF RosterEntries

LEMMA VouchAdded ==
    ASSUME NEW r \in RosterEntries, NEW v \in Numbers
    PROVE  LET x == [r EXCEPT !.vouches = r.vouches \cup {v}]
           IN x \in RosterEntries /\ x.vouches = r.vouches \cup {v} /\ x.marks = r.marks
BY DEF RosterEntries

LEMMA AnswerTyped ==
    ASSUME TypeOK, NEW s \in Slots, Answer(s, Waiting(calls[s].id))
    PROVE  /\ guest' \in [Devices -> [at : {"out", "waiting"}, id : 0 .. MaxRequests, checking : BOOLEAN]]
           /\ \A d \in Devices : guest'[d].at = "waiting" => guest'[d].id \in Ids
<1>1. CASE calls[s].op = "pin"
  <2> DEFINE d == calls[s].device
             g == Waiting(calls[s].id)
             G == [at : {"out", "waiting"}, id : 0 .. MaxRequests, checking : BOOLEAN]
  <2>1. calls[s].id \in Ids /\ d \in Devices
    BY <1>1, Stages DEF TypeOK, PinCalls, RecordCalls
  <2>2. g \in G /\ g.id \in Ids
    BY <2>1, VouchingAssumption DEF Waiting, Ids
  <2>3. guest' = guest \/ guest' = [guest EXCEPT ![d] = g]
    BY DEF Answer
  <2>4. guest \in [Devices -> G] /\ \A x \in Devices : guest[x].at = "waiting" => guest[x].id \in Ids
    BY DEF TypeOK
  <2> HIDE DEF d, g, G
  <2>5. guest' \in [Devices -> G]
    BY ONLY <2>1, <2>2, <2>3, <2>4
  <2>6. \A x \in Devices : guest'[x].at = "waiting" => guest'[x].id \in Ids
    BY ONLY <2>1, <2>2, <2>3, <2>4
  <2> QED BY <2>5, <2>6 DEF G
<1>2. CASE calls[s].op # "pin"
  BY <1>2 DEF Answer, TypeOK
<1> QED BY <1>1, <1>2

\* A number that is one more and still within the bound.
LEMMA BegunTyped ==
    ASSUME TypeOK, begun < MaxCalls, begun' = begun + 1
    PROVE  begun' \in 0 .. MaxCalls /\ begun' \in 1 .. MaxCalls
BY VouchingAssumption DEF TypeOK

LEMMA JoinTyped ==
    ASSUME Inv,
           \/ \E p \in People, pin \in ChosenPins \cup {NoPin, "keep"} : joinHostRoster(p, pin)
           \/ \E s \in Slots, m \in joins : JoinArrives(s, m)
    PROVE  TypeOK'
<1> USE DEF Inv
<1>1. ASSUME NEW p \in People, NEW pin \in ChosenPins \cup {NoPin, "keep"}, joinHostRoster(p, pin)
      PROVE  TypeOK'
  <2>1. begun' \in 0 .. MaxCalls /\ begun + 1 \in 1 .. MaxCalls
    BY <1>1, BegunTyped DEF joinHostRoster
  <2>2. [person |-> p, pin |-> pin, challenge |-> begun + 1] \in Joins
    BY <2>1 DEF Joins
  <2>3. fresh' \subseteq 1 .. MaxCalls /\ joins' \subseteq Joins
    BY <1>1, <2>1, <2>2 DEF joinHostRoster, TypeOK
  <2> QED BY <1>1, <2>1, <2>3 DEF joinHostRoster, TypeOK
<1>2. ASSUME NEW s \in Slots, NEW m \in joins, JoinArrives(s, m)
      PROVE  TypeOK'
  <2>1. [op |-> "join", at |-> "update", join |-> m] \in Calls
    BY CallsAre DEF JoinCalls, TypeOK
  <2>2. calls' \in [Slots -> Calls]
    BY <1>2, <2>1 DEF JoinArrives, TypeOK
  <2>3. fresh' \subseteq 1 .. MaxCalls /\ joins' \subseteq Joins
    BY <1>2 DEF JoinArrives, TypeOK
  <2> QED BY <1>2, <2>2, <2>3 DEF JoinArrives, TypeOK
<1> QED BY <1>1, <1>2

LEMMA MarksInVouches ==
    ASSUME TypeOK, NEW p \in People
    PROVE  roster[p] \in RosterEntries /\ \A m \in roster[p].marks : m.vouch \in roster[p].vouches
BY DEF TypeOK, isRosterEntry

LEMMA FailuresTyped ==
    ASSUME TypeOK, NEW p \in People, NEW n \in 0 .. MAX_PIN_FAILURES
    PROVE  LET e == [roster[p] EXCEPT !.failures = n]
           IN /\ e \in RosterEntries /\ \A m \in e.marks : m.vouch \in e.vouches
              /\ e.failures = n /\ e.on = roster[p].on /\ e.pin = roster[p].pin
              /\ e.vouches = roster[p].vouches /\ e.marks = roster[p].marks
<1>1. roster[p] \in RosterEntries /\ \A m \in roster[p].marks : m.vouch \in roster[p].vouches
  BY MarksInVouches
<1> DEFINE e == [roster[p] EXCEPT !.failures = n]
<1>2. /\ e \in RosterEntries /\ e.failures = n /\ e.on = roster[p].on /\ e.pin = roster[p].pin
      /\ e.vouches = roster[p].vouches /\ e.marks = roster[p].marks
  BY <1>1, EntryWrites
<1> QED BY <1>1, <1>2

\* A handler that ends leaves the calls typed.
LEMMA EndsTyped ==
    ASSUME TypeOK, NEW s \in Slots, Ends(s)
    PROVE  /\ calls' \in [Slots -> Calls] /\ calls'[s] = Idle
           /\ \A r \in Slots \ {s} : calls'[r] = calls[r]
BY CallsAre, CallTyped DEF Ends

LEMMA ClearedTyped ==
    ASSUME TypeOK, NEW p \in People
    PROVE  /\ Cleared(p) \in [People -> Int] /\ Cleared(p)[p] = -underWay(p)
           /\ \A q \in People \ {p} : Cleared(p)[q] = wrong[q]
<1>1. IsFiniteSet(comparing(p))
  BY VouchingAssumption, FS_Subset DEF comparing
<1>2. underWay(p) \in Nat
  BY <1>1, FS_CardinalityType, Zenon DEF underWay
<1>3. Cleared(p) = [wrong EXCEPT ![p] = -underWay(p)]
  BY Zenon DEF Cleared, underWay
<1> QED BY <1>2, <1>3 DEF TypeOK

LEMMA JoinUpdatesTyped ==
    ASSUME Inv, NEW s \in Slots, JoinUpdates(s) \/ JoinPuts(s)
    PROVE  TypeOK'
<1> DEFINE m == calls[s].join
<1> USE DEF Inv
<1>1. calls[s] \in JoinCalls /\ m \in Joins
  BY Stages DEF JoinUpdates, JoinPuts, At, TypeOK, JoinCalls
<1>2. m.person \in People /\ m.challenge \in 1 .. MaxCalls /\ m.pin \in ChosenPins \cup {NoPin, "keep"}
  BY <1>1 DEF Joins
<1>3. (m.pin # "keep") => m.pin \in PinValues \cup {NoPin}
  BY <1>2, VouchingAssumption
<1>4. roster[m.person] \in RosterEntries /\ \A k \in roster[m.person].marks : k.vouch \in roster[m.person].vouches
  BY <1>2, MarksInVouches
<1>5. [applied EXCEPT ![m.challenge] = @ + 1] \in [1 .. MaxCalls -> Nat]
  BY <1>2 DEF TypeOK
<1>6. Cleared(m.person) \in [People -> Int]
  BY <1>2, ClearedTyped
<1>7. CASE JoinUpdates(s) /\ roster[m.person].on
  <2>1. Ends(s) /\ applied' = [applied EXCEPT ![m.challenge] = @ + 1]
        /\ wrong' \in {wrong, Cleared(m.person)}
    BY <1>7 DEF JoinUpdates
  <2>2. roster' = [roster EXCEPT ![m.person] =
            IF m.pin # "keep" THEN [roster[m.person] EXCEPT !.pin = m.pin, !.failures = 0]
                              ELSE roster[m.person]]
    BY <1>7 DEF JoinUpdates
  <2>3. roster' \in [People -> RosterEntries] /\ \A q \in People : isRosterEntry(roster'[q])
    <3> DEFINE e == IF m.pin # "keep" THEN [roster[m.person] EXCEPT !.pin = m.pin, !.failures = 0]
                                      ELSE roster[m.person]
    <3>1. e \in RosterEntries /\ \A k \in e.marks : k.vouch \in e.vouches
      <4>1. CASE m.pin = "keep"
        BY <4>1, <1>4
      <4>2. CASE m.pin # "keep"
        <5> DEFINE w == [roster[m.person] EXCEPT !.pin = m.pin, !.failures = 0]
        <5>1. /\ w \in RosterEntries /\ w.vouches = roster[m.person].vouches
              /\ w.marks = roster[m.person].marks
          BY <4>2, <1>3, <1>4, EntryWrites
        <5>2. e = w
          BY <4>2
        <5> HIDE DEF e, w, m
        <5> QED BY <5>1, <5>2, <1>4
      <4> QED BY <4>1, <4>2
    <3>2. roster' = [roster EXCEPT ![m.person] = e]
      BY <2>2
    <3> HIDE DEF e, m
    <3> QED BY <3>1, <3>2, <1>2, RosterTyped
  <2>4. calls' \in [Slots -> Calls]
    BY <2>1, EndsTyped
  <2> QED BY <1>5, <1>6, <1>7, <2>1, <2>3, <2>4 DEF JoinUpdates, TypeOK
<1>8. CASE JoinUpdates(s) /\ ~roster[m.person].on
  <2>1. [calls[s] EXCEPT !.at = "put"] \in Calls
    BY <1>1, CallsAre DEF JoinCalls
  <2>2. calls' \in [Slots -> Calls]
    BY <1>8, <2>1 DEF JoinUpdates, Goes, TypeOK
  <2> QED BY <1>8, <2>2 DEF JoinUpdates, TypeOK
<1>9. CASE JoinPuts(s)
  <2> DEFINE e == FirstEntry(IF m.pin = "keep" THEN NoPin ELSE m.pin)
  <2>1. e \in RosterEntries /\ \A k \in e.marks : k.vouch \in e.vouches
    BY <1>3, EntryTypes
  <2>2. roster' = [roster EXCEPT ![m.person] = e] /\ Ends(s)
        /\ applied' = [applied EXCEPT ![m.challenge] = @ + 1] /\ wrong' = Cleared(m.person)
        /\ replaced' \subseteq People
    BY <1>2, <1>9 DEF JoinPuts, TypeOK
  <2>3. roster' \in [People -> RosterEntries] /\ \A q \in People : isRosterEntry(roster'[q])
    <3> HIDE DEF e, m
    <3> QED BY <2>1, <2>2, <1>2, RosterTyped
  <2>4. calls' \in [Slots -> Calls]
    BY <2>2, EndsTyped
  <2> QED BY <1>5, <1>6, <1>9, <2>2, <2>3, <2>4 DEF JoinPuts, TypeOK
<1> QED BY <1>7, <1>8, <1>9 DEF JoinUpdates

\* What a waiting page may be, and what it becomes.
Guests == [at : {"out", "waiting"}, id : 0 .. MaxRequests, checking : BOOLEAN]

LEMMA GuestTypes ==
    /\ Out \in Guests /\ Out.at = "out" /\ ~Out.checking
    /\ \A id \in Ids : Waiting(id) \in Guests /\ Waiting(id).id \in Ids
    /\ \A g \in Guests, b \in BOOLEAN : LET h == [g EXCEPT !.checking = b]
          IN h \in Guests /\ h.at = g.at /\ h.id = g.id
BY VouchingAssumption DEF Out, Waiting, Guests, Ids

LEMMA GuestTyped ==
    ASSUME TypeOK, NEW d \in Devices, NEW g \in Guests, g.at = "waiting" => g.id \in Ids,
           guest' = guest \/ guest' = [guest EXCEPT ![d] = g]
    PROVE  /\ guest' \in [Devices -> Guests]
           /\ \A x \in Devices : guest'[x].at = "waiting" => guest'[x].id \in Ids
<1>1. guest \in [Devices -> Guests] /\ \A x \in Devices : guest[x].at = "waiting" => guest[x].id \in Ids
  BY DEF TypeOK, Guests
<1>2. CASE guest' = guest
  BY <1>1, <1>2
<1>3. CASE guest' = [guest EXCEPT ![d] = g]
  <2>1. \A x \in Devices : guest'[x] = g \/ guest'[x] = guest[x]
    BY <1>1, <1>3
  <2> QED BY <1>1, <1>3, <2>1
<1> QED BY <1>2, <1>3

LEMMA RejoinTyped ==
    ASSUME Inv, NEW d \in Devices, NEW p \in People, Rejoin(d, p)
    PROVE  TypeOK'
<1> DEFINE es == dropStale(entries)
           answer == request(es, d, p)
           id == IF answer = "again" THEN CHOOSE i \in requested(es, d, p) : TRUE ELSE nextId
<1> USE DEF Inv
<1>1. es \in [Ids -> Requests]
  BY StaleTypes DEF TypeOK
<1>2. answer \in {"again", "new", "too-many-pending"}
      /\ (answer = "again" => requested(es, d, p) # {})
  BY DEF request
<1>3. answer = "new" => unusedIds # {}
  BY DEF Rejoin, askForVouch
<1>4. answer # "too-many-pending" => id \in Ids
  <2>1. requested(es, d, p) \subseteq Ids
    BY DEF requested, pendingIds
  <2>2. unusedIds \subseteq Ids
    BY DEF unusedIds
  <2> QED BY <1>2, <1>3, <2>1, <2>2, NextIdIsUnused
<1>5. entries' \in [Ids -> Requests]
  <2>1. [Unused EXCEPT !.status = "pending", !.device = d, !.person = p] \in Requests
    BY RequestTypes DEF Requests
  <2>2. entries' = IF answer = "new" THEN
            [es EXCEPT ![id] = [Unused EXCEPT !.status = "pending", !.device = d, !.person = p]]
            ELSE es
    BY DEF Rejoin, askForVouch
  <2> HIDE DEF es, answer, id
  <2> QED BY <1>1, <1>4, <2>1, <2>2
<1>6. guest' = IF requestVouch(answer) = 201 THEN [guest EXCEPT ![d] = Waiting(id)] ELSE guest
  BY DEF Rejoin, askForVouch
<1>7. guest' = guest \/ (id \in Ids /\ guest' = [guest EXCEPT ![d] = Waiting(id)])
  BY <1>4, <1>6 DEF requestVouch
<1>8. guest' \in [Devices -> Guests] /\ \A x \in Devices : guest'[x].at = "waiting" => guest'[x].id \in Ids
  <2>1. CASE guest' = guest
    BY <2>1 DEF TypeOK, Guests
  <2>2. CASE id \in Ids /\ guest' = [guest EXCEPT ![d] = Waiting(id)]
    <3>1. Waiting(id) \in Guests /\ Waiting(id).id \in Ids
      BY <2>2, GuestTypes
    <3> HIDE DEF id
    <3> QED BY <2>2, <3>1, GuestTyped
  <2> QED BY <1>7, <2>1, <2>2
<1>9. begun' \in 0 .. MaxCalls
  BY BegunTyped DEF Rejoin
<1> QED BY <1>5, <1>8, <1>9 DEF Rejoin, TypeOK, Guests

LEMMA WaitTyped ==
    ASSUME Inv, \/ \E id \in Ids : Ages(id) \/ reject(id)
                \/ \E d \in Devices : PollVouch(d) \/ Leaves(d)
    PROVE  TypeOK'
<1> USE DEF Inv
<1>1. ASSUME NEW id \in Ids, Ages(id) PROVE TypeOK'
  <2>1. [entries[id] EXCEPT !.old = TRUE] \in Requests
    <3>1. entries[id] \in Requests
      BY DEF TypeOK
    <3> QED BY ONLY <3>1 DEF Requests
  <2>2. entries' = [entries EXCEPT ![id] = [entries[id] EXCEPT !.old = TRUE]]
    BY <1>1 DEF Ages
  <2>3. entries' \in [Ids -> Requests]
    BY <2>1, <2>2 DEF TypeOK
  <2> QED BY <1>1, <2>3 DEF Ages, TypeOK
<1>2. ASSUME NEW id \in Ids, reject(id) PROVE TypeOK'
  <2>1. dropStale(entries) \in [Ids -> Requests]
    BY StaleTypes DEF TypeOK
  <2>2. entries' = [dropStale(entries) EXCEPT ![id].status = "rejected"]
    BY <1>2 DEF reject
  <2>3. [dropStale(entries)[id] EXCEPT !.status = "rejected"] \in Requests
    BY <2>1 DEF Requests
  <2>4. entries' = [dropStale(entries) EXCEPT ![id] =
                       [dropStale(entries)[id] EXCEPT !.status = "rejected"]]
    BY <2>2
  <2>5. entries' \in [Ids -> Requests]
    BY <2>1, <2>3, <2>4
  <2> QED BY <1>2, <2>5 DEF reject, TypeOK
<1>3. ASSUME NEW d \in Devices, PollVouch(d) PROVE TypeOK'
  <2> DEFINE es == dropStale(entries)
             i == guest[d].id
  <2>1. es \in [Ids -> Requests] /\ \A id \in Ids : es[id] = entries[id] \/ es[id] = Forgotten
    BY StaleTypes DEF TypeOK
  <2>2. i \in Ids
    BY <1>3 DEF PollVouch, TypeOK
  <2>3. es[i].status = "vouched" => es[i].vouch \in Numbers
    <3>1. es[i].status = "vouched" => es[i] = entries[i]
      BY <2>1, <2>2, RequestTypes
    <3>2. entries[i].status = "vouched" => entries[i].vouch \in 1 .. Len(signed)
      BY <2>2 DEF RememberedFirst, Findable
    <3>3. Len(signed) \in Nat /\ Len(signed) <= MaxSigned
      BY DEF TypeOK
    <3> QED BY <3>1, <3>2, <3>3, VouchingAssumption DEF Numbers
  <2>4. status(es, i) = "vouched" => es[i].status = "vouched"
    BY DEF status
  <2>5. /\ entries' = es
        /\ guest' = guest \/ guest' = [guest EXCEPT ![d] = Out]
        /\ holds' = IF status(es, i) = "vouched" THEN [holds EXCEPT ![d] = @ \cup {es[i].vouch}]
                                                 ELSE holds
    BY <1>3 DEF PollVouch
  <2>6. entries' \in [Ids -> Requests]
    BY <2>1, <2>5
  <2>7. guest' \in [Devices -> Guests] /\ \A x \in Devices : guest'[x].at = "waiting" => guest'[x].id \in Ids
    <3> HIDE DEF es, i
    <3> QED BY <2>5, GuestTypes, GuestTyped
  <2>8. holds' \in [Devices -> SUBSET Numbers]
    <3> HIDE DEF es, i
    <3> QED BY <2>3, <2>4, <2>5 DEF TypeOK
  <2> QED BY <1>3, <2>6, <2>7, <2>8 DEF PollVouch, TypeOK, Guests
<1>4. ASSUME NEW d \in Devices, Leaves(d) PROVE TypeOK'
  <2>1. guest' \in [Devices -> Guests] /\ \A x \in Devices : guest'[x].at = "waiting" => guest'[x].id \in Ids
    BY <1>4, GuestTypes, GuestTyped DEF Leaves
  <2> QED BY <1>4, <2>1 DEF Leaves, TypeOK, Guests
<1> QED BY <1>1, <1>2, <1>3, <1>4

\* A handler that begins.
LEMMA BeginTyped ==
    ASSUME TypeOK, NEW s \in Slots, NEW c \in Calls, Begin(s, c)
    PROVE  /\ calls' \in [Slots -> Calls] /\ calls'[s] = c
           /\ \A r \in Slots \ {s} : calls'[r] = calls[r]
           /\ begun' \in 0 .. MaxCalls
BY CallTyped, BegunTyped DEF Begin, free

\* What waits names a person and a device.
LEMMA PendingTypes ==
    ASSUME TypeOK, NEW id, pendingEntry(id)
    PROVE  /\ id \in Ids /\ entries[id].status = "pending"
           /\ entries[id].device \in Devices /\ entries[id].person \in People
<1>1. id \in Ids /\ dropStale(entries)[id].status = "pending"
  BY DEF pendingEntry, pendingIds
<1>2. dropStale(entries)[id] = entries[id]
  BY <1>1, StaleTypes, RequestTypes DEF TypeOK
<1>3. entries[id] \in Requests
  BY <1>1 DEF TypeOK
<1> QED BY <1>1, <1>2, <1>3 DEF Requests

LEMMA AskedTyped ==
    ASSUME Inv,
           \/ \E s \in Slots, id \in Ids : confirm(s, id)
           \/ \E s \in Slots, d \in Devices, pin \in PinValues : submitPin(s, d, pin)
    PROVE  TypeOK'
<1> USE DEF Inv
<1>0. dropStale(entries) \in [Ids -> Requests]
  BY StaleTypes DEF TypeOK
<1>1. ASSUME NEW s \in Slots, NEW id \in Ids, confirm(s, id) PROVE TypeOK'
  <2> DEFINE c == [op |-> "confirm", at |-> "sign", id |-> id, device |-> entries[id].device,
                   person |-> entries[id].person]
  <2>1. c \in Calls
    BY <1>1, PendingTypes, CallsAre DEF confirm, ConfirmCalls
  <2>2. Begin(s, c)
    BY <1>1 DEF confirm
  <2>3. calls' \in [Slots -> Calls] /\ begun' \in 0 .. MaxCalls
    <3> HIDE DEF c
    <3> QED BY <2>1, <2>2, BeginTyped
  <2> QED BY <1>0, <1>1, <2>3 DEF confirm, TypeOK
<1>2. ASSUME NEW s \in Slots, NEW d \in Devices, NEW pin \in PinValues, submitPin(s, d, pin)
      PROVE  TypeOK'
  <2> DEFINE id == guest[d].id
             c == [op |-> "pin", at |-> "count", id |-> id, device |-> entries[id].device,
                   person |-> entries[id].person, pin |-> pin, stored |-> NoPin]
             g == [guest[d] EXCEPT !.checking = TRUE]
  <2>1. c \in Calls
    <3>1. pendingEntry(id)
      BY <1>2 DEF submitPin, enterPin
    <3>2. id \in Ids /\ entries[id].device \in Devices /\ entries[id].person \in People
      BY <3>1, PendingTypes
    <3> QED BY <3>2, CallsAre DEF PinCalls
  <2>2. Begin(s, c) /\ entries' = dropStale(entries)
    BY <1>2 DEF submitPin, enterPin
  <2>3. calls' \in [Slots -> Calls] /\ begun' \in 0 .. MaxCalls
    <3> HIDE DEF c
    <3> QED BY <2>1, <2>2, BeginTyped
  <2>4. g \in Guests /\ g.at = guest[d].at /\ g.id = id
    <3>1. guest[d] \in Guests
      BY DEF TypeOK, Guests
    <3> QED BY <3>1, GuestTypes
  <2>5. guest' = [guest EXCEPT ![d] = g] /\ guest[d].at = "waiting"
    BY <1>2 DEF submitPin
  <2>6. id \in Ids
    BY <2>5 DEF TypeOK
  <2>7. /\ guest' \in [Devices -> Guests]
        /\ \A x \in Devices : guest'[x].at = "waiting" => guest'[x].id \in Ids
    <3> HIDE DEF g, id
    <3> QED BY <2>4, <2>5, <2>6, GuestTyped
  <2> QED BY <1>0, <1>2, <2>2, <2>3, <2>7 DEF submitPin, TypeOK, Guests
<1> QED BY <1>1, <1>2

LEMMA OperatorTyped ==
    ASSUME Inv,
           \/ \E s \in Slots, d \in Devices, p \in People, old \in PinValues,
                 new \in ChosenPins \cup {NoPin} : saveWithOldPin(s, d, p, old, new)
           \/ \E s \in Slots, p \in People, pin \in ChosenPins \cup {NoPin} : setPin(s, p, pin)
           \/ \E p \in People : unlockPin(p)
           \/ \E s \in Slots, p \in People, v \in 1 .. Len(signed) : revokeVouch(s, p, v)
    PROVE  TypeOK'
<1> USE DEF Inv
<1>1. ASSUME NEW s \in Slots, NEW d \in Devices, NEW p \in People, NEW old \in PinValues,
             NEW new \in ChosenPins \cup {NoPin}, saveWithOldPin(s, d, p, old, new)
      PROVE  TypeOK'
  <2> DEFINE c == [op |-> "change", at |-> "count", person |-> p, pin |-> old,
                   stored |-> NoPin, new |-> new]
  <2>1. c \in Calls
    BY CallsAre DEF ChangeCalls
  <2>2. Begin(s, c)
    BY <1>1 DEF saveWithOldPin, changePin
  <2>3. calls' \in [Slots -> Calls] /\ begun' \in 0 .. MaxCalls
    <3> HIDE DEF c
    <3> QED BY <2>1, <2>2, BeginTyped
  <2> QED BY <1>1, <2>3 DEF saveWithOldPin, TypeOK
<1>2. ASSUME NEW s \in Slots, NEW p \in People, NEW pin \in ChosenPins \cup {NoPin}, setPin(s, p, pin)
      PROVE  TypeOK'
  <2> DEFINE c == [op |-> "set", at |-> "save", person |-> p, new |-> pin]
  <2>1. c \in Calls
    BY CallsAre DEF SetCalls
  <2>2. Begin(s, c)
    BY <1>2 DEF setPin
  <2>3. calls' \in [Slots -> Calls] /\ begun' \in 0 .. MaxCalls
    <3> HIDE DEF c
    <3> QED BY <2>1, <2>2, BeginTyped
  <2> QED BY <1>2, <2>3 DEF setPin, TypeOK
<1>3. ASSUME NEW p \in People, unlockPin(p) PROVE TypeOK'
  <2> DEFINE e == [roster[p] EXCEPT !.failures = 0]
  <2>1. e \in RosterEntries /\ \A m \in e.marks : m.vouch \in e.vouches
    BY FailuresTyped, VouchingAssumption
  <2>2. roster' = [roster EXCEPT ![p] = e] /\ wrong' = Cleared(p)
    BY <1>3 DEF unlockPin
  <2>3. roster' \in [People -> RosterEntries] /\ \A q \in People : isRosterEntry(roster'[q])
    <3> HIDE DEF e
    <3> QED BY <2>1, <2>2, RosterTyped
  <2>4. wrong' \in [People -> Int] /\ begun' \in 0 .. MaxCalls
    BY <1>3, <2>2, ClearedTyped, BegunTyped DEF unlockPin
  <2> QED BY <1>3, <2>3, <2>4 DEF unlockPin, TypeOK
<1>4. ASSUME NEW s \in Slots, NEW p \in People, NEW v \in 1 .. Len(signed), revokeVouch(s, p, v)
      PROVE  TypeOK'
  <2> DEFINE c == [op |-> "revoke", at |-> "deliver", person |-> p, vouch |-> v,
                   revocation |-> Len(revoked')]
  <2>1. v \in Numbers
    BY VouchingAssumption DEF TypeOK, Numbers
  <2>2. revoked' \in Seq(Numbers) /\ Len(revoked') = Len(revoked) + 1 /\ Len(revoked) \in Nat
    BY <1>4, <2>1, AppendProperties DEF revokeVouch, TypeOK
  <2>3. Len(revoked') \in Numbers /\ Len(revoked') <= MaxSigned
    BY <1>4, <2>2, VouchingAssumption DEF revokeVouch, Numbers
  <2>4. c \in Calls
    BY <2>1, <2>3, CallsAre DEF RevokeCalls
  <2>5. Begin(s, c)
    BY <1>4 DEF revokeVouch
  <2>6. calls' \in [Slots -> Calls] /\ begun' \in 0 .. MaxCalls
    <3> HIDE DEF c
    <3> QED BY <2>4, <2>5, BeginTyped
  <2> QED BY <1>4, <2>2, <2>3, <2>6 DEF revokeVouch, TypeOK
<1> QED BY <1>1, <1>2, <1>3, <1>4

LEMMA PinTyped ==
    ASSUME Inv, NEW s \in Slots, checkPin(s) \/ pinMatches(s) \/ pinClears(s)
    PROVE  TypeOK'
<1> DEFINE p == calls[s].person
<1> USE DEF Inv
<1>1. calls[s] \in PinCalls \cup ChangeCalls
  BY Stages DEF checkPin, pinMatches, pinClears, At, TypeOK
<1>2. p \in People /\ calls[s] \in Calls
  BY <1>1, CallsAre DEF PinCalls, ChangeCalls
<1>3. CASE checkPin(s)
  <2>1. CASE roster[p].pin # NoPin /\ ~isLocked(roster[p])
    <3> DEFINE n == roster[p].failures + 1
               e == [roster[p] EXCEPT !.failures = n]
               c == [calls[s] EXCEPT !.at = "compare", !.stored = roster[p].pin]
    <3>1. n \in 0 .. MAX_PIN_FAILURES
      <4>1. roster[p].failures \in 0 .. MAX_PIN_FAILURES
        BY <1>2, MarksInVouches DEF RosterEntries
      <4>2. ~(roster[p].failures >= MAX_PIN_FAILURES)
        BY <2>1 DEF isLocked
      <4> DEFINE k == roster[p].failures
      <4> HIDE DEF k
      <4>3. k \in 0 .. MAX_PIN_FAILURES /\ ~(k >= MAX_PIN_FAILURES)
        BY <4>1, <4>2 DEF k
      <4>4. k + 1 \in 0 .. MAX_PIN_FAILURES
        BY ONLY <4>3, VouchingAssumption
      <4> QED BY <4>4 DEF k
    <3>2. e \in RosterEntries /\ \A m \in e.marks : m.vouch \in e.vouches
      BY <1>2, <3>1, FailuresTyped
    <3>3. roster' = [roster EXCEPT ![p] = e] /\ calls' = [calls EXCEPT ![s] = c]
      BY <1>3, <2>1 DEF checkPin
    <3>4. roster' \in [People -> RosterEntries] /\ \A q \in People : isRosterEntry(roster'[q])
      <4> HIDE DEF e, p
      <4> QED BY <1>2, <3>2, <3>3, RosterTyped
    <3>5. c \in Calls
      <4>1. roster[p].pin \in PinValues \cup {NoPin}
        BY <1>2, MarksInVouches DEF RosterEntries
      <4>2. c \in PinCalls \cup ChangeCalls
        BY <1>1, <4>1 DEF PinCalls, ChangeCalls
      <4> QED BY <4>2, CallsAre
    <3>6. calls' \in [Slots -> Calls]
      <4> HIDE DEF c
      <4> QED BY <3>3, <3>5, CallTyped
    <3> QED BY <1>3, <2>1, <3>4, <3>6 DEF checkPin, TypeOK
  <2>2. CASE ~(roster[p].pin # NoPin /\ ~isLocked(roster[p]))
    <3>1. Ends(s) /\ Answer(s, Waiting(calls[s].id)) /\ UNCHANGED roster
      BY <1>3, <2>2 DEF checkPin
    <3> QED BY <1>3, <3>1, EndsTyped, AnswerTyped DEF checkPin, TypeOK
  <2> QED BY <2>1, <2>2
<1>4. CASE pinMatches(s)
  <2>1. CASE calls[s].pin = calls[s].stored
    <3>1. [calls[s] EXCEPT !.at = "clear"] \in Calls
      BY <1>1, CallsAre DEF PinCalls, ChangeCalls
    <3>2. calls' \in [Slots -> Calls]
      BY <1>4, <2>1, <3>1, CallTyped DEF pinMatches, Goes
    <3> QED BY <1>4, <2>1, <3>2 DEF pinMatches, TypeOK
  <2>2. CASE calls[s].pin # calls[s].stored
    <3>1. /\ Ends(s) /\ Answer(s, Waiting(calls[s].id))
          /\ wrong' = wrong \/ wrong' = [wrong EXCEPT ![p] = @ + 1]
      BY <1>4, <2>2 DEF pinMatches
    <3>2. wrong' \in [People -> Int]
      BY <1>2, <3>1 DEF TypeOK
    <3> QED BY <1>4, <3>1, <3>2, EndsTyped, AnswerTyped DEF pinMatches, TypeOK
  <2> QED BY <2>1, <2>2
<1>5. CASE pinClears(s)
  <2> DEFINE e == [roster[p] EXCEPT !.failures = 0]
             c == [calls[s] EXCEPT !.at = IF calls[s].op = "pin" THEN "sign" ELSE "save"]
  <2>1. e \in RosterEntries /\ \A m \in e.marks : m.vouch \in e.vouches
    BY <1>2, FailuresTyped, VouchingAssumption
  <2>2. roster' = [roster EXCEPT ![p] = e] /\ wrong' = Cleared(p) /\ calls' = [calls EXCEPT ![s] = c]
    BY <1>5 DEF pinClears, Goes
  <2>3. roster' \in [People -> RosterEntries] /\ \A q \in People : isRosterEntry(roster'[q])
    <3> HIDE DEF e, p
    <3> QED BY <1>2, <2>1, <2>2, RosterTyped
  <2>4. c \in Calls
    BY <1>1, CallsAre DEF PinCalls, ChangeCalls
  <2>5. calls' \in [Slots -> Calls] /\ wrong' \in [People -> Int]
    <3> HIDE DEF c
    <3> QED BY <1>2, <2>2, <2>4, CallTyped, ClearedTyped
  <2> QED BY <1>5, <2>3, <2>5 DEF pinClears, TypeOK
<1> QED BY <1>3, <1>4, <1>5

LEMMA SavesTyped ==
    ASSUME Inv, NEW s \in Slots, savePin(s)
    PROVE  TypeOK'
<1> DEFINE p == calls[s].person
           e == [roster[p] EXCEPT !.pin = calls[s].new, !.failures = 0]
<1> USE DEF Inv
<1>1. calls[s] \in ChangeCalls \cup SetCalls
  BY Stages DEF savePin, At, TypeOK
<1>2. p \in People /\ calls[s].new \in PinValues \cup {NoPin}
  BY <1>1, VouchingAssumption DEF ChangeCalls, SetCalls
<1>3. e \in RosterEntries /\ \A m \in e.marks : m.vouch \in e.vouches
  <2>1. roster[p] \in RosterEntries /\ \A m \in roster[p].marks : m.vouch \in roster[p].vouches
    BY <1>2, MarksInVouches
  <2>2. e \in RosterEntries /\ e.vouches = roster[p].vouches /\ e.marks = roster[p].marks
    BY <1>2, <2>1, EntryWrites
  <2> QED BY <2>1, <2>2
<1>4. roster' = [roster EXCEPT ![p] = e] /\ wrong' = Cleared(p) /\ Ends(s)
  BY DEF savePin
<1>5. /\ roster' \in [People -> RosterEntries] /\ \A q \in People : isRosterEntry(roster'[q])
  <2> HIDE DEF e, p
  <2> QED BY <1>2, <1>3, <1>4, RosterTyped
<1>6. calls' \in [Slots -> Calls] /\ wrong' \in [People -> Int]
  BY <1>2, <1>4, EndsTyped, ClearedTyped
<1> QED BY <1>5, <1>6 DEF savePin, TypeOK

LEMMA SignsTyped ==
    ASSUME Inv, NEW s \in Slots, vouchSigns(s)
    PROVE  /\ TypeOK'
           /\ calls'[s].vouch = Len(signed) + 1 /\ calls'[s].person = calls[s].person
           /\ signed'[Len(signed) + 1].person = calls[s].person
           /\ Len(signed) \in Nat /\ Len(signed') = Len(signed) + 1
           /\ \A v \in 1 .. Len(signed) : signed'[v] = signed[v]
<1> DEFINE r == [device |-> calls[s].device, person |-> calls[s].person, method |-> calls[s].op,
                 id |-> calls[s].id]
           R == [device : Devices, person : People, method : {"pin", "confirm"}, id : Ids]
           c == [op |-> calls[s].op, at |-> "record", id |-> calls[s].id,
                 device |-> calls[s].device, person |-> calls[s].person, vouch |-> Len(signed')]
<1> USE DEF Inv
<1>1. calls[s] \in PinCalls \cup ConfirmCalls
  BY Stages DEF vouchSigns, At, TypeOK
<1>2. r \in R
  BY <1>1 DEF PinCalls, ConfirmCalls
<1>3. signed \in Seq(R) /\ Len(signed) \in Nat /\ Len(signed) < MaxSigned
  BY DEF TypeOK, vouchSigns
<1>4. signed' = Append(signed, r) /\ calls' = [calls EXCEPT ![s] = c]
  BY DEF vouchSigns
<1>5. /\ signed' \in Seq(R) /\ Len(signed') = Len(signed) + 1
      /\ \A v \in 1 .. Len(signed) : signed'[v] = signed[v]
      /\ signed'[Len(signed) + 1] = r
  <2> HIDE DEF R, r
  <2> QED BY <1>2, <1>3, <1>4, AppendProperties
<1>6. Len(signed') \in Numbers /\ Len(signed') <= MaxSigned
  BY <1>3, <1>5, VouchingAssumption DEF Numbers
<1>7. c \in Calls
  BY <1>1, <1>6, CallsAre DEF PinCalls, ConfirmCalls, RecordCalls
<1>8. calls' \in [Slots -> Calls] /\ calls'[s] = c
  <2> HIDE DEF c
  <2> QED BY <1>4, <1>7, CallTyped
<1>9. TypeOK'
  BY <1>5, <1>6, <1>8 DEF vouchSigns, TypeOK
<1> QED BY <1>3, <1>5, <1>8, <1>9

\* The vouch goes on the roster and to the request, whatever became of that.
LEMMA VouchForTyped ==
    ASSUME Inv, NEW s \in Slots, vouchFor(s)
    PROVE  TypeOK'
<1> DEFINE p == calls[s].person
           v == calls[s].vouch
           id == calls[s].id
           d == calls[s].device
           e == [roster[p] EXCEPT !.vouches = @ \cup {v}]
           w == [entries[id] EXCEPT !.status = "vouched", !.vouch = v]
<1> USE DEF Inv
<1>1. calls[s] \in RecordCalls
  BY Stages DEF vouchFor, At, TypeOK
<1>2. p \in People /\ v \in Numbers /\ id \in Ids /\ d \in Devices
  BY <1>1 DEF RecordCalls
<1>3. e \in RosterEntries /\ \A m \in e.marks : m.vouch \in e.vouches
  <2> DEFINE r == roster[p]
  <2>1. r \in RosterEntries /\ \A m \in r.marks : m.vouch \in r.vouches
    BY <1>2, MarksInVouches
  <2> HIDE DEF r, v
  <2>2. LET x == [r EXCEPT !.vouches = r.vouches \cup {v}]
        IN x \in RosterEntries /\ x.vouches = r.vouches \cup {v} /\ x.marks = r.marks
    BY ONLY <1>2, <2>1, VouchAdded
  <2> USE DEF r
  <2> QED BY <2>1, <2>2
<1>4. roster' = [roster EXCEPT ![p] = e] /\ Ends(s)
  BY DEF vouchFor
<1>5. roster' \in [People -> RosterEntries] /\ \A q \in People : isRosterEntry(roster'[q])
  <2> HIDE DEF e, p
  <2> QED BY <1>2, <1>3, <1>4, RosterTyped
<1>6. entries' \in [Ids -> Requests]
  <2>1. entries \in [Ids -> Requests] /\ entries[id] \in Requests /\ v \in 0 .. MaxSigned
    BY <1>2, VouchingAssumption DEF TypeOK, Numbers
  <2>2. w \in Requests
    BY <2>1 DEF Requests
  <2>3. entries' = entries \/ entries' = [entries EXCEPT ![id] = w]
    BY DEF vouchFor, Vouched
  <2> HIDE DEF w, id
  <2> QED BY <2>1, <2>2, <2>3
<1>7. /\ guest' = guest \/ guest' = [guest EXCEPT ![d] = Out]
      /\ holds' = holds \/ holds' = [holds EXCEPT ![d] = @ \cup {v}]
  BY DEF vouchFor, HandsOver
<1>8. /\ guest' \in [Devices -> Guests]
      /\ \A x \in Devices : guest'[x].at = "waiting" => guest'[x].id \in Ids
  BY <1>2, <1>7, GuestTypes, GuestTyped
<1>9. holds' \in [Devices -> SUBSET Numbers]
  <2>1. holds \in [Devices -> SUBSET Numbers]
    BY DEF TypeOK
  <2> HIDE DEF d, v
  <2> QED BY ONLY <1>2, <1>7, <2>1
<1>10. calls' \in [Slots -> Calls]
  BY <1>4, EndsTyped
<1> QED BY <1>5, <1>6, <1>8, <1>9, <1>10 DEF vouchFor, TypeOK, Guests

\* Withdrawing: who delivers and what is marked.
LEMMA RevokeTyped ==
    ASSUME Inv, NEW s \in Slots, listDeviceRevocation(s) \/ revokeMarks(s)
    PROVE  TypeOK'
<1> DEFINE p == calls[s].person
           v == calls[s].vouch
           r == calls[s].revocation
<1> USE DEF Inv
<1>1. calls[s] \in RevokeCalls
  BY Stages DEF listDeviceRevocation, revokeMarks, At, TypeOK
<1>2. p \in People /\ v \in Numbers /\ r \in Numbers
  BY <1>1 DEF RevokeCalls
<1>3. CASE listDeviceRevocation(s)
  <2>1. [calls[s] EXCEPT !.at = "mark"] \in Calls
    BY <1>1, CallsAre DEF RevokeCalls
  <2>2. calls' \in [Slots -> Calls]
    BY <1>3, <2>1, CallTyped DEF listDeviceRevocation, Goes
  <2>3. PICK got \in SUBSET Recordings : listed' = [listed EXCEPT ![r] = [done |-> TRUE, on |-> got]]
    BY <1>3 DEF listDeviceRevocation
  <2>4. listed' \in [Numbers -> [done : BOOLEAN, on : SUBSET Recordings]]
    BY <2>3 DEF TypeOK
  <2> QED BY <1>3, <2>2, <2>4 DEF listDeviceRevocation, TypeOK
<1>4. CASE revokeMarks(s)
  <2> DEFINE M == {m \in roster[p].marks : m.vouch # v} \cup {[vouch |-> v, revocation |-> r]}
             e == [roster[p] EXCEPT !.marks = M]
  <2>1. roster[p] \in RosterEntries /\ \A m \in roster[p].marks : m.vouch \in roster[p].vouches
    BY <1>2, MarksInVouches
  <2>2. M \in SUBSET [vouch : Numbers, revocation : Numbers]
    BY <1>2, <2>1 DEF RosterEntries
  <2>3. e \in RosterEntries /\ e.marks = M /\ e.vouches = roster[p].vouches
    <3> HIDE DEF M
    <3> QED BY <2>1, <2>2, EntryWrites
  <2>4. calls' \in [Slots -> Calls]
    BY <1>4, EndsTyped DEF revokeMarks
  <2>5. CASE v \in roster[p].vouches
    <3>1. roster' = [roster EXCEPT ![p] = e]
      BY <1>4, <2>5 DEF revokeMarks
    <3>2. \A m \in e.marks : m.vouch \in e.vouches
      BY <2>1, <2>3, <2>5
    <3>3. roster' \in [People -> RosterEntries] /\ \A q \in People : isRosterEntry(roster'[q])
      <4> HIDE DEF e, p
      <4> QED BY <1>2, <2>3, <3>1, <3>2, RosterTyped
    <3> QED BY <1>4, <2>4, <3>3 DEF revokeMarks, TypeOK
  <2>6. CASE v \notin roster[p].vouches
    <3>1. roster' = roster
      BY <1>4, <2>6 DEF revokeMarks
    <3> QED BY <1>4, <2>4, <3>1 DEF revokeMarks, TypeOK
  <2> QED BY <2>5, <2>6
<1> QED BY <1>3, <1>4

LEMMA BreaksTyped ==
    ASSUME Inv, (\E s \in Slots : Throws(s)) \/ Restart
    PROVE  TypeOK'
<1> USE DEF Inv
<1>1. ASSUME NEW s \in Slots, Throws(s) PROVE TypeOK'
  <2>1. calls' \in [Slots -> Calls]
    BY <1>1, EndsTyped DEF Throws
  <2>2. Answer(s, Waiting(calls[s].id))
    BY <1>1 DEF Throws
  <2> QED BY <1>1, <2>1, <2>2, AnswerTyped DEF Throws, TypeOK
<1>2. CASE Restart
  <2>1. roster' = roster
    BY <1>2 DEF Restart, TypeOK
  <2>2. calls' \in [Slots -> Calls]
    BY <1>2, CallsAre DEF Restart
  <2>3. entries' \in [Ids -> Requests]
    BY <1>2, RequestTypes DEF Restart
  <2>4. /\ guest' \in [Devices -> Guests]
        /\ \A d \in Devices : guest'[d].at = guest[d].at /\ guest'[d].id = guest[d].id
    <3>1. guest' = [d \in Devices |-> [guest[d] EXCEPT !.checking = FALSE]]
      BY <1>2 DEF Restart
    <3>2. \A d \in Devices : guest[d] \in Guests
      BY DEF TypeOK, Guests
    <3> QED BY <3>1, <3>2, GuestTypes
  <2>5. \A d \in Devices : guest'[d].at = "waiting" => guest'[d].id \in Ids
    BY <2>4 DEF TypeOK
  <2>6. begun' \in 0 .. MaxCalls /\ fresh' \subseteq 1 .. MaxCalls
    BY <1>2, BegunTyped DEF Restart
  <2> QED BY <1>2, <2>1, <2>2, <2>3, <2>4, <2>5, <2>6 DEF Restart, TypeOK, Guests
<1> QED BY <1>1, <1>2

LEMMA TypeStep == Inv /\ Next => TypeOK'
<1> SUFFICES ASSUME Inv, Next PROVE TypeOK'
  OBVIOUS
<1>1. ASSUME NEW s \in Slots, HostStep(s) PROVE TypeOK'
  BY <1>1, JoinUpdatesTyped, PinTyped, SavesTyped, SignsTyped, VouchForTyped, RevokeTyped
     DEF HostStep
<1> QED BY <1>1, JoinTyped, RejoinTyped, WaitTyped, AskedTyped, OperatorTyped, BreaksTyped
        DEF Next

-----------------------------------------------------------------------------
(***************************************************************************)
(* What a step may do to each part of the state.                           *)
(***************************************************************************)
Marked(m) == /\ m.revocation \in 1 .. Len(revoked)
             /\ revoked[m.revocation] = m.vouch /\ listed[m.revocation].done

\* An entry is never taken off the roster; only a first join that raced another
\* forgets vouches; only a delivered revocation becomes a mark.
EntryMoves(q) ==
    /\ roster[q].on => roster'[q].on
    /\ q \notin replaced' => roster[q].vouches \subseteq roster'[q].vouches
    /\ ~roster'[q].on => roster'[q].vouches = {}
    /\ \A m \in roster'[q].marks : m \in roster[q].marks \/ Marked(m)
    /\ q \in replaced => q \in replaced'

LEMMA EntryStays ==
    ASSUME Inv, NEW q \in People, roster'[q].on = roster[q].on,
           roster'[q].vouches = roster[q].vouches, roster'[q].marks = roster[q].marks,
           replaced' = replaced
    PROVE  EntryMoves(q)
BY DEF Inv, OnRoster, EntryMoves

LEMMA FailuresMove ==
    ASSUME Inv, NEW p \in People, NEW n \in 0 .. MAX_PIN_FAILURES, NEW q \in People,
           roster' = [roster EXCEPT ![p].failures = n], replaced' = replaced
    PROVE  /\ EntryMoves(q)
           /\ roster'[q].failures = IF q = p THEN n ELSE roster[q].failures
<1> DEFINE e == [roster[p] EXCEPT !.failures = n]
<1>1. /\ e.failures = n /\ e.on = roster[p].on
      /\ e.vouches = roster[p].vouches /\ e.marks = roster[p].marks
  BY FailuresTyped DEF Inv
<1>2. roster' = [roster EXCEPT ![p] = e]
  OBVIOUS
<1>3. roster'[q] = IF q = p THEN e ELSE roster[q]
  <2> HIDE DEF e
  <2> QED BY <1>2 DEF Inv, TypeOK
<1>4. /\ roster'[q].on = roster[q].on /\ roster'[q].vouches = roster[q].vouches
      /\ roster'[q].marks = roster[q].marks
      /\ roster'[q].failures = IF q = p THEN n ELSE roster[q].failures
  <2> HIDE DEF e
  <2> QED BY <1>1, <1>3
<1> QED BY <1>4, EntryStays

\* A new PIN, and no failures.
LEMMA PinMoves ==
    ASSUME Inv, NEW p \in People, NEW pin \in PinValues \cup {NoPin}, NEW q \in People,
           roster' = [roster EXCEPT ![p] = [roster[p] EXCEPT !.pin = pin, !.failures = 0]],
           replaced' = replaced
    PROVE  /\ EntryMoves(q)
           /\ roster'[q].failures = IF q = p THEN 0 ELSE roster[q].failures
<1> DEFINE e == [roster[p] EXCEPT !.pin = pin, !.failures = 0]
<1>1. roster[p] \in RosterEntries /\ \A m \in roster[p].marks : m.vouch \in roster[p].vouches
  BY MarksInVouches DEF Inv
<1>2. /\ e.failures = 0 /\ e.on = roster[p].on
      /\ e.vouches = roster[p].vouches /\ e.marks = roster[p].marks
  BY <1>1, EntryWrites
<1>3. roster'[q] = IF q = p THEN e ELSE roster[q]
  <2> HIDE DEF e
  <2> QED BY DEF Inv, TypeOK, e
<1>4. /\ roster'[q].on = roster[q].on /\ roster'[q].vouches = roster[q].vouches
      /\ roster'[q].marks = roster[q].marks
      /\ roster'[q].failures = IF q = p THEN 0 ELSE roster[q].failures
  <2> HIDE DEF e
  <2> QED BY <1>2, <1>3
<1> QED BY <1>4, EntryStays

LEMMA SameRoster ==
    ASSUME Inv, NEW q \in People, roster' = roster, replaced' = replaced
    PROVE  EntryMoves(q) /\ roster'[q].failures = roster[q].failures
BY EntryStays

\* Joining, for the entries and for the count of failures.
LEMMA JoinMoves ==
    ASSUME Inv, NEW s \in Slots, JoinUpdates(s) \/ JoinPuts(s), NEW q \in People
    PROVE  /\ EntryMoves(q)
           /\ \/ wrong'[q] = wrong[q] /\ roster'[q].failures = roster[q].failures
              \/ wrong'[q] = -underWay(q) /\ roster'[q].failures = 0
<1> DEFINE m == calls[s].join
           p == m.person
<1> USE DEF Inv
<1>1. calls[s] \in JoinCalls /\ m \in Joins
  BY Stages DEF JoinUpdates, JoinPuts, At, TypeOK, JoinCalls
<1>2. p \in People /\ m.pin \in ChosenPins \cup {NoPin, "keep"}
  BY <1>1 DEF Joins
<1>3. (m.pin # "keep") => m.pin \in PinValues \cup {NoPin}
  BY <1>2, VouchingAssumption
<1>4. Cleared(p)[q] = IF q = p THEN -underWay(q) ELSE wrong[q]
  BY <1>2, ClearedTyped
<1>5. CASE JoinUpdates(s) /\ roster[p].on /\ m.pin # "keep"
  <2>1. /\ roster' = [roster EXCEPT ![p] = [roster[p] EXCEPT !.pin = m.pin, !.failures = 0]]
        /\ wrong' = Cleared(p) /\ replaced' = replaced
    BY <1>5 DEF JoinUpdates
  <2> HIDE DEF m
  <2>2. /\ EntryMoves(q)
        /\ roster'[q].failures = IF q = p THEN 0 ELSE roster[q].failures
    <3> HIDE DEF m, p
    <3> QED BY <1>2, <1>3, <1>5, <2>1, PinMoves
  <2> HIDE DEF m, p
  <2> QED BY ONLY <1>4, <2>1, <2>2
<1>6. CASE JoinUpdates(s) /\ ~(roster[p].on /\ m.pin # "keep")
  <2>1. roster' = roster /\ wrong' = wrong /\ replaced' = replaced
    BY <1>2, <1>6 DEF JoinUpdates, TypeOK
  <2> QED BY <2>1, SameRoster
<1>7. CASE JoinPuts(s)
  <2> DEFINE e == FirstEntry(IF m.pin = "keep" THEN NoPin ELSE m.pin)
  <2>1. e.on /\ e.failures = 0 /\ e.vouches = {} /\ e.marks = {}
    BY <1>3, EntryTypes
  <2>2. roster' = [roster EXCEPT ![p] = e] /\ wrong' = Cleared(p)
        /\ replaced' = IF roster[p].on THEN replaced \cup {p} ELSE replaced
    BY <1>7 DEF JoinPuts
  <2>3. roster'[q] = IF q = p THEN e ELSE roster[q]
    <3> HIDE DEF e, p
    <3> QED BY <1>2, <2>2 DEF TypeOK
  <2>4. roster'[q].failures = IF q = p THEN 0 ELSE roster[q].failures
    <3> HIDE DEF e, p
    <3> QED BY <2>1, <2>3
  <2>5. EntryMoves(q)
    <3> HIDE DEF e, p
    <3> QED BY <1>2, <2>1, <2>2, <2>3 DEF EntryMoves, OnRoster
  <2> QED BY <1>4, <2>2, <2>4, <2>5
<1> QED BY <1>5, <1>6, <1>7

\* The PIN stages, except for the count: see PinCounts.
LEMMA PinEntryMoves ==
    ASSUME Inv, NEW s \in Slots, checkPin(s) \/ pinMatches(s) \/ pinClears(s) \/ savePin(s),
           NEW q \in People
    PROVE  EntryMoves(q)
<1> DEFINE p == calls[s].person
<1> USE DEF Inv
<1>1. calls[s] \in PinCalls \cup ChangeCalls \cup SetCalls
  BY Stages DEF checkPin, pinMatches, pinClears, savePin, At, TypeOK
<1>2. p \in People
  BY <1>1 DEF PinCalls, ChangeCalls, SetCalls
<1>3. 0 \in 0 .. MAX_PIN_FAILURES
  BY VouchingAssumption
<1>4. CASE checkPin(s)
  <2>1. CASE roster[p].pin # NoPin /\ ~isLocked(roster[p])
    <3>1. roster[p].failures + 1 \in 0 .. MAX_PIN_FAILURES
      <4>1. roster[p].failures \in 0 .. MAX_PIN_FAILURES
        BY <1>2 DEF TypeOK, isRosterEntry
      <4>2. ~(roster[p].failures >= MAX_PIN_FAILURES)
        BY <2>1 DEF isLocked
      <4> HIDE DEF p
      <4> QED BY ONLY <4>1, <4>2, VouchingAssumption
    <3>2. roster' = [roster EXCEPT ![p].failures = roster[p].failures + 1] /\ replaced' = replaced
      BY <1>4, <2>1 DEF checkPin
    <3> QED BY <1>2, <3>1, <3>2, FailuresMove
  <2>2. CASE ~(roster[p].pin # NoPin /\ ~isLocked(roster[p]))
    BY <1>4, <2>2, SameRoster DEF checkPin
  <2> QED BY <2>1, <2>2
<1>5. CASE pinMatches(s)
  BY <1>5, SameRoster DEF pinMatches
<1>6. CASE pinClears(s)
  <2>1. roster' = [roster EXCEPT ![p].failures = 0] /\ replaced' = replaced
    BY <1>6 DEF pinClears
  <2> QED BY <1>2, <1>3, <2>1, FailuresMove
<1>7. CASE savePin(s)
  <2>1. calls[s].new \in PinValues \cup {NoPin}
    <3>1. calls[s] \in ChangeCalls \cup SetCalls
      BY <1>7, Stages DEF savePin, At, TypeOK
    <3> QED BY <3>1, VouchingAssumption DEF ChangeCalls, SetCalls
  <2>2. /\ roster' = [roster EXCEPT ![p] = [roster[p] EXCEPT !.pin = calls[s].new, !.failures = 0]]
        /\ replaced' = replaced
    BY <1>7 DEF savePin
  <2> QED BY <1>2, <2>1, <2>2, PinMoves
<1> QED BY <1>4, <1>5, <1>6, <1>7

\* Remembering a vouch, and marking one withdrawn once its revocation is delivered.
LEMMA VouchMoves ==
    ASSUME Inv, NEW s \in Slots, vouchFor(s) \/ revokeMarks(s), NEW q \in People
    PROVE  EntryMoves(q) /\ roster'[q].failures = roster[q].failures
           /\ (vouchFor(s) => calls[s].vouch \in roster'[calls[s].person].vouches)
<1> DEFINE p == calls[s].person
           v == calls[s].vouch
           r == calls[s].revocation
<1> USE DEF Inv
<1>1. calls[s] \in RecordCalls \cup RevokeCalls /\ calls[s].op # "idle"
  BY Stages DEF vouchFor, revokeMarks, At, TypeOK
<1>2. p \in People /\ v \in Numbers
  BY <1>1 DEF RecordCalls, RevokeCalls
<1>3. roster[p] \in RosterEntries /\ \A m \in roster[p].marks : m.vouch \in roster[p].vouches
  BY <1>2, MarksInVouches
<1>4. CASE vouchFor(s)
  <2> DEFINE e == [roster[p] EXCEPT !.vouches = @ \cup {v}]
  <2>1. /\ e.vouches = roster[p].vouches \cup {v} /\ e.marks = roster[p].marks
        /\ e.on = roster[p].on /\ e.failures = roster[p].failures
    BY <1>2, <1>3, EntryWrites
  <2>2. roster' = [roster EXCEPT ![p] = e] /\ replaced' = replaced /\ At(s, "record")
    BY <1>4 DEF vouchFor
  <2>3. \A x \in People : roster'[x] = IF x = p THEN e ELSE roster[x]
    <3> HIDE DEF e, p
    <3> QED BY <1>2, <2>2 DEF TypeOK
  <2>4. roster[p].on
    <3>1. calls[s].op \in {"pin", "confirm"}
      BY <2>2, <1>1, Stages DEF At, TypeOK, RecordCalls
    <3> QED BY <3>1 DEF OnRoster
  <2>5. /\ roster[q].on => roster'[q].on
        /\ roster[q].vouches \subseteq roster'[q].vouches
        /\ ~roster'[q].on => roster'[q].vouches = {}
        /\ roster'[q].marks = roster[q].marks /\ roster'[q].failures = roster[q].failures
    <3> HIDE DEF e, p
    <3> QED BY <2>1, <2>3, <2>4 DEF OnRoster
  <2>6. v \in roster'[p].vouches
    <3> HIDE DEF e, p
    <3> QED BY <1>2, <2>1, <2>3
  <2> QED BY <2>2, <2>5, <2>6 DEF EntryMoves
<1>5. CASE revokeMarks(s)
  <2> DEFINE M == {m \in roster[p].marks : m.vouch # v} \cup {[vouch |-> v, revocation |-> r]}
             e == [roster[p] EXCEPT !.marks = M]
  <2>0. At(s, "mark") /\ ~At(s, "record")
    BY <1>5 DEF revokeMarks, At
  <2>1. calls[s] \in RevokeCalls /\ r \in Numbers /\ calls[s].op = "revoke" /\ calls[s].at = "mark"
    BY <2>0, <1>1, Stages DEF At, TypeOK, RevokeCalls
  <2>2. /\ [vouch |-> v, revocation |-> r] \in [vouch : Numbers, revocation : Numbers]
        /\ Marked([vouch |-> v, revocation |-> r])
    BY <1>2, <2>1 DEF DeliveredFirst, Marked
  <2>3. M \in SUBSET [vouch : Numbers, revocation : Numbers]
        /\ \A m \in M : m \in roster[p].marks \/ Marked(m)
    <3>1. roster[p].marks \subseteq [vouch : Numbers, revocation : Numbers]
      BY <1>3 DEF RosterEntries
    <3> QED BY <2>2, <3>1
  <2>4. /\ e.marks = M /\ e.vouches = roster[p].vouches
        /\ e.on = roster[p].on /\ e.failures = roster[p].failures
    <3> HIDE DEF M, r
    <3> QED BY <1>3, <2>3, EntryWrites
  <2>5. CASE v \in roster[p].vouches
    <3>1. roster' = [roster EXCEPT ![p] = e] /\ replaced' = replaced
      BY <1>5, <2>5 DEF revokeMarks
    <3>2. roster'[q] = IF q = p THEN e ELSE roster[q]
      <4> HIDE DEF e, p
      <4> QED BY <3>1 DEF TypeOK
    <3>3. /\ roster'[q].on = roster[q].on /\ roster'[q].vouches = roster[q].vouches
          /\ roster'[q].failures = roster[q].failures
          /\ \A m \in roster'[q].marks : m \in roster[q].marks \/ Marked(m)
      <4> HIDE DEF e, M, p
      <4> QED BY <2>3, <2>4, <3>2
    <3>4. ~vouchFor(s)
      BY <2>0 DEF vouchFor
    <3> QED BY <3>1, <3>3, <3>4 DEF EntryMoves, OnRoster
  <2>6. CASE v \notin roster[p].vouches
    <3>1. roster' = roster /\ replaced' = replaced /\ ~vouchFor(s)
      BY <1>5, <2>6, <2>0 DEF revokeMarks, vouchFor
    <3> QED BY <3>1, SameRoster
  <2> QED BY <2>5, <2>6
<1> QED BY <1>4, <1>5

LEMMA RestartRoster ==
    ASSUME Inv, Restart
    PROVE  roster' = roster /\ replaced' = replaced
BY DEF Restart, Inv, TypeOK

\* Steps that leave the whole roster alone.
Elsewhere ==
    \/ \E p \in People, pin \in ChosenPins \cup {NoPin, "keep"} : joinHostRoster(p, pin)
    \/ \E s \in Slots, m \in joins : JoinArrives(s, m)
    \/ \E d \in Devices, p \in People : Rejoin(d, p)
    \/ \E id \in Ids : Ages(id) \/ reject(id)
    \/ \E d \in Devices : PollVouch(d) \/ Leaves(d)
    \/ \E s \in Slots, id \in Ids : confirm(s, id)
    \/ \E s \in Slots, d \in Devices, pin \in PinValues : submitPin(s, d, pin)
    \/ \E s \in Slots, d \in Devices, p \in People, old \in PinValues,
          new \in ChosenPins \cup {NoPin} : saveWithOldPin(s, d, p, old, new)
    \/ \E s \in Slots, p \in People, pin \in ChosenPins \cup {NoPin} : setPin(s, p, pin)
    \/ \E s \in Slots, p \in People, v \in 1 .. Len(signed) : revokeVouch(s, p, v)
    \/ \E s \in Slots : vouchSigns(s) \/ listDeviceRevocation(s) \/ Throws(s)

LEMMA NextCases ==
    Next => \/ Elsewhere \/ Restart
            \/ \E p \in People : unlockPin(p)
            \/ \E s \in Slots : \/ JoinUpdates(s) \/ JoinPuts(s)
                                \/ checkPin(s) \/ pinMatches(s) \/ pinClears(s) \/ savePin(s)
                                \/ vouchFor(s) \/ revokeMarks(s)
BY DEF Next, HostStep, Elsewhere

LEMMA ElsewhereRoster ==
    Elsewhere => roster' = roster /\ replaced' = replaced /\ wrong' = wrong
BY DEF Elsewhere, joinHostRoster, JoinArrives, Rejoin, Ages, reject, confirm, PollVouch, Leaves,
       submitPin, saveWithOldPin, setPin, revokeVouch, vouchSigns, listDeviceRevocation, Throws

LEMMA RosterMoves ==
    ASSUME Inv, Next, NEW q \in People
    PROVE  EntryMoves(q)
<1>1. ASSUME NEW s \in Slots, JoinUpdates(s) \/ JoinPuts(s) PROVE EntryMoves(q)
  BY <1>1, JoinMoves
<1>2. ASSUME NEW s \in Slots, checkPin(s) \/ pinMatches(s) \/ pinClears(s) \/ savePin(s)
      PROVE  EntryMoves(q)
  BY <1>2, PinEntryMoves
<1>3. ASSUME NEW s \in Slots, vouchFor(s) \/ revokeMarks(s) PROVE EntryMoves(q)
  BY <1>3, VouchMoves
<1>4. ASSUME NEW p \in People, unlockPin(p) PROVE EntryMoves(q)
  <2>1. 0 \in 0 .. MAX_PIN_FAILURES
    BY VouchingAssumption
  <2>2. roster' = [roster EXCEPT ![p].failures = 0] /\ replaced' = replaced
    BY <1>4 DEF unlockPin
  <2> QED BY <2>1, <2>2, FailuresMove
<1>5. CASE Restart
  BY <1>5, RestartRoster, SameRoster
<1>6. CASE Elsewhere
  BY <1>6, ElsewhereRoster, SameRoster
<1>7. ASSUME NEW s \in Slots, \/ JoinUpdates(s) \/ JoinPuts(s)
                              \/ checkPin(s) \/ pinMatches(s) \/ pinClears(s) \/ savePin(s)
                              \/ vouchFor(s) \/ revokeMarks(s)
      PROVE  EntryMoves(q)
  BY <1>1, <1>2, <1>3, <1>7
<1> QED BY <1>4, <1>5, <1>6, <1>7, NextCases

-----------------------------------------------------------------------------
(***************************************************************************)
(* A guess is counted before it is compared.                               *)
(***************************************************************************)
LEMMA UnderWayNat ==
    ASSUME NEW p
    PROVE  underWay(p) \in Nat /\ IsFiniteSet(comparing(p))
<1>1. IsFiniteSet(comparing(p))
  BY VouchingAssumption, FS_Subset DEF comparing
<1> QED BY <1>1, FS_CardinalityType, Zenon DEF underWay

\* No handler begins or ends a comparison.
LEMMA SameComparing ==
    ASSUME NEW p, \A s \in Slots : calls'[s] = calls[s] \/ ~(At(s, "compare") \/ At(s, "compare")')
    PROVE  underWay(p)' = underWay(p)
<1>1. comparing(p)' = comparing(p)
  BY DEF comparing, At
<1> QED BY <1>1, Zenon DEF underWay

\* One does.
LEMMA StartsComparing ==
    ASSUME NEW p, NEW s \in Slots, ~At(s, "compare"), At(s, "compare")',
           \A r \in Slots \ {s} : calls'[r] = calls[r]
    PROVE  underWay(p)' = IF calls'[s].person = p THEN underWay(p) + 1 ELSE underWay(p)
<1>1. comparing(p)' = IF calls'[s].person = p THEN comparing(p) \cup {s} ELSE comparing(p)
  BY DEF comparing, At
<1>2. s \notin comparing(p)
  BY DEF comparing
<1>3. Cardinality(comparing(p) \cup {s}) = Cardinality(comparing(p)) + 1
  BY <1>2, UnderWayNat, FS_AddElement, Zenon
<1> QED BY <1>1, <1>3, Zenon DEF underWay

LEMMA StopsComparing ==
    ASSUME NEW p, NEW s \in Slots, At(s, "compare"), ~At(s, "compare")',
           \A r \in Slots \ {s} : calls'[r] = calls[r]
    PROVE  underWay(p)' = IF calls[s].person = p THEN underWay(p) - 1 ELSE underWay(p)
<1>1. comparing(p)' = IF calls[s].person = p THEN comparing(p) \ {s} ELSE comparing(p)
  BY DEF comparing, At
<1>2. calls[s].person = p => s \in comparing(p)
  BY DEF comparing
<1>3. s \in comparing(p) => Cardinality(comparing(p) \ {s}) = Cardinality(comparing(p)) - 1
  BY UnderWayNat, FS_RemoveElement, Zenon
<1> QED BY <1>1, <1>2, <1>3, Zenon DEF underWay

\* The handlers of the steps that leave the roster alone are elsewhere too.
LEMMA ElsewhereCalls ==
    ASSUME Inv, Elsewhere, NEW r \in Slots
    PROVE  calls'[r] = calls[r] \/ ~(At(r, "compare") \/ At(r, "compare")')
<1> USE DEF Inv
<1>1. CASE \/ \E p \in People, pin \in ChosenPins \cup {NoPin, "keep"} : joinHostRoster(p, pin)
           \/ \E d \in Devices, p \in People : Rejoin(d, p)
           \/ \E id \in Ids : Ages(id) \/ reject(id)
           \/ \E d \in Devices : PollVouch(d) \/ Leaves(d)
  BY <1>1 DEF joinHostRoster, Rejoin, Ages, reject, PollVouch, Leaves
<1>2. ASSUME NEW s \in Slots, NEW c, c.at # "compare", Begin(s, c)
      PROVE  calls'[r] = calls[r] \/ ~(At(r, "compare") \/ At(r, "compare")')
  BY <1>2 DEF Begin, free, At, Idle, TypeOK
<1>3. ASSUME NEW s \in Slots, NEW m \in joins, JoinArrives(s, m)
      PROVE  calls'[r] = calls[r] \/ ~(At(r, "compare") \/ At(r, "compare")')
  BY <1>3 DEF JoinArrives, At, Idle, TypeOK
<1>4. ASSUME NEW s \in Slots, NEW id \in Ids, confirm(s, id)
      PROVE  calls'[r] = calls[r] \/ ~(At(r, "compare") \/ At(r, "compare")')
  BY <1>2, <1>4 DEF confirm
<1>5. ASSUME NEW s \in Slots, NEW d \in Devices, NEW pin \in PinValues, submitPin(s, d, pin)
      PROVE  calls'[r] = calls[r] \/ ~(At(r, "compare") \/ At(r, "compare")')
  BY <1>2, <1>5 DEF submitPin, enterPin
<1>6. ASSUME NEW s \in Slots, NEW d \in Devices, NEW p \in People, NEW old \in PinValues,
             NEW new \in ChosenPins \cup {NoPin}, saveWithOldPin(s, d, p, old, new)
      PROVE  calls'[r] = calls[r] \/ ~(At(r, "compare") \/ At(r, "compare")')
  BY <1>2, <1>6 DEF saveWithOldPin, changePin
<1>7. ASSUME NEW s \in Slots, NEW p \in People, NEW pin \in ChosenPins \cup {NoPin}, setPin(s, p, pin)
      PROVE  calls'[r] = calls[r] \/ ~(At(r, "compare") \/ At(r, "compare")')
  BY <1>2, <1>7 DEF setPin
<1>8. ASSUME NEW s \in Slots, NEW p \in People, NEW v \in 1 .. Len(signed), revokeVouch(s, p, v)
      PROVE  calls'[r] = calls[r] \/ ~(At(r, "compare") \/ At(r, "compare")')
  BY <1>2, <1>8 DEF revokeVouch
<1>9. ASSUME NEW s \in Slots, vouchSigns(s)
      PROVE  calls'[r] = calls[r] \/ ~(At(r, "compare") \/ At(r, "compare")')
  BY <1>9 DEF vouchSigns, At, TypeOK
<1>10. ASSUME NEW s \in Slots, listDeviceRevocation(s)
       PROVE  calls'[r] = calls[r] \/ ~(At(r, "compare") \/ At(r, "compare")')
  <2>1. calls[s] \in RevokeCalls
    BY <1>10, Stages DEF listDeviceRevocation, At, TypeOK
  <2>2. [calls[s] EXCEPT !.at = "mark"].at = "mark"
    BY <2>1 DEF RevokeCalls
  <2> QED BY <1>10, <2>2 DEF listDeviceRevocation, Goes, At, TypeOK
<1>11. ASSUME NEW s \in Slots, Throws(s)
       PROVE  calls'[r] = calls[r] \/ ~(At(r, "compare") \/ At(r, "compare")')
  BY <1>11, EndsTyped DEF Throws, At, Idle
<1> QED BY <1>1, <1>3, <1>4, <1>5, <1>6, <1>7, <1>8, <1>9, <1>10, <1>11 DEF Elsewhere

\* Joining, saving and marking compare nothing.
LEMMA OthersCompareNot ==
    ASSUME Inv, NEW s \in Slots, NEW r \in Slots,
           \/ JoinUpdates(s) \/ JoinPuts(s) \/ savePin(s) \/ pinClears(s)
           \/ vouchFor(s) \/ revokeMarks(s)
    PROVE  calls'[r] = calls[r] \/ ~(At(r, "compare") \/ At(r, "compare")')
<1> USE DEF Inv
<1>1. CASE Ends(s) /\ ~At(s, "compare")
  BY <1>1, EndsTyped DEF At, Idle
<1>2. ASSUME NEW stage, stage # "compare", Goes(s, stage), calls[s] \in JoinCalls \cup PinCalls \cup ChangeCalls,
             ~At(s, "compare")
      PROVE  calls'[r] = calls[r] \/ ~(At(r, "compare") \/ At(r, "compare")')
  <2>1. [calls[s] EXCEPT !.at = stage].at = stage
    BY <1>2 DEF JoinCalls, PinCalls, ChangeCalls
  <2> QED BY <1>2, <2>1 DEF Goes, At, TypeOK
<1>3. CASE JoinUpdates(s)
  <2>1. calls[s] \in JoinCalls /\ ~At(s, "compare")
    BY <1>3, Stages DEF JoinUpdates, At, TypeOK
  <2>2. Ends(s) \/ Goes(s, "put")
    BY <1>3 DEF JoinUpdates
  <2> QED BY <1>1, <1>2, <2>1, <2>2
<1>4. CASE pinClears(s)
  <2>1. calls[s] \in PinCalls \cup ChangeCalls /\ ~At(s, "compare")
    BY <1>4, Stages DEF pinClears, At, TypeOK
  <2>2. Goes(s, "sign") \/ Goes(s, "save")
    BY <1>4 DEF pinClears
  <2> QED BY <1>2, <2>1, <2>2
<1>5. CASE JoinPuts(s) \/ savePin(s) \/ vouchFor(s) \/ revokeMarks(s)
  BY <1>1, <1>5 DEF JoinPuts, savePin, vouchFor, revokeMarks, At
<1> QED BY <1>3, <1>4, <1>5

LEMMA CountStep == Inv /\ Next => CountedFirst'
<1> SUFFICES ASSUME Inv, Next, NEW p \in People
             PROVE  wrong'[p] + underWay(p)' <= roster'[p].failures
  BY DEF CountedFirst
<1> USE DEF Inv
<1>1. /\ wrong[p] \in Int /\ roster[p].failures \in Nat /\ underWay(p) \in Nat
      /\ wrong[p] + underWay(p) <= roster[p].failures
  BY UnderWayNat DEF CountedFirst, TypeOK, isRosterEntry
<1>2. CASE underWay(p)' = underWay(p) /\ wrong'[p] = wrong[p] /\ roster'[p].failures = roster[p].failures
  BY ONLY <1>1, <1>2
<1>3. CASE underWay(p)' = underWay(p) /\ wrong'[p] = -underWay(p) /\ roster'[p].failures = 0
  BY ONLY <1>1, <1>3
<1>4. CASE Elsewhere
  <2>1. underWay(p)' = underWay(p)
    BY <1>4, ElsewhereCalls, SameComparing
  <2> QED BY <1>2, <1>4, <2>1, ElsewhereRoster
<1>5. CASE Restart
  <2>1. comparing(p)' = {}
    BY <1>5 DEF Restart, comparing, At, Idle
  <2>2. underWay(p)' = 0
    BY <2>1, FS_EmptySet, Zenon DEF underWay
  <2>3. roster' = roster /\ wrong' = wrong
    BY <1>5, RestartRoster DEF Restart
  <2> QED BY ONLY <1>1, <2>2, <2>3
<1>6. ASSUME NEW q \in People, unlockPin(q) PROVE wrong'[p] + underWay(p)' <= roster'[p].failures
  <2>1. underWay(p)' = underWay(p)
    BY <1>6, SameComparing DEF unlockPin
  <2>2. 0 \in 0 .. MAX_PIN_FAILURES
    BY VouchingAssumption
  <2>3. roster' = [roster EXCEPT ![q].failures = 0] /\ replaced' = replaced /\ wrong' = Cleared(q)
    BY <1>6 DEF unlockPin
  <2>4. roster'[p].failures = IF p = q THEN 0 ELSE roster[p].failures
    BY <2>2, <2>3, FailuresMove
  <2>5. wrong'[p] = IF p = q THEN -underWay(p) ELSE wrong[p]
    BY <2>3, ClearedTyped
  <2> QED BY <1>2, <1>3, <2>1, <2>4, <2>5
<1>7. ASSUME NEW s \in Slots, JoinUpdates(s) \/ JoinPuts(s)
      PROVE  wrong'[p] + underWay(p)' <= roster'[p].failures
  <2>1. underWay(p)' = underWay(p)
    BY <1>7, OthersCompareNot, SameComparing
  <2> QED BY <1>2, <1>3, <1>7, <2>1, JoinMoves
<1>8. ASSUME NEW s \in Slots, vouchFor(s) \/ revokeMarks(s)
      PROVE  wrong'[p] + underWay(p)' <= roster'[p].failures
  <2>1. underWay(p)' = underWay(p)
    BY <1>8, OthersCompareNot, SameComparing
  <2> QED BY <1>2, <1>8, <2>1, VouchMoves DEF vouchFor, revokeMarks
<1>9. ASSUME NEW s \in Slots, pinClears(s) \/ savePin(s)
      PROVE  wrong'[p] + underWay(p)' <= roster'[p].failures
  <2> DEFINE q == calls[s].person
  <2>1. underWay(p)' = underWay(p)
    BY <1>9, OthersCompareNot, SameComparing
  <2>2. calls[s] \in PinCalls \cup ChangeCalls \cup SetCalls
    BY <1>9, Stages DEF pinClears, savePin, At, TypeOK
  <2>3. q \in People /\ wrong' = Cleared(q) /\ replaced' = replaced
    BY <1>9, <2>2 DEF pinClears, savePin, PinCalls, ChangeCalls, SetCalls
  <2>4. wrong'[p] = IF p = q THEN -underWay(p) ELSE wrong[p]
    BY <2>3, ClearedTyped
  <2>5. roster'[p].failures = IF p = q THEN 0 ELSE roster[p].failures
    <3>1. CASE pinClears(s)
      <4>1. 0 \in 0 .. MAX_PIN_FAILURES
        BY VouchingAssumption
      <4>2. roster' = [roster EXCEPT ![q].failures = 0]
        BY <3>1 DEF pinClears
      <4> QED BY <2>3, <4>1, <4>2, FailuresMove
    <3>2. CASE savePin(s)
      <4>1. calls[s] \in ChangeCalls \cup SetCalls
        BY <3>2, Stages DEF savePin, At, TypeOK
      <4>2. calls[s].new \in PinValues \cup {NoPin}
        BY <4>1, VouchingAssumption DEF ChangeCalls, SetCalls
      <4>3. roster' = [roster EXCEPT ![q] = [roster[q] EXCEPT !.pin = calls[s].new, !.failures = 0]]
        BY <3>2 DEF savePin
      <4> QED BY <2>3, <4>2, <4>3, PinMoves
    <3> QED BY <1>9, <3>1, <3>2
  <2> QED BY <1>2, <1>3, <2>1, <2>4, <2>5
<1>10. ASSUME NEW s \in Slots, checkPin(s)
       PROVE  wrong'[p] + underWay(p)' <= roster'[p].failures
  <2> DEFINE q == calls[s].person
  <2>1. calls[s] \in PinCalls \cup ChangeCalls /\ At(s, "count") /\ ~At(s, "compare")
    BY <1>10, Stages DEF checkPin, At, TypeOK
  <2>2. q \in People /\ wrong' = wrong
    BY <1>10, <2>1 DEF checkPin, PinCalls, ChangeCalls
  <2>3. CASE roster[q].pin # NoPin /\ ~isLocked(roster[q])
    <3> DEFINE c == [calls[s] EXCEPT !.at = "compare", !.stored = roster[q].pin]
    <3>1. roster[q].failures + 1 \in 0 .. MAX_PIN_FAILURES
      <4>1. roster[q].failures \in 0 .. MAX_PIN_FAILURES
        BY <2>2 DEF TypeOK, isRosterEntry
      <4>2. ~(roster[q].failures >= MAX_PIN_FAILURES)
        BY <2>3 DEF isLocked
      <4> HIDE DEF q
      <4> QED BY ONLY <4>1, <4>2, VouchingAssumption
    <3>2. /\ roster' = [roster EXCEPT ![q].failures = roster[q].failures + 1]
          /\ replaced' = replaced /\ calls' = [calls EXCEPT ![s] = c]
      BY <1>10, <2>3 DEF checkPin
    <3>3. roster'[p].failures = IF p = q THEN roster[p].failures + 1 ELSE roster[p].failures
      <4> DEFINE n == roster[q].failures + 1
      <4>2. roster' = [roster EXCEPT ![q].failures = n] /\ replaced' = replaced
        BY <3>2
      <4>3. n \in 0 .. MAX_PIN_FAILURES
        BY <3>1
      <4>4. roster'[p].failures = IF p = q THEN n ELSE roster[p].failures
        <5> HIDE DEF n, q
        <5> QED BY <2>2, <4>2, <4>3, FailuresMove
      <4> QED BY <4>4
    <3>4. c.at = "compare" /\ c.person = q /\ c.op # "idle"
      BY <2>1 DEF PinCalls, ChangeCalls
    <3>5. calls'[s] = c /\ \A r \in Slots \ {s} : calls'[r] = calls[r]
      <4> HIDE DEF c
      <4> QED BY <3>2 DEF TypeOK
    <3>6. At(s, "compare")' /\ calls'[s].person = q
      <4> HIDE DEF c, q
      <4> QED BY <3>4, <3>5 DEF At
    <3>7. underWay(p)' = IF q = p THEN underWay(p) + 1 ELSE underWay(p)
      BY <2>1, <3>5, <3>6, StartsComparing
    <3> HIDE DEF q
    <3> QED BY ONLY <1>1, <2>2, <3>3, <3>7
  <2>4. CASE ~(roster[q].pin # NoPin /\ ~isLocked(roster[q]))
    <3>1. roster' = roster /\ Ends(s)
      BY <1>10, <2>4 DEF checkPin
    <3>2. \A r \in Slots : calls'[r] = calls[r] \/ ~(At(r, "compare") \/ At(r, "compare")')
      BY <2>1, <3>1, EndsTyped DEF At, Idle
    <3>3. underWay(p)' = underWay(p)
      BY <3>2, SameComparing
    <3> QED BY <1>2, <2>2, <3>1, <3>3
  <2> QED BY <2>3, <2>4
<1>11. ASSUME NEW s \in Slots, pinMatches(s)
       PROVE  wrong'[p] + underWay(p)' <= roster'[p].failures
  <2> DEFINE q == calls[s].person
  <2>1. calls[s] \in PinCalls \cup ChangeCalls /\ At(s, "compare") /\ roster' = roster
    BY <1>11, Stages DEF pinMatches, At, TypeOK
  <2>2. q \in People
    BY <2>1 DEF PinCalls, ChangeCalls
  <2>3. /\ ~At(s, "compare")' /\ \A r \in Slots \ {s} : calls'[r] = calls[r]
    <3>1. [calls[s] EXCEPT !.at = "clear"].at = "clear"
      BY <2>1 DEF PinCalls, ChangeCalls
    <3>2. Goes(s, "clear") \/ Ends(s)
      BY <1>11 DEF pinMatches
    <3>3. CASE Ends(s)
      BY <3>3, EndsTyped DEF At, Idle
    <3>4. CASE Goes(s, "clear")
      <4>1. calls' = [calls EXCEPT ![s] = [calls[s] EXCEPT !.at = "clear"]]
        BY <3>4 DEF Goes
      <4>2. /\ calls'[s] = [calls[s] EXCEPT !.at = "clear"]
            /\ \A r \in Slots \ {s} : calls'[r] = calls[r]
        BY <4>1 DEF TypeOK
      <4> QED BY <3>1, <4>2 DEF At
    <3> QED BY <3>2, <3>3, <3>4
  <2>4. underWay(p)' = IF q = p THEN underWay(p) - 1 ELSE underWay(p)
    BY <2>1, <2>3, StopsComparing
  <2>5. wrong' = wrong \/ wrong' = [wrong EXCEPT ![q] = @ + 1]
    BY <1>11 DEF pinMatches
  <2>6. wrong'[p] = wrong[p] \/ (p = q /\ wrong'[p] = wrong[p] + 1)
    <3> HIDE DEF q
    <3> QED BY <2>2, <2>5 DEF TypeOK
  <2> HIDE DEF q
  <2> QED BY ONLY <1>1, <2>1, <2>4, <2>6
<1>12. ASSUME NEW s \in Slots, \/ JoinUpdates(s) \/ JoinPuts(s)
                               \/ checkPin(s) \/ pinMatches(s) \/ pinClears(s) \/ savePin(s)
                               \/ vouchFor(s) \/ revokeMarks(s)
       PROVE  wrong'[p] + underWay(p)' <= roster'[p].failures
  BY <1>7, <1>8, <1>9, <1>10, <1>11, <1>12
<1> QED BY <1>4, <1>5, <1>6, <1>12, NextCases

-----------------------------------------------------------------------------
(***************************************************************************)
(* What was signed and delivered stays so.                                 *)
(***************************************************************************)
LEMMA UnlessElsewhere ==
    ASSUME Inv, Next, ~Elsewhere
    PROVE  signed' = signed /\ revoked' = revoked /\ listed' = listed
<1>1. ASSUME NEW s \in Slots, \/ JoinUpdates(s) \/ JoinPuts(s)
                              \/ checkPin(s) \/ pinMatches(s) \/ pinClears(s) \/ savePin(s)
                              \/ vouchFor(s) \/ revokeMarks(s)
      PROVE  signed' = signed /\ revoked' = revoked /\ listed' = listed
  BY <1>1 DEF JoinUpdates, JoinPuts, checkPin, pinMatches, pinClears, savePin, vouchFor, revokeMarks
<1>2. CASE Restart
  BY <1>2 DEF Restart
<1>3. ASSUME NEW p \in People, unlockPin(p)
      PROVE  signed' = signed /\ revoked' = revoked /\ listed' = listed
  BY <1>3 DEF unlockPin
<1> QED BY <1>1, <1>2, <1>3, NextCases

LEMMA SignedStays ==
    ASSUME Inv, Next
    PROVE  /\ Len(signed) \in Nat /\ Len(signed') \in Nat
           /\ \A v \in 1 .. Len(signed) : v \in 1 .. Len(signed') /\ signed'[v] = signed[v]
<1>1. Len(signed) \in Nat
  BY DEF Inv, TypeOK
<1>2. CASE signed' = signed
  BY <1>1, <1>2
<1>3. ASSUME NEW s \in Slots, vouchSigns(s)
      PROVE  /\ Len(signed') \in Nat
             /\ \A v \in 1 .. Len(signed) : v \in 1 .. Len(signed') /\ signed'[v] = signed[v]
  <2>1. /\ Len(signed) \in Nat /\ Len(signed') = Len(signed) + 1
        /\ \A v \in 1 .. Len(signed) : signed'[v] = signed[v]
    BY <1>3, SignsTyped
  <2> QED BY ONLY <2>1
<1>4. CASE Elsewhere /\ ~(\E s \in Slots : vouchSigns(s))
  <2>1. signed' = signed
    BY <1>4 DEF Elsewhere, joinHostRoster, JoinArrives, Rejoin, Ages, reject, confirm, PollVouch,
       Leaves, submitPin, saveWithOldPin, setPin, revokeVouch, listDeviceRevocation, Throws
  <2> QED BY <1>2, <2>1
<1> QED BY <1>1, <1>2, <1>3, <1>4, UnlessElsewhere

LEMMA RevokeSigned ==
    ASSUME Inv, NEW s \in Slots, NEW p \in People, NEW v \in 1 .. Len(signed), revokeVouch(s, p, v)
    PROVE  /\ Len(revoked) \in Nat /\ Len(revoked') = Len(revoked) + 1
           /\ \A r \in 1 .. Len(revoked) : revoked'[r] = revoked[r]
           /\ revoked'[Len(revoked) + 1] = v /\ listed' = listed
<1>1. v \in Numbers /\ revoked \in Seq(Numbers)
  BY VouchingAssumption DEF Inv, TypeOK, Numbers
<1>2. revoked' = Append(revoked, v) /\ listed' = listed
  BY DEF revokeVouch
<1> QED BY <1>1, <1>2, AppendProperties

LEMMA RevokedStays ==
    ASSUME Inv, Next
    PROVE  /\ Len(revoked) \in Nat
           /\ \A r \in 1 .. Len(revoked) :
                 r \in 1 .. Len(revoked') /\ revoked'[r] = revoked[r]
                 /\ (listed[r].done => listed'[r].done)
<1>1. Len(revoked) \in Nat /\ Len(revoked) <= MaxSigned
  BY DEF Inv, TypeOK
<1>2. CASE revoked' = revoked /\ listed' = listed
  BY <1>1, <1>2
<1>3. ASSUME NEW s \in Slots, NEW p \in People, NEW v \in 1 .. Len(signed), revokeVouch(s, p, v)
      PROVE  \A r \in 1 .. Len(revoked) :
                 r \in 1 .. Len(revoked') /\ revoked'[r] = revoked[r]
                 /\ (listed[r].done => listed'[r].done)
  <2>1. /\ Len(revoked) \in Nat /\ Len(revoked') = Len(revoked) + 1
        /\ \A r \in 1 .. Len(revoked) : revoked'[r] = revoked[r]
        /\ listed' = listed
    BY <1>3, RevokeSigned
  <2> QED BY ONLY <2>1
<1>4. ASSUME NEW s \in Slots, listDeviceRevocation(s)
      PROVE  \A r \in 1 .. Len(revoked) :
                 r \in 1 .. Len(revoked') /\ revoked'[r] = revoked[r]
                 /\ (listed[r].done => listed'[r].done)
  <2>1. PICK got : listed' = [listed EXCEPT ![calls[s].revocation] = [done |-> TRUE, on |-> got]]
    BY <1>4 DEF listDeviceRevocation
  <2>2. revoked' = revoked
    BY <1>4 DEF listDeviceRevocation
  <2>3. \A r \in Numbers : listed[r].done => listed'[r].done
    BY <2>1 DEF Inv, TypeOK
  <2>4. \A r \in 1 .. Len(revoked) : r \in Numbers
    BY <1>1, VouchingAssumption DEF Numbers
  <2> QED BY <2>2, <2>3, <2>4
<1>5. CASE Elsewhere /\ ~(\E s \in Slots : listDeviceRevocation(s))
           /\ ~(\E s \in Slots, p \in People, v \in 1 .. Len(signed) : revokeVouch(s, p, v))
  <2>1. revoked' = revoked /\ listed' = listed
    BY <1>5 DEF Elsewhere, joinHostRoster, JoinArrives, Rejoin, Ages, reject, confirm, PollVouch,
       Leaves, submitPin, saveWithOldPin, setPin, vouchSigns, Throws
  <2> QED BY <1>2, <2>1
<1> QED BY <1>1, <1>2, <1>3, <1>4, <1>5, UnlessElsewhere

\* Findable after a step.
StillFindable(v) ==
    /\ v \in 1 .. Len(signed')
    /\ signed'[v].person \notin replaced' => v \in roster'[signed'[v].person].vouches

LEMMA FindableStays ==
    ASSUME Inv, Next, NEW v, Findable(v)
    PROVE  StillFindable(v)
<1>1. v \in 1 .. Len(signed) /\ v \in 1 .. Len(signed') /\ signed'[v] = signed[v]
  BY SignedStays DEF Findable
<1>2. signed[v].person \in People
  <2> DEFINE R == [device : Devices, person : People, method : {"pin", "confirm"}, id : Ids]
  <2>1. signed \in Seq(R)
    BY DEF Inv, TypeOK
  <2>2. signed[v] \in R
    <3> HIDE DEF R
    <3> QED BY <1>1, <2>1, ElementOfSeq
  <2> QED BY <2>2
<1>3. EntryMoves(signed[v].person)
  BY <1>2, RosterMoves
<1> QED BY <1>1, <1>2, <1>3 DEF Findable, StillFindable, EntryMoves

-----------------------------------------------------------------------------
(***************************************************************************)
(* Where a request and a handler come from.                                *)
(***************************************************************************)
EntryFrom(id) ==
    \/ /\ entries'[id].status = entries[id].status
       /\ entries'[id].person = entries[id].person /\ entries'[id].vouch = entries[id].vouch
    \/ entries'[id].status \notin {"pending", "vouched"}
    \/ /\ entries'[id].status = "pending"
       /\ entries'[id].person \in People /\ roster[entries'[id].person].on
    \/ \E s \in Slots : vouchFor(s) /\ entries'[id].vouch = calls[s].vouch

LEMMA StaleFrom ==
    ASSUME Inv, NEW id \in Ids, entries'[id] = dropStale(entries)[id] \/ entries'[id] = entries[id]
    PROVE  EntryFrom(id)
BY StaleTypes, RequestTypes DEF EntryFrom, Inv, TypeOK

LEMMA VouchedFrom ==
    ASSUME Inv, NEW s \in Slots, vouchFor(s), NEW id \in Ids
    PROVE  EntryFrom(id)
<1> DEFINE x == calls[s].id
           v == calls[s].vouch
           w == [entries[x] EXCEPT !.status = "vouched", !.vouch = v]
<1> USE DEF Inv
<1>1. calls[s] \in RecordCalls
  BY Stages DEF vouchFor, At, TypeOK
<1>2. x \in Ids /\ v \in Numbers
  BY <1>1 DEF RecordCalls
<1>3. entries[x] \in Requests
  BY <1>2 DEF TypeOK
<1>4. w.vouch = v
  BY <1>3 DEF Requests
<1>5. entries' = entries \/ entries' = [entries EXCEPT ![x] = w]
  BY DEF vouchFor, Vouched
<1>6. entries'[id] = entries[id] \/ entries'[id] = w
  <2> HIDE DEF w, x
  <2> QED BY <1>5 DEF TypeOK
<1>7. CASE entries'[id] = entries[id]
  BY <1>7, StaleFrom
<1>8. CASE entries'[id] = w
  <2>1. entries'[id].vouch = calls[s].vouch
    BY <1>4, <1>8
  <2> QED BY <2>1 DEF EntryFrom
<1> QED BY <1>6, <1>7, <1>8

LEMMA RejoinFrom ==
    ASSUME Inv, NEW d \in Devices, NEW p \in People, Rejoin(d, p), NEW id \in Ids
    PROVE  EntryFrom(id)
<1> DEFINE es == dropStale(entries)
           answer == request(es, d, p)
           i == IF answer = "again" THEN CHOOSE i \in requested(es, d, p) : TRUE ELSE nextId
           w == [Unused EXCEPT !.status = "pending", !.device = d, !.person = p]
<1>1. entries' = IF answer = "new" THEN [es EXCEPT ![i] = w] ELSE es
  BY DEF Rejoin, askForVouch
<1>2. es \in [Ids -> Requests]
  BY StaleTypes DEF Inv, TypeOK
<1>3. entries'[id] = es[id] \/ entries'[id] = w
  <2> HIDE DEF es, w, i, answer
  <2> QED BY <1>1, <1>2
<1>4. w.status = "pending" /\ w.person = p /\ roster[p].on
  BY RequestTypes DEF Requests, Rejoin, pickable
<1>5. CASE entries'[id] = es[id]
  BY <1>5, StaleFrom
<1>6. CASE entries'[id] = w
  <2> HIDE DEF w
  <2> QED BY <1>4, <1>6 DEF EntryFrom
<1> QED BY <1>3, <1>5, <1>6

LEMMA EntriesFrom ==
    ASSUME Inv, Next, NEW id \in Ids
    PROVE  EntryFrom(id)
<1> USE DEF Inv
<1>1. ASSUME NEW s \in Slots, vouchFor(s) PROVE EntryFrom(id)
  BY <1>1, VouchedFrom
<1>2. ASSUME NEW s \in Slots, \/ JoinUpdates(s) \/ JoinPuts(s)
                              \/ checkPin(s) \/ pinMatches(s) \/ pinClears(s) \/ savePin(s)
                              \/ revokeMarks(s) \/ vouchSigns(s) \/ listDeviceRevocation(s) \/ Throws(s)
      PROVE  EntryFrom(id)
  <2>1. entries' = entries
    BY <1>2 DEF JoinUpdates, JoinPuts, checkPin, pinMatches, pinClears, savePin, revokeMarks,
                vouchSigns, listDeviceRevocation, Throws
  <2> QED BY <2>1, StaleFrom
<1>3. CASE Restart
  <2>1. entries'[id] = Unused \/ entries'[id] = Forgotten
    BY <1>3 DEF Restart
  <2> QED BY <2>1, RequestTypes DEF EntryFrom
<1>4. ASSUME NEW d \in Devices, NEW p \in People, Rejoin(d, p) PROVE EntryFrom(id)
  BY <1>4, RejoinFrom
<1>5. ASSUME NEW x \in Ids, Ages(x) PROVE EntryFrom(id)
  <2>1. entries' = [entries EXCEPT ![x] = [entries[x] EXCEPT !.old = TRUE]]
    BY <1>5 DEF Ages
  <2>2. entries[x] \in Requests
    BY DEF TypeOK
  <2>3. /\ [entries[x] EXCEPT !.old = TRUE].status = entries[x].status
        /\ [entries[x] EXCEPT !.old = TRUE].person = entries[x].person
        /\ [entries[x] EXCEPT !.old = TRUE].vouch = entries[x].vouch
    BY ONLY <2>2 DEF Requests
  <2>4. entries'[id] = entries[id] \/ (id = x /\ entries'[id] = [entries[x] EXCEPT !.old = TRUE])
    BY <2>1 DEF TypeOK
  <2> QED BY <2>3, <2>4 DEF EntryFrom
<1>6. ASSUME NEW x \in Ids, reject(x) PROVE EntryFrom(id)
  <2> DEFINE es == dropStale(entries)
             w == [es[x] EXCEPT !.status = "rejected"]
  <2>1. es \in [Ids -> Requests]
    BY StaleTypes DEF TypeOK
  <2>2. w.status = "rejected"
    BY <2>1 DEF Requests
  <2>3. entries' = [es EXCEPT ![x] = w]
    BY <1>6 DEF reject
  <2>4. entries'[id] = es[id] \/ entries'[id] = w
    <3> HIDE DEF es, w
    <3> QED BY <2>1, <2>3
  <2>5. CASE entries'[id] = w
    <3> HIDE DEF w
    <3> QED BY <2>2, <2>5 DEF EntryFrom
  <2> QED BY <2>4, <2>5, StaleFrom
<1>7. CASE \/ \E d \in Devices : PollVouch(d)
           \/ \E s \in Slots, x \in Ids : confirm(s, x)
           \/ \E s \in Slots, d \in Devices, pin \in PinValues : submitPin(s, d, pin)
  <2>1. entries' = dropStale(entries)
    BY <1>7 DEF PollVouch, confirm, submitPin, enterPin
  <2> QED BY <2>1, StaleFrom
<1>8. CASE \/ \E p \in People, pin \in ChosenPins \cup {NoPin, "keep"} : joinHostRoster(p, pin)
           \/ \E s \in Slots, m \in joins : JoinArrives(s, m)
           \/ \E d \in Devices : Leaves(d)
           \/ \E s \in Slots, d \in Devices, p \in People, old \in PinValues,
                 new \in ChosenPins \cup {NoPin} : saveWithOldPin(s, d, p, old, new)
           \/ \E s \in Slots, p \in People, pin \in ChosenPins \cup {NoPin} : setPin(s, p, pin)
           \/ \E s \in Slots, p \in People, v \in 1 .. Len(signed) : revokeVouch(s, p, v)
           \/ \E p \in People : unlockPin(p)
  <2>1. entries' = entries
    BY <1>8 DEF joinHostRoster, JoinArrives, Leaves, saveWithOldPin, setPin, revokeVouch, unlockPin
  <2> QED BY <2>1, StaleFrom
<1>9. CASE Elsewhere
  BY <1>2, <1>4, <1>5, <1>6, <1>7, <1>8, <1>9 DEF Elsewhere
<1>10. ASSUME NEW s \in Slots, \/ JoinUpdates(s) \/ JoinPuts(s)
                              \/ checkPin(s) \/ pinMatches(s) \/ pinClears(s) \/ savePin(s)
                              \/ vouchFor(s) \/ revokeMarks(s)
       PROVE  EntryFrom(id)
  BY <1>1, <1>2, <1>10
<1> QED BY <1>3, <1>8, <1>9, <1>10, NextCases

HeldFrom(d, v) ==
    \/ v \in holds[d]
    \/ \E id \in Ids : entries[id].status = "vouched" /\ v = entries[id].vouch
    \/ \E s \in Slots : vouchFor(s) /\ v = calls[s].vouch

LEMMA HoldsFrom ==
    ASSUME Inv, Next, NEW d \in Devices, NEW v \in holds'[d]
    PROVE  HeldFrom(d, v)
<1> USE DEF Inv
<1>1. CASE holds' = holds
  BY <1>1 DEF HeldFrom
<1>2. ASSUME NEW s \in Slots, vouchFor(s) PROVE HeldFrom(d, v)
  <2>1. holds' = holds \/ holds' = [holds EXCEPT ![calls[s].device] = @ \cup {calls[s].vouch}]
    BY <1>2 DEF vouchFor, HandsOver
  <2>2. v \in holds[d] \/ v = calls[s].vouch
    BY <2>1 DEF TypeOK
  <2> QED BY <1>2, <2>2 DEF HeldFrom
<1>3. ASSUME NEW x \in Devices, PollVouch(x) PROVE HeldFrom(d, v)
  <2> DEFINE es == dropStale(entries)
             i == guest[x].id
  <2>1. i \in Ids
    BY <1>3 DEF PollVouch, TypeOK
  <2>2. status(es, i) = "vouched" => entries[i].status = "vouched" /\ es[i].vouch = entries[i].vouch
    BY <2>1, StaleTypes, RequestTypes DEF status, TypeOK
  <2>3. holds' = IF status(es, i) = "vouched" THEN [holds EXCEPT ![x] = @ \cup {es[i].vouch}]
                                              ELSE holds
    BY <1>3 DEF PollVouch
  <2>4. v \in holds[d] \/ (status(es, i) = "vouched" /\ v = es[i].vouch)
    <3> HIDE DEF es, i
    <3> QED BY <2>3 DEF TypeOK
  <2> QED BY <2>1, <2>2, <2>4 DEF HeldFrom
<1>4. ASSUME NEW s \in Slots, \/ JoinUpdates(s) \/ JoinPuts(s)
                              \/ checkPin(s) \/ pinMatches(s) \/ pinClears(s) \/ savePin(s)
                              \/ revokeMarks(s)
      PROVE  HeldFrom(d, v)
  BY <1>1, <1>4 DEF JoinUpdates, JoinPuts, checkPin, pinMatches, pinClears, savePin, revokeMarks
<1>5. CASE Restart \/ \E p \in People : unlockPin(p)
  BY <1>1, <1>5 DEF Restart, unlockPin
<1>6. CASE Elsewhere /\ ~(\E x \in Devices : PollVouch(x))
  BY <1>1, <1>6 DEF Elsewhere, joinHostRoster, JoinArrives, Rejoin, Ages, reject, confirm,
     Leaves, submitPin, saveWithOldPin, setPin, revokeVouch, vouchSigns, listDeviceRevocation, Throws
<1>7. ASSUME NEW s \in Slots, \/ JoinUpdates(s) \/ JoinPuts(s)
                              \/ checkPin(s) \/ pinMatches(s) \/ pinClears(s) \/ savePin(s)
                              \/ vouchFor(s) \/ revokeMarks(s)
      PROVE  HeldFrom(d, v)
  BY <1>2, <1>4, <1>7
<1> QED BY <1>3, <1>5, <1>6, <1>7, NextCases

\* Of a handler: it stays, is of no concern here, goes on, begins, signs,
\* begins a withdrawal, or has delivered one.
CallFrom(s) ==
    \/ calls'[s] = calls[s]
    \/ calls'[s].op \notin {"pin", "confirm", "revoke"} /\ ~At(s, "record")'
    \/ /\ calls[s].op \in {"pin", "confirm"} /\ calls'[s].op \in {"pin", "confirm"}
       /\ calls'[s].person = calls[s].person /\ ~At(s, "record")'
    \/ /\ calls'[s].op \in {"pin", "confirm"} /\ ~At(s, "record")'
       /\ calls'[s].person \in People /\ roster[calls'[s].person].on
    \/ /\ calls[s].op \in {"pin", "confirm"} /\ calls'[s].op \in {"pin", "confirm"}
       /\ calls'[s].person = calls[s].person
       /\ calls'[s].vouch \in 1 .. Len(signed') /\ signed'[calls'[s].vouch].person = calls'[s].person
    \/ /\ calls'[s].op = "revoke" /\ calls'[s].at = "deliver"
       /\ calls'[s].revocation \in 1 .. Len(revoked')
       /\ revoked'[calls'[s].revocation] = calls'[s].vouch
    \/ /\ calls[s].op = "revoke" /\ calls'[s].op = "revoke" /\ calls'[s].at = "mark"
       /\ calls'[s].revocation = calls[s].revocation /\ calls'[s].vouch = calls[s].vouch
       /\ listed'[calls'[s].revocation].done

LEMMA EndsFrom ==
    ASSUME Inv, NEW s \in Slots, Ends(s), NEW r \in Slots
    PROVE  CallFrom(r)
<1>1. calls'[r] = calls[r] \/ calls'[r] = Idle
  BY EndsTyped DEF Inv
<1> QED BY <1>1 DEF CallFrom, At, Idle

LEMMA BeginFrom ==
    ASSUME Inv, NEW s \in Slots, NEW c, calls' = [calls EXCEPT ![s] = c], NEW r \in Slots
    PROVE  /\ calls'[s] = c
           /\ r # s => CallFrom(r)
BY DEF CallFrom, Inv, TypeOK

\* A stage follows another within a handler.
LEMMA GoesFrom ==
    ASSUME Inv, NEW s \in Slots, NEW stage, stage # "record", Goes(s, stage),
           calls[s] \in JoinCalls \cup PinCalls \cup ChangeCalls, NEW r \in Slots
    PROVE  CallFrom(r)
<1> DEFINE c == [calls[s] EXCEPT !.at = stage]
<1>1. calls' = [calls EXCEPT ![s] = c]
  BY DEF Goes
<1>2. /\ c.op = calls[s].op /\ c.at = stage
      /\ calls[s].op \notin {"pin", "confirm", "revoke"}
         \/ (calls[s].op = "pin" /\ c.person = calls[s].person)
  BY DEF JoinCalls, PinCalls, ChangeCalls
<1>3. CASE r = s
  <2> HIDE DEF c
  <2>1. calls'[s] = c
    BY <1>1, BeginFrom
  <2> QED BY <1>2, <1>3, <2>1 DEF CallFrom, At
<1>4. CASE r # s
  <2> HIDE DEF c
  <2> QED BY <1>1, <1>4, BeginFrom
<1> QED BY <1>3, <1>4

LEMMA SignsFrom ==
    ASSUME Inv, NEW s \in Slots, vouchSigns(s), NEW r \in Slots
    PROVE  CallFrom(r)
<1>1. /\ calls'[s].vouch = Len(signed) + 1 /\ calls'[s].person = calls[s].person
      /\ signed'[Len(signed) + 1].person = calls[s].person
      /\ Len(signed) \in Nat /\ Len(signed') = Len(signed) + 1
  BY SignsTyped
<1>2. calls[s].op \in {"pin", "confirm"}
  <2>1. calls[s] \in PinCalls \cup ConfirmCalls
    BY Stages DEF vouchSigns, At, Inv, TypeOK
  <2> QED BY <2>1 DEF PinCalls, ConfirmCalls
<1> DEFINE c == [op |-> calls[s].op, at |-> "record", id |-> calls[s].id,
                 device |-> calls[s].device, person |-> calls[s].person, vouch |-> Len(signed')]
<1>3. calls' = [calls EXCEPT ![s] = c]
  BY DEF vouchSigns
<1>4. calls'[s] = c /\ (r # s => CallFrom(r))
  <2> HIDE DEF c
  <2> QED BY <1>3, BeginFrom
<1>5. calls'[s].op = calls[s].op
  BY <1>4
<1>6. CallFrom(s)
  BY <1>1, <1>2, <1>5 DEF CallFrom
<1> QED BY <1>4, <1>6

LEMMA RevokesFrom ==
    ASSUME Inv, NEW s \in Slots, NEW r \in Slots,
           \/ \E p \in People, v \in 1 .. Len(signed) : revokeVouch(s, p, v)
           \/ listDeviceRevocation(s)
    PROVE  CallFrom(r)
<1> USE DEF Inv
<1>1. ASSUME NEW p \in People, NEW v \in 1 .. Len(signed), revokeVouch(s, p, v) PROVE CallFrom(r)
  <2> DEFINE c == [op |-> "revoke", at |-> "deliver", person |-> p, vouch |-> v,
                   revocation |-> Len(revoked')]
  <2>1. /\ Len(revoked) \in Nat /\ Len(revoked') = Len(revoked) + 1
        /\ revoked'[Len(revoked) + 1] = v
    BY <1>1, RevokeSigned
  <2>2. calls' = [calls EXCEPT ![s] = c]
    BY <1>1 DEF revokeVouch, Begin
  <2>3. calls'[s] = c /\ (r # s => CallFrom(r))
    <3> HIDE DEF c
    <3> QED BY <2>2, BeginFrom
  <2>4. Len(revoked') \in 1 .. Len(revoked') /\ revoked'[Len(revoked')] = v
    BY ONLY <2>1
  <2>5. CallFrom(s)
    BY <2>3, <2>4 DEF CallFrom
  <2> QED BY <2>3, <2>5
<1>2. CASE listDeviceRevocation(s)
  <2> DEFINE c == [calls[s] EXCEPT !.at = "mark"]
             n == calls[s].revocation
  <2>1. calls[s] \in RevokeCalls
    BY <1>2, Stages DEF listDeviceRevocation, At, TypeOK
  <2>2. /\ c.op = "revoke" /\ c.at = "mark" /\ c.revocation = n /\ c.vouch = calls[s].vouch
        /\ calls[s].op = "revoke" /\ n \in Numbers
    BY <2>1 DEF RevokeCalls
  <2>3. calls' = [calls EXCEPT ![s] = c]
    BY <1>2 DEF listDeviceRevocation, Goes
  <2>4. calls'[s] = c /\ (r # s => CallFrom(r))
    <3> HIDE DEF c
    <3> QED BY <2>3, BeginFrom
  <2>5. listed'[n].done
    <3>1. PICK got : listed' = [listed EXCEPT ![n] = [done |-> TRUE, on |-> got]]
      BY <1>2 DEF listDeviceRevocation
    <3>2. listed'[n] = [done |-> TRUE, on |-> got]
      <4> HIDE DEF n
      <4> QED BY <2>2, <3>1 DEF TypeOK
    <3> QED BY <3>2
  <2>6. CallFrom(s)
    <3> HIDE DEF c
    <3> QED BY <2>2, <2>4, <2>5 DEF CallFrom
  <2> QED BY <2>4, <2>6
<1> QED BY <1>1, <1>2

LEMMA CallsFrom ==
    ASSUME Inv, Next, NEW r \in Slots
    PROVE  CallFrom(r)
<1> USE DEF Inv
<1>1. CASE calls' = calls
  BY <1>1 DEF CallFrom
<1>2. CASE \/ \E p \in People, pin \in ChosenPins \cup {NoPin, "keep"} : joinHostRoster(p, pin)
           \/ \E d \in Devices, p \in People : Rejoin(d, p)
           \/ \E id \in Ids : Ages(id) \/ reject(id)
           \/ \E d \in Devices : PollVouch(d) \/ Leaves(d)
           \/ \E p \in People : unlockPin(p)
  BY <1>1, <1>2 DEF joinHostRoster, Rejoin, Ages, reject, PollVouch, Leaves, unlockPin
<1>3. ASSUME NEW s \in Slots, NEW m \in joins, JoinArrives(s, m) PROVE CallFrom(r)
  <2> DEFINE c == [op |-> "join", at |-> "update", join |-> m]
  <2>1. calls' = [calls EXCEPT ![s] = c] \/ calls' = calls
    BY <1>3 DEF JoinArrives
  <2>2. CASE calls' = [calls EXCEPT ![s] = c]
    <3>1. calls'[s] = c /\ (r # s => CallFrom(r))
      <4> HIDE DEF c
      <4> QED BY <2>2, BeginFrom
    <3> QED BY <3>1 DEF CallFrom, At
  <2> QED BY <1>1, <2>1, <2>2
<1>4. ASSUME NEW s \in Slots, NEW id \in Ids, confirm(s, id) PROVE CallFrom(r)
  <2> DEFINE c == [op |-> "confirm", at |-> "sign", id |-> id, device |-> entries[id].device,
                   person |-> entries[id].person]
  <2>1. calls' = [calls EXCEPT ![s] = c] /\ pendingEntry(id)
    BY <1>4 DEF confirm, Begin
  <2>2. calls'[s] = c /\ (r # s => CallFrom(r))
    <3> HIDE DEF c
    <3> QED BY <2>1, BeginFrom
  <2>3. entries[id].person \in People /\ roster[entries[id].person].on
    BY <2>1, PendingTypes DEF OnRoster
  <2> QED BY <2>2, <2>3 DEF CallFrom, At
<1>5. ASSUME NEW s \in Slots, NEW d \in Devices, NEW pin \in PinValues, submitPin(s, d, pin)
      PROVE  CallFrom(r)
  <2> DEFINE id == guest[d].id
             c == [op |-> "pin", at |-> "count", id |-> id, device |-> entries[id].device,
                   person |-> entries[id].person, pin |-> pin, stored |-> NoPin]
  <2>1. calls' = [calls EXCEPT ![s] = c] /\ pendingEntry(id)
    BY <1>5 DEF submitPin, enterPin, Begin
  <2>2. calls'[s] = c /\ (r # s => CallFrom(r))
    <3> HIDE DEF c
    <3> QED BY <2>1, BeginFrom
  <2>3. entries[id].person \in People /\ roster[entries[id].person].on
    <3> HIDE DEF id
    <3> QED BY <2>1, PendingTypes DEF OnRoster
  <2> HIDE DEF id
  <2> QED BY <2>2, <2>3 DEF CallFrom, At
<1>6. ASSUME NEW s \in Slots, NEW d \in Devices, NEW p \in People, NEW old \in PinValues,
             NEW new \in ChosenPins \cup {NoPin}, saveWithOldPin(s, d, p, old, new)
      PROVE  CallFrom(r)
  <2> DEFINE c == [op |-> "change", at |-> "count", person |-> p, pin |-> old,
                   stored |-> NoPin, new |-> new]
  <2>1. calls' = [calls EXCEPT ![s] = c]
    BY <1>6 DEF saveWithOldPin, changePin, Begin
  <2>2. calls'[s] = c /\ (r # s => CallFrom(r))
    <3> HIDE DEF c
    <3> QED BY <2>1, BeginFrom
  <2> QED BY <2>2 DEF CallFrom, At
<1>7. ASSUME NEW s \in Slots, NEW p \in People, NEW pin \in ChosenPins \cup {NoPin}, setPin(s, p, pin)
      PROVE  CallFrom(r)
  <2> DEFINE c == [op |-> "set", at |-> "save", person |-> p, new |-> pin]
  <2>1. calls' = [calls EXCEPT ![s] = c]
    BY <1>7 DEF setPin, Begin
  <2>2. calls'[s] = c /\ (r # s => CallFrom(r))
    <3> HIDE DEF c
    <3> QED BY <2>1, BeginFrom
  <2> QED BY <2>2 DEF CallFrom, At
<1>8. CASE Restart
  <2>1. calls'[r] = Idle
    BY <1>8 DEF Restart
  <2> QED BY <2>1 DEF CallFrom, At, Idle
<1>9. CASE Elsewhere
  <2>1. ASSUME NEW s \in Slots, Throws(s) PROVE CallFrom(r)
    BY <2>1, EndsFrom DEF Throws
  <2> QED BY <1>2, <1>3, <1>4, <1>5, <1>6, <1>7, <1>9, <2>1, SignsFrom, RevokesFrom DEF Elsewhere
<1>10. ASSUME NEW s \in Slots, \/ JoinUpdates(s) \/ JoinPuts(s)
                              \/ checkPin(s) \/ pinMatches(s) \/ pinClears(s) \/ savePin(s)
                              \/ vouchFor(s) \/ revokeMarks(s)
       PROVE  CallFrom(r)
  <2>1. CASE Ends(s)
    BY <2>1, EndsFrom
  <2>2. CASE JoinPuts(s) \/ savePin(s) \/ vouchFor(s) \/ revokeMarks(s)
    BY <2>1, <2>2 DEF JoinPuts, savePin, vouchFor, revokeMarks
  <2>3. CASE JoinUpdates(s) \/ pinMatches(s) \/ pinClears(s)
    <3>1. calls[s] \in JoinCalls \cup PinCalls \cup ChangeCalls
      BY <2>3, Stages DEF JoinUpdates, pinMatches, pinClears, At, TypeOK
    <3>2. Ends(s) \/ Goes(s, "put") \/ Goes(s, "clear") \/ Goes(s, "sign") \/ Goes(s, "save")
      BY <2>3 DEF JoinUpdates, pinMatches, pinClears
    <3> QED BY <2>1, <3>1, <3>2, GoesFrom
  <2>4. CASE checkPin(s)
    <3> DEFINE c == [calls[s] EXCEPT !.at = "compare", !.stored = roster[calls[s].person].pin]
    <3>1. calls[s] \in PinCalls \cup ChangeCalls
      BY <2>4, Stages DEF checkPin, At, TypeOK
    <3>2. /\ c.op = calls[s].op /\ c.at = "compare" /\ c.person = calls[s].person
          /\ c.op \in {"pin", "change"}
      BY <3>1 DEF PinCalls, ChangeCalls
    <3>3. Ends(s) \/ calls' = [calls EXCEPT ![s] = c]
      BY <2>4 DEF checkPin
    <3>4. CASE calls' = [calls EXCEPT ![s] = c]
      <4>1. calls'[s] = c /\ (r # s => CallFrom(r))
        <5> HIDE DEF c
        <5> QED BY <3>4, BeginFrom
      <4>2. CallFrom(s)
        <5> HIDE DEF c
        <5> QED BY <3>2, <4>1 DEF CallFrom, At
      <4> QED BY <4>1, <4>2
    <3> QED BY <2>1, <3>3, <3>4
  <2> QED BY <1>10, <2>2, <2>3, <2>4
<1> QED BY <1>2, <1>8, <1>9, <1>10, NextCases

-----------------------------------------------------------------------------
(***************************************************************************)
(* The rest of the invariant, and the theorems.                            *)
(***************************************************************************)
LEMMA OnStep == Inv /\ Next => OnRoster'
<1> SUFFICES ASSUME Inv, Next PROVE OnRoster'
  OBVIOUS
<1> USE DEF Inv
<1>1. \A p \in People : ~roster'[p].on => roster'[p].vouches = {}
  BY RosterMoves DEF EntryMoves
<1>2. \A p \in People : roster[p].on => roster'[p].on
  BY RosterMoves DEF EntryMoves
<1>3. ASSUME NEW id \in Ids, entries'[id].status = "pending" PROVE roster'[entries'[id].person].on
  <2>1. EntryFrom(id)
    BY EntriesFrom
  <2>2. CASE entries[id].status = "pending" /\ entries'[id].person = entries[id].person
    <3>1. entries[id].person \in People
      BY DEF TypeOK, Requests
    <3> QED BY <1>2, <2>2, <3>1 DEF OnRoster
  <2>3. CASE entries'[id].person \in People /\ roster[entries'[id].person].on
    BY <1>2, <2>3
  <2>4. ASSUME NEW s \in Slots, vouchFor(s)
        PROVE  entries'[id].status = entries[id].status /\ entries'[id].person = entries[id].person
    <3>1. Vouched(s) /\ calls[s] \in RecordCalls
      BY <2>4, Stages DEF vouchFor, At, TypeOK
    <3>2. calls[s].id \in Ids
      BY <3>1 DEF RecordCalls
    <3> DEFINE x == calls[s].id
               w == [entries[x] EXCEPT !.status = "vouched", !.vouch = calls[s].vouch]
    <3>3. entries[x] \in Requests
      BY <3>2 DEF TypeOK
    <3>4. w.status = "vouched"
      BY <3>3 DEF Requests
    <3>5. entries' = entries \/ entries' = [entries EXCEPT ![x] = w]
      BY <3>1 DEF Vouched
    <3>6. entries'[id] = entries[id] \/ entries'[id] = w
      <4> HIDE DEF w, x
      <4> QED BY <3>5 DEF TypeOK
    <3> HIDE DEF w
    <3> QED BY <1>3, <3>4, <3>6
  <2> QED BY <1>3, <2>1, <2>2, <2>3, <2>4 DEF EntryFrom
<1>4. ASSUME NEW s \in Slots, calls'[s].op \in {"pin", "confirm"} PROVE roster'[calls'[s].person].on
  <2>1. CallFrom(s)
    BY CallsFrom
  <2>2. ASSUME calls[s].op \in {"pin", "confirm"}, calls'[s].person = calls[s].person
        PROVE  roster'[calls'[s].person].on
    <3>1. calls[s].person \in People
      BY <2>2, Stages DEF TypeOK, PinCalls, ConfirmCalls, RecordCalls
    <3> QED BY <1>2, <2>2, <3>1 DEF OnRoster
  <2> QED BY <1>2, <1>4, <2>1, <2>2 DEF CallFrom
<1> QED BY <1>1, <1>3, <1>4 DEF OnRoster

LEMMA RememberedStep == Inv /\ Next => RememberedFirst'
<1> SUFFICES ASSUME Inv, Next PROVE RememberedFirst'
  OBVIOUS
<1> USE DEF Inv
<1>1. ASSUME NEW s \in Slots, At(s, "record")'
      PROVE  /\ calls'[s].vouch \in 1 .. Len(signed')
             /\ signed'[calls'[s].vouch].person = calls'[s].person
  <2>1. CallFrom(s)
    BY CallsFrom
  <2>2. CASE calls'[s] = calls[s]
    BY <1>1, <2>2, SignedStays DEF RememberedFirst, At
  <2>3. calls'[s] \in RecordCalls
    BY <1>1, TypeStep, Stages DEF At, TypeOK
  <2>4. calls'[s].op \in {"pin", "confirm"} /\ calls'[s].at = "record"
    BY <2>3 DEF RecordCalls
  <2> QED BY <1>1, <2>1, <2>2, <2>4 DEF CallFrom
<1>2. ASSUME NEW s \in Slots, vouchFor(s) PROVE StillFindable(calls[s].vouch)
  <2>1. /\ calls[s].vouch \in 1 .. Len(signed) /\ signed[calls[s].vouch].person = calls[s].person
    BY <1>2 DEF RememberedFirst, vouchFor
  <2>2. calls[s].vouch \in 1 .. Len(signed') /\ signed'[calls[s].vouch].person = calls[s].person
    BY <2>1, SignedStays
  <2>3. calls[s].person \in People
    BY <1>2, Stages DEF vouchFor, At, TypeOK, RecordCalls
  <2>4. calls[s].vouch \in roster'[calls[s].person].vouches
    BY <1>2, <2>3, VouchMoves
  <2> QED BY <2>2, <2>4 DEF StillFindable
<1>3. ASSUME NEW id \in Ids, entries'[id].status = "vouched" PROVE StillFindable(entries'[id].vouch)
  <2>1. EntryFrom(id)
    BY EntriesFrom
  <2>2. CASE entries[id].status = "vouched" /\ entries'[id].vouch = entries[id].vouch
    <3>1. Findable(entries[id].vouch)
      BY <2>2 DEF RememberedFirst
    <3>2. Findable(entries[id].vouch) => StillFindable(entries'[id].vouch)
      BY <2>2, FindableStays
    <3> QED BY <3>1, <3>2
  <2>3. ASSUME NEW s \in Slots, vouchFor(s), entries'[id].vouch = calls[s].vouch
        PROVE  StillFindable(entries'[id].vouch)
    BY <1>2, <2>3
  <2> QED BY <1>3, <2>1, <2>2, <2>3 DEF EntryFrom
<1>4. ASSUME NEW d \in Devices, NEW v \in holds'[d] PROVE StillFindable(v)
  <2>1. HeldFrom(d, v)
    BY HoldsFrom
  <2>2. ASSUME Findable(v) PROVE StillFindable(v)
    BY <2>2, FindableStays
  <2>3. ASSUME NEW s \in Slots, vouchFor(s), v = calls[s].vouch PROVE StillFindable(v)
    BY <1>2, <2>3
  <2> QED BY <2>1, <2>2, <2>3 DEF HeldFrom, RememberedFirst
<1> QED BY <1>1, <1>3, <1>4 DEF RememberedFirst, Findable, StillFindable

LEMMA DeliveredStep == Inv /\ Next => DeliveredFirst'
<1> SUFFICES ASSUME Inv, Next PROVE DeliveredFirst'
  OBVIOUS
<1> USE DEF Inv
<1>1. ASSUME NEW s \in Slots, calls'[s].op = "revoke"
      PROVE  /\ calls'[s].revocation \in 1 .. Len(revoked')
             /\ revoked'[calls'[s].revocation] = calls'[s].vouch
             /\ calls'[s].at = "mark" => listed'[calls'[s].revocation].done
  <2>1. CallFrom(s)
    BY CallsFrom
  <2>2. ASSUME calls[s].op = "revoke", calls'[s].revocation = calls[s].revocation,
               calls'[s].vouch = calls[s].vouch
        PROVE  /\ calls'[s].revocation \in 1 .. Len(revoked')
               /\ revoked'[calls'[s].revocation] = calls'[s].vouch
               /\ listed[calls[s].revocation].done => listed'[calls'[s].revocation].done
    BY <2>2, RevokedStays DEF DeliveredFirst
  <2>3. CASE calls'[s] = calls[s]
    BY <1>1, <2>2, <2>3 DEF DeliveredFirst
  <2>4. calls'[s].op \notin {"pin", "confirm"}
    BY <1>1
  <2> QED BY <1>1, <2>1, <2>2, <2>3, <2>4 DEF CallFrom
<1>2. ASSUME NEW p \in People, NEW m \in roster'[p].marks
      PROVE  /\ m.revocation \in 1 .. Len(revoked')
             /\ revoked'[m.revocation] = m.vouch /\ listed'[m.revocation].done
  <2>1. m \in roster[p].marks \/ Marked(m)
    BY RosterMoves DEF EntryMoves
  <2>2. Marked(m)
    BY <2>1 DEF DeliveredFirst, Marked
  <2> QED BY <2>2, RevokedStays DEF Marked
<1> QED BY <1>1, <1>2 DEF DeliveredFirst

LEMMA Stutters ==
    ASSUME Inv, UNCHANGED vars
    PROVE  Inv'
<1> USE DEF Inv, vars
<1>1. \A p \in People : underWay(p)' = underWay(p)
  BY SameComparing
<1>2. CountedFirst'
  BY <1>1 DEF CountedFirst
<1>3. TypeOK'
  BY DEF TypeOK
<1>4. OnRoster' /\ DeliveredFirst'
  BY DEF OnRoster, DeliveredFirst
<1>5. RememberedFirst'
  BY DEF RememberedFirst, Findable, At
<1> QED BY <1>2, <1>3, <1>4, <1>5

LEMMA InvStep == Inv /\ [Next]_vars => Inv'
<1>1. ASSUME Inv, Next PROVE Inv'
  <2>1. TypeOK' /\ OnRoster' /\ RememberedFirst' /\ CountedFirst' /\ DeliveredFirst'
    BY <1>1, TypeStep, OnStep, RememberedStep, CountStep, DeliveredStep
  <2> QED BY <2>1 DEF Inv
<1> QED BY <1>1, Stutters

\* The invariant, which the theorems below read off.
LEMMA Invariant == Spec => []Inv
BY InitInv, InvStep, PTL DEF Spec

(***************************************************************************)
(* Every variable keeps its type, and what is stored can be read back when *)
(* the host starts again.                                                  *)
(***************************************************************************)
THEOREM TypeCorrect == Spec => []TypeOK
<1>1. Inv => TypeOK
  BY DEF Inv
<1> QED BY <1>1, Invariant, PTL

(***************************************************************************)
(* A vouch a guest holds is on the roster, so the operator can find and    *)
(* withdraw it, unless a first join wrote the whole entry over.            *)
(***************************************************************************)
THEOREM HandedOut == Spec => []HandedOutFindable
<1>1. Inv => HandedOutFindable
  BY DEF Inv, RememberedFirst, Findable, HandedOutFindable
<1> QED BY <1>1, Invariant, PTL

(***************************************************************************)
(* However many guesses run in parallel, at most MAX_PIN_FAILURES of them  *)
(* are compared and found wrong before the count is cleared: each is       *)
(* counted before it is compared.                                          *)
(***************************************************************************)
THEOREM GuessesStayLimited == Spec => []GuessesLimited
<1>1. Inv => GuessesLimited
  <2> SUFFICES ASSUME Inv, NEW p \in People PROVE wrong[p] <= MAX_PIN_FAILURES
    BY DEF GuessesLimited
  <2>1. /\ wrong[p] \in Int /\ roster[p].failures \in 0 .. MAX_PIN_FAILURES /\ underWay(p) \in Nat
        /\ wrong[p] + underWay(p) <= roster[p].failures
    BY UnderWayNat DEF Inv, CountedFirst, TypeOK, isRosterEntry
  <2> QED BY ONLY <2>1, VouchingAssumption
<1> QED BY <1>1, Invariant, PTL

(***************************************************************************)
(* A vouch the roster calls withdrawn names a revocation of that vouch     *)
(* which was delivered.                                                    *)
(***************************************************************************)
THEOREM WithdrawnWasDelivered == Spec => []WithdrawnIsDelivered
<1>1. Inv => WithdrawnIsDelivered
  BY DEF Inv, DeliveredFirst, WithdrawnIsDelivered
<1> QED BY <1>1, Invariant, PTL

=============================================================================
