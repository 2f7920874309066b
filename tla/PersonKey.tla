------------------------------- MODULE PersonKey -------------------------------
(***************************************************************************)
(* The person key of a web guest: made on its first join, lost with its    *)
(* origin, and brought back from a backup, from a passkey record the host  *)
(* holds, or replaced by the host's vouch (usePersonKey.ts, RejoinFlow,    *)
(* RestoreFlow, PersonKeyBackupPrompt and PersonKeySettings in core, and   *)
(* personKeyRequests.ts, personKey.ts, deviceVouch.ts in the worker).      *)
(*                                                                         *)
(* The tabs of one guest, each with its page and its worker, share one     *)
(* IndexedDB.  A read and a write of it are two transactions, so a worker  *)
(* that reads, awaits and writes is two steps here, and another tab may    *)
(* come between.  A page does one thing at a time.  Keys are numbered as   *)
(* they are made.  What the host does inside a join or a vouch request is  *)
(* in HostVouching.                                                        *)
(***************************************************************************)
EXTENDS Naturals, FiniteSets

CONSTANTS
    Tabs,       \* tabs the guest has open at once, at most
    MaxKeys,    \* bound: person keys made
    MaxOpens,   \* bound: tabs opened, reconnected or closed
    MaxFaults,  \* bound: requests that fail or whose answer is lost
    MaxMoves    \* bound: times the guest loses its storage

ASSUME PersonKeyAssumption ==
    {MaxKeys, MaxOpens, MaxFaults, MaxMoves} \subseteq Nat

VARIABLES
    db,         \* the guest's IndexedDB: its person identity, and its vouch
    pages,      \* pages[t]: the status page t shows, the people it offers, its task
    host,       \* the people on the host's roster, and the passkey records it holds
    locked,     \* the backups that were made
    saved,      \* those the person put somewhere safe
    made,       \* person keys made so far
    spent       \* opens, faults and moves so far

keyVars == <<db, pages, host, locked, saved, made, spent>>

Keys    == 1 .. MaxKeys
Marks   == {"backedUp", "recorded", "joined"}
\* A stored identity: the key, and which of its three times are set.  Its
\* certificate is made with it and goes with it.
Nobody  == [key |-> 0, marks |-> {}]
Person(k, marks) == [key |-> k, marks |-> marks]
Exists(p) == p.key # 0

\* A copy of a key, locked with a passphrase or with what a passkey gave.  It
\* opens with the one it was locked with, to the key it names, or not at all.
wrapWith(k, method) == [key |-> k, unlock |-> method]
wrapPersonKey(k) == wrapWith(k, "passphrase")
wrapPersonKeyWithPasskey(k) == wrapWith(k, "passkey")
opensTo(copy, method) == IF copy.unlock = method THEN copy.key ELSE 0

\* How a restored key was unlocked is what it is marked with.
unlockedBy(method) == IF method = "passphrase" THEN "backedUp" ELSE "recorded"

\* What a page knows: nothing yet, no key, the host's vouch, or a person key.
Unknown == [is |-> "unknown", who |-> Nobody]
Shows(is, who) == [is |-> is, who |-> who]

\* What a page and its worker are at: the operation and the next step of it, the
\* key it is about, the record it has read, the mark or the way in, and whether
\* the person said to be new.
Resting == [op |-> "none", at |-> "none", key |-> 0, held |-> Nobody, by |-> "none", said |-> FALSE]
Closed  == [open |-> FALSE, shown |-> Unknown, roster |-> {}, task |-> Resting]

KeyInit ==
    /\ db = [person |-> Nobody, vouch |-> 0]
    /\ pages = [t \in Tabs |-> Closed]
    /\ host = [people |-> {}, records |-> {}]
    /\ locked = {} /\ saved = {} /\ made = 0
    /\ spent = [opens |-> 0, faults |-> 0, moves |-> 0]

task(t)        == pages[t].task
At(t, op, at)  == task(t).op = op /\ task(t).at = at
Rests(t)       == pages[t].open /\ task(t).op = "none" /\ pages[t].shown.is # "unknown"
Go(t, at)      == pages' = [pages EXCEPT ![t].task.at = at]
Begin(t, op, at, k, by) ==
    pages' = [pages EXCEPT ![t].task =
                 [Resting EXCEPT !.op = op, !.at = at, !.key = k, !.by = by]]
\* The operation ends, and the page shows what came of it.
Show(t, is, who) ==
    pages' = [pages EXCEPT ![t].shown = Shows(is, who), ![t].task = Resting, ![t].roster = {}]
\* It ends with an error, and the page shows what it did.
Quit(t)        == pages' = [pages EXCEPT ![t].task = Resting]

May(what, max) == spent[what] < max
Spend(what)    == spent' = [spent EXCEPT ![what] = @ + 1]
Fault          == May("faults", MaxFaults) /\ Spend("faults")

-----------------------------------------------------------------------------
(* What the worker does with the database.                                 *)

\* statusOf and vouchStatus: what the worker reports of what it has read.
statusOf(p)    == Shows("person", p)
vouchStatus(k) == Shows("vouch", Person(k, {"joined"}))

\* personKeyStatus: the identity, and the vouch if there is none.
loadPersonIdentity(t) ==
    /\ At(t, "status", "person")
    /\ IF Exists(db.person) THEN Show(t, "person", db.person) ELSE Go(t, "vouch")
    /\ UNCHANGED <<db, host, locked, saved, made, spent>>

\* loadDeviceVouch, and the rest of the hook's effect: without either, a
\* connected page asks the host whom it knows.
loadDeviceVouch(t) ==
    /\ At(t, "status", "vouch")
    /\ IF db.vouch # 0
       THEN pages' = [pages EXCEPT ![t].shown = vouchStatus(db.vouch), ![t].task = Resting]
       ELSE \/ Go(t, "roster")
            \/ Show(t, "none", Nobody)      \* not connected
    /\ UNCHANGED <<db, host, locked, saved, made, spent>>

\* fetchRoster: with people on it the page asks first.  With none, or when it
\* cannot be had, a key is made.
fetchRoster(t) ==
    /\ At(t, "status", "roster")
    /\ \/ /\ host.people # {}
          /\ pages' = [pages EXCEPT ![t].shown = Shows("none", Nobody),
                                    ![t].roster = host.people, ![t].task = Resting]
          /\ UNCHANGED spent
       \/ /\ host.people = {}
          /\ Begin(t, "create", "read", 0, "none")
          /\ UNCHANGED spent
       \/ /\ host.people # {} /\ Fault
          /\ Begin(t, "create", "read", 0, "none")
    /\ UNCHANGED <<db, host, locked, saved, made>>

\* createPersonIdentity: what is stored already is taken; else a key is made.
createPersonIdentity(t) ==
    /\ At(t, "create", "read")
    /\ IF Exists(db.person)
       THEN Show(t, "person", db.person) /\ UNCHANGED made
       ELSE /\ made < MaxKeys /\ made' = made + 1
            /\ pages' = [pages EXCEPT ![t].task.at = "add", ![t].task.key = made + 1]
    /\ UNCHANGED <<db, host, locked, saved, spent>>

\* addRecord: stores the value unless one is there.
addRecord(p) == [db EXCEPT !.person = IF Exists(db.person) THEN @ ELSE p]

\* Mutant: the loser goes on with the key it made.
addCreated_KeepsOwn(t) ==
    /\ At(t, "create", "add")
    /\ db' = addRecord(Person(task(t).key, {}))
    /\ Show(t, "person", Person(task(t).key, {}))
    /\ UNCHANGED <<host, locked, saved, made, spent>>

\* The add, which the tab that comes second loses.
addCreated(t) ==
    /\ At(t, "create", "add")
    /\ db' = addRecord(Person(task(t).key, {}))
    /\ IF Exists(db.person) THEN Go(t, "winner") ELSE Show(t, "person", db'.person)
    /\ UNCHANGED <<host, locked, saved, made, spent>>

\* The loser takes what the winner stored.
readWinner(t) ==
    /\ At(t, "create", "winner")
    /\ Show(t, "person", db.person)
    /\ UNCHANGED <<db, host, locked, saved, made, spent>>

\* takeUpPersonKey: a vouch for another person is not this person's to replace.
takeUpPersonKey(t) ==
    /\ At(t, "restore", "vouch")
    /\ IF db.vouch \in {0, task(t).key}
       THEN pages' = [pages EXCEPT ![t].task.at = "read",
                 ![t].task.held = Person(0, IF db.vouch # 0 THEN {"joined"} ELSE {})]
       ELSE Quit(t)
    /\ UNCHANGED <<db, host, locked, saved, made, spent>>

\* A device that holds another person key refuses.
holdsOther(p, k) == Exists(p) /\ p.key # k

\* restorePersonIdentity, up to its write: another key is refused, this one keeps
\* its certificate, and none makes a new one.
restorePersonIdentity(t) ==
    /\ At(t, "restore", "read")
    /\ IF holdsOther(db.person, task(t).key) THEN Quit(t)
       ELSE IF Exists(db.person)
            THEN pages' = [pages EXCEPT ![t].task.at = "put",
                      ![t].task.held = Person(task(t).key, db.person.marks \cup {task(t).by})]
            ELSE pages' = [pages EXCEPT ![t].task.at = "add",
                      ![t].task.held = Person(task(t).key, @.marks \cup {task(t).by})]
    /\ UNCHANGED <<db, host, locked, saved, made, spent>>

\* Its write: over the record it read, or an add that another tab may have won.
storeRestored(t) ==
    /\ task(t).op = "restore" /\ task(t).at \in {"put", "add"}
    /\ IF task(t).at = "put"
       THEN db' = [db EXCEPT !.person = task(t).held] /\ Go(t, "clear")
       ELSE /\ db' = addRecord(task(t).held)
            /\ IF Exists(db.person) THEN Quit(t) ELSE Go(t, "clear")
    /\ UNCHANGED <<host, locked, saved, made, spent>>

\* clearDeviceVouch.  The welcome flow then notes that the host has the person,
\* when its list says so and nothing else did.
clearDeviceVouch(t) ==
    LET who == task(t).held
    IN  /\ At(t, "restore", "clear")
        /\ db' = [db EXCEPT !.vouch = 0]
        /\ pages' = [pages EXCEPT ![t].shown = statusOf(who), ![t].roster = {},
              ![t].task = IF "joined" \notin who.marks /\ who.key \in pages[t].roster
                          THEN [Resting EXCEPT !.op = "mark", !.at = "load", !.by = "joined"]
                          ELSE Resting]
        /\ UNCHANGED <<host, locked, saved, made, spent>>

\* markJoined, markPersonKeyRecord: which key is stored is read first.
markStored(t) ==
    /\ At(t, "mark", "load")
    /\ pages' = [pages EXCEPT ![t].task.at = "read", ![t].task.key = db.person.key]
    /\ UNCHANGED <<db, host, locked, saved, made, spent>>

\* updateStored: the record is read whole, if it is of the key that was marked...
updateStored(t) ==
    /\ At(t, "mark", "read")
    /\ IF db.person.key # task(t).key THEN Quit(t)
       ELSE pages' = [pages EXCEPT ![t].task.at = "put", ![t].task.held = db.person]
    /\ UNCHANGED <<db, host, locked, saved, made, spent>>

\* ...and put back whole, over what another tab wrote meanwhile.
putRecord(t) ==
    /\ At(t, "mark", "put")
    /\ db' = [db EXCEPT !.person = Person(task(t).held.key, task(t).held.marks \cup {task(t).by})]
    /\ pages' = [pages EXCEPT ![t].shown.who.marks = @ \cup {task(t).by}, ![t].task = Resting]
    /\ UNCHANGED <<host, locked, saved, made, spent>>

Worker(t) ==
    \/ loadPersonIdentity(t) \/ loadDeviceVouch(t)
    \/ createPersonIdentity(t) \/ addCreated(t) \/ readWinner(t)
    \/ takeUpPersonKey(t) \/ restorePersonIdentity(t) \/ storeRestored(t) \/ clearDeviceVouch(t)
    \/ markStored(t) \/ updateStored(t) \/ putRecord(t)

-----------------------------------------------------------------------------
(* What the person does, and what the host answers.                        *)

\* The page loads, or connects again without a key: the hook's effect runs.
openPage(t) ==
    /\ ~pages[t].open \/ (Rests(t) /\ pages[t].shown.is = "none")
    /\ May("opens", MaxOpens) /\ Spend("opens")
    /\ pages' = [pages EXCEPT ![t] = [Closed EXCEPT !.open = TRUE,
                    !.task = [Resting EXCEPT !.op = "status", !.at = "person"]]]
    /\ UNCHANGED <<db, host, locked, saved, made>>

Welcomes(t) == Rests(t) /\ pages[t].shown.is = "none" /\ pages[t].roster # {}
HasKey(t)   == Rests(t) /\ pages[t].shown.is = "person"
Vouched(t)  == Rests(t) /\ pages[t].shown.is = "vouch"

\* "I'm new here".
onNew(t) ==
    /\ Welcomes(t)
    /\ pages' = [pages EXCEPT ![t].task = [Resting EXCEPT !.op = "create", !.at = "read", !.said = TRUE]]
    /\ UNCHANGED <<db, host, locked, saved, made, spent>>

\* A name is picked in the welcome, or in Settings a vouched device asks again.
askForVouch(t) ==
    /\ \E p \in IF Vouched(t) THEN {pages[t].shown.who.key} ELSE pages[t].roster :
         /\ Welcomes(t) \/ Vouched(t)
         /\ p \in host.people
         /\ Begin(t, "rejoin", "asked", p, "none")
    /\ UNCHANGED <<db, host, locked, saved, made, spent>>

\* The operator confirms, or the PIN is right: the page takes the vouch.
vouched(t) ==
    /\ At(t, "rejoin", "asked")
    /\ Go(t, "accept")
    /\ UNCHANGED <<db, host, locked, saved, made, spent>>

\* Mutant: a request the host has forgotten is waited for still.
turnedAway_Waits(t) ==
    /\ At(t, "rejoin", "asked") /\ Fault
    /\ Quit(t)
    /\ UNCHANGED <<db, host, locked, saved, made>>

\* It is rejected, or forgotten after ten minutes.
turnedAway(t) ==
    /\ At(t, "rejoin", "asked")
    /\ Quit(t)
    /\ UNCHANGED <<db, host, locked, saved, made, spent>>

\* acceptVouch, storeDeviceVouch: kept if the pinned host signed it for this
\* device.  No word of a person key stored meanwhile.
storeDeviceVouch(t) ==
    /\ At(t, "rejoin", "accept")
    /\ \/ /\ db' = [db EXCEPT !.vouch = task(t).key]
          /\ pages' = [pages EXCEPT ![t].shown = vouchStatus(task(t).key),
                                    ![t].task = Resting, ![t].roster = {}]
          /\ UNCHANGED spent
       \/ Fault /\ Quit(t) /\ UNCHANGED db      \* no host is pinned
    /\ UNCHANGED <<host, locked, saved, made>>

\* FindBackup, ScanBackup: a copy comes from a file, a picture or the camera; or
\* the host hands out the record it holds for the passkey (fetchPasskeyRecord).
FindBackup == saved
givesRecords == host.records       \* to whom the passkey's token says it is theirs
fetchPasskeyRecord == givesRecords

\* RestoreFlow, once a copy has opened to a key.
restoreWith(t, copy, method) ==
    /\ Welcomes(t) \/ Vouched(t)
    /\ copy \in FindBackup \cup fetchPasskeyRecord
    /\ opensTo(copy, method) # 0
    /\ Begin(t, "restore", "vouch", opensTo(copy, method), unlockedBy(method))
    /\ UNCHANGED <<db, host, locked, saved, made, spent>>

\* JoinFlow: a key without a join is put to the host, signed by the worker.
signJoinRequest(t) ==
    /\ HasKey(t) /\ "joined" \notin pages[t].shown.who.marks
    /\ Begin(t, "join", "post", db.person.key, "joined")
    /\ UNCHANGED <<db, host, locked, saved, made, spent>>

Marking(t) == [Resting EXCEPT !.op = "mark", !.at = "load", !.by = task(t).by]

\* joinHostRoster: the host takes it, and the answer may be lost; or it does not.
joinHostRoster(t) ==
    /\ At(t, "join", "post")
    /\ \/ /\ host' = [host EXCEPT !.people = @ \cup {task(t).key}]
          /\ \/ pages' = [pages EXCEPT ![t].task = Marking(t)] /\ UNCHANGED spent
             \/ Fault /\ Quit(t)
       \/ Fault /\ Quit(t) /\ UNCHANGED host
    /\ UNCHANGED <<db, locked, saved, made>>

\* BackupFlow.  The stored key is locked with the passphrase...  (A page without
\* a host offers this before the join, and is left out.)
backUpPersonKey(t) ==
    /\ HasKey(t) /\ "joined" \in pages[t].shown.who.marks
    /\ "backedUp" \notin pages[t].shown.who.marks
    /\ locked' = locked \cup {wrapPersonKey(db.person.key)}
    /\ Begin(t, "backup", "save", db.person.key, "backedUp")
    /\ UNCHANGED <<db, host, saved, made, spent>>

\* ...saved, if the person does before pressing "I saved it"...
saveBackupFile(t) ==
    /\ At(t, "backup", "save")
    /\ \E did \in BOOLEAN : saved' = IF did THEN saved \cup {wrapPersonKey(task(t).key)} ELSE saved
    /\ Go(t, "check")
    /\ UNCHANGED <<db, host, locked, made, spent>>

\* ...and what the page has in hand is opened with the passphrase again.
checkPersonKeyBackup(t) ==
    /\ At(t, "backup", "check")
    /\ IF db.person.key # opensTo(wrapPersonKey(task(t).key), "passphrase") THEN Quit(t)
       ELSE pages' = [pages EXCEPT ![t].task.op = "mark", ![t].task.at = "read"]
    /\ UNCHANGED <<db, host, locked, saved, made, spent>>

\* PasskeyRecordSettings: a passkey is asked for, in a tab of its own.  (Another
\* passkey for a key that has a record adds nothing here, and is left out.)
protect(t) ==
    /\ HasKey(t) /\ "recorded" \notin pages[t].shown.who.marks
    /\ Begin(t, "record", "ceremony", 0, "recorded")
    /\ UNCHANGED <<db, host, locked, saved, made, spent>>

\* runPasskeyCeremony: the tab answers, is closed, declines, or times out.  With
\* an answer the worker locks the key that is stored by then.
runPasskeyCeremony(t) ==
    /\ At(t, "record", "ceremony")
    /\ \E ok \in BOOLEAN :
         IF ok /\ Exists(db.person) THEN Begin(t, "record", "post", db.person.key, "recorded")
         ELSE Quit(t)
    /\ UNCHANGED <<db, host, locked, saved, made, spent>>

\* A host keeps a record for people on its roster only (passkeyRecords.ts).
takesRecord(k) == k \in host.people

\* The host's side of the post: what it has after it.
hostStores(k) ==
    IF takesRecord(k) THEN [host EXCEPT !.records = @ \cup {wrapPersonKeyWithPasskey(k)}]
                      ELSE host

\* Mutant: the record is marked written although the host refused it.
storePasskeyRecord_Unheard(t) ==
    /\ At(t, "record", "post")
    /\ host' = hostStores(task(t).key)
    /\ pages' = [pages EXCEPT ![t].task = Marking(t)]
    /\ UNCHANGED <<db, locked, saved, made, spent>>

\* storePasskeyRecord: the host takes it or not, and its answer may be lost.
storePasskeyRecord(t) ==
    /\ At(t, "record", "post")
    /\ host' = hostStores(task(t).key)
    /\ IF takesRecord(task(t).key)
       THEN \/ pages' = [pages EXCEPT ![t].task = Marking(t)] /\ UNCHANGED spent
            \/ Fault /\ Quit(t)
       ELSE UNCHANGED spent /\ Quit(t)
    /\ UNCHANGED <<db, locked, saved, made>>

\* The tab is closed or reloaded, whatever it is at.
closePage(t) ==
    /\ pages[t].open /\ May("opens", MaxOpens) /\ Spend("opens")
    /\ pages' = [pages EXCEPT ![t] = Closed]
    /\ UNCHANGED <<db, host, locked, saved, made>>

\* The host's address changes, or the browser drops the origin's storage: the
\* guest starts over, and finds the same host at another origin.
newOrigin ==
    /\ May("moves", MaxMoves) /\ Spend("moves")
    /\ db' = [person |-> Nobody, vouch |-> 0]
    /\ pages' = [t \in Tabs |-> Closed]
    /\ UNCHANGED <<host, locked, saved, made>>

Acts(t) ==
    \/ openPage(t) \/ onNew(t) \/ askForVouch(t) \/ (\E copy \in saved \cup host.records, method \in {"passphrase", "passkey"} :
                                                 restoreWith(t, copy, method))
    \/ signJoinRequest(t) \/ backUpPersonKey(t) \/ saveBackupFile(t)
    \/ protect(t) \/ closePage(t)

Answers(t) ==
    \/ fetchRoster(t) \/ turnedAway(t) \/ storeDeviceVouch(t)
    \/ joinHostRoster(t) \/ checkPersonKeyBackup(t)
    \/ runPasskeyCeremony(t) \/ storePasskeyRecord(t)

KeyNext ==
    \/ \E t \in Tabs : Worker(t) \/ Answers(t) \/ vouched(t) \/ Acts(t)
    \/ newOrigin

\* A worker goes on, a request is answered or fails, and one for a vouch is at
\* last forgotten; that anyone confirms it is not assumed.
Fairness == \A t \in Tabs : WF_keyVars(Worker(t) \/ Answers(t))

KeySpec == KeyInit /\ [][KeyNext]_keyVars /\ Fairness

-----------------------------------------------------------------------------
KeyTypeOK ==
    /\ db \in [person : [key : 0 .. MaxKeys, marks : SUBSET Marks], vouch : 0 .. MaxKeys]
    /\ \A t \in Tabs :
         /\ pages[t].shown.is \in {"unknown", "none", "vouch", "person"}
         /\ pages[t].roster \subseteq Keys
         /\ task(t).op \in {"none", "status", "create", "rejoin", "restore", "join", "backup",
                            "record", "mark"}
         /\ task(t).key \in 0 .. MaxKeys
    /\ host.people \subseteq Keys /\ {copy.key : copy \in host.records} \subseteq host.people
    /\ saved \subseteq locked /\ locked \subseteq {wrapPersonKey(k) : k \in 1 .. made}

\* A person key, once stored, is the guest's for as long as it keeps its storage:
\* no tab that makes, restores or marks one puts another in its place
\* (provenanceDatabase.ts, "so that when two tabs race to create a key, the loser
\* fails instead of overwriting the key the winner may already have used").
KeyStays ==
    [][\/ ~Exists(db.person)
       \/ db'.person.key = db.person.key
       \/ spent'.moves # spent.moves]_keyVars

\* A page never shows, and so never lets the person name or back up, a key other
\* than the one the guest signs with, whichever tab made or restored it.
ShownIsStored ==
    \A t \in Tabs : pages[t].shown.is = "person" => pages[t].shown.who.key = db.person.key

\* What the record says of its key is so, whatever came between the answer and
\* the note of it: the host has the person it says joined, and holds the record
\* it says was written, and a backup of that very key was opened.  (No page asks
\* again for what is marked, so a false mark leaves no way back.)
TrueOf(who) ==
    /\ "joined" \in who.marks => who.key \in host.people
    /\ "recorded" \in who.marks => wrapPersonKeyWithPasskey(who.key) \in host.records
    /\ "backedUp" \in who.marks => wrapPersonKey(who.key) \in locked

MarksAreTrue ==
    /\ TrueOf(db.person)
    /\ \A t \in Tabs : pages[t].shown.is = "person" => TrueOf(pages[t].shown.who)

\* What a page has asked of its worker or its host comes to an end, with or
\* without what was asked for; a closed tab ends it too.
TasksEnd ==
    \A t \in Tabs :
        (task(t).op \notin {"none", "backup"})
            ~> (task(t).op \in {"none", "backup"} \/ made = MaxKeys)

-----------------------------------------------------------------------------
(* Broken by the code: see the README's list of disagreements.             *)

\* "When the host already knows people ... no key is made until the person says
\* they are new" (usePersonKey.ts).
NewOnlyWhenSaid ==
    [][\A t \in Tabs :
          (At(t, "create", "add") /\ task(t)' # task(t) /\ ~Exists(db.person))
              => (task(t).said \/ host.people = {})]_keyVars

\* "That check unlocks the saved backup for real" (PersonKeyBackupPrompt.tsx).
BackedUpIsSaved == "backedUp" \in db.person.marks => wrapPersonKey(db.person.key) \in saved

\* "A vouch for another person is not this person's to replace"
\* (personKeyRequests.ts).
VouchSpared ==
    [][\A t \in Tabs :
          (At(t, "restore", "clear") /\ db'.vouch # db.vouch) => db.vouch = task(t).key]_keyVars

\* A mark, once written, stays: the record is put back whole, over the other's.
MarksStay ==
    [][db'.person.key = db.person.key => db.person.marks \subseteq db'.person.marks]_keyVars
=============================================================================
