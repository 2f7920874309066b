------------------------------- MODULE EventLog -------------------------------
(***************************************************************************)
(* The host's side of the play counts: the append-only event log with its   *)
(* dedupe index (eventStore.ts), the aggregates derived from it            *)
(* (aggregates.ts), and the two callers that drive them, the ingest route  *)
(* (eventHttp.ts) and the start and stop of the sync server                *)
(* (syncServer.ts).                                                        *)
(*                                                                         *)
(* The log is one file per UTC day, a "segment".  A segment is abstracted  *)
(* to the number of readable lines it holds per event: no reader depends   *)
(* on their order.  Totals are kept per event rather than per recording:   *)
(* a fold only adds, so a recording's total is the sum over its events.    *)
(*                                                                         *)
(* A server instance is one run of startSyncServer.  Toggling LAN or HTTPS *)
(* stops one instance and starts the next inside the same process, and     *)
(* what the old one left running (an append, the retention sweep) goes on  *)
(* against the same files: each instance has its own memory here.          *)
(***************************************************************************)
EXTENDS Naturals, FiniteSets

CONSTANTS
    Events,        \* events, each named by its dedupe key (deviceId, id)
    Instances,     \* server instances that can be alive in one process
    NoInstance,    \* no instance is current: the server is stopped
    MaxDay,        \* bound: the last day the clock reaches
    Retention,     \* DEFAULT_EVENT_MAX_AGE_MS, in days
    ResendWindow,  \* a guest re-sends an event this many days after it landed
    MaxCopies,     \* bound: lines one event may leave in one segment
    Faults,        \* what may go wrong beside a crash or a clean I/O error
    MaxFaults      \* bound: faults that strike in one behaviour

(***************************************************************************)
(* torn          a crash may leave part of an append in the file           *)
(* partialError  a failing append may have written part of its bytes       *)
(* overlap       a restart may come while the old instance is still busy   *)
(* noAggregates  the aggregates may fail to open                           *)
(* noBaseline    aggregates.json may fail to be read, and counts as empty  *)
(* noSegment     a sweep may fail to read the segment it is to fold        *)
(***************************************************************************)
FaultKinds ==
    {"torn", "partialError", "overlap", "noAggregates", "noBaseline", "noSegment"}

ASSUME ConstantsAssumption ==
    /\ MaxDay \in Nat \ {0}
    /\ Retention \in Nat \ {0}
    /\ ResendWindow \in Nat
    /\ MaxCopies \in Nat \ {0}
    /\ Faults \subseteq FaultKinds
    /\ NoInstance \notin Instances
    /\ MaxFaults \in Nat

Days == 1 .. MaxDay

VARIABLES
    clock,      \* the current UTC day
    segs,       \* the segments that exist in logDir
    lines,      \* lines[d][e]: readable lines of event e in segment d
    torn,       \* segments whose last line has no newline
    openLine,   \* openLine[d]: the event that unterminated line reads as, if any
    baseDisk,   \* aggregates.json: totals frozen so far, and foldedSegments
    cur,        \* the instance that listens (`current` in syncServer.ts)
    seen,       \* seen[i]: the dedupe index
    base,       \* base[i]: `baseline` and `foldedSegments` in memory
    rollup,     \* rollup[i][e]: plays served for e
    hasAgg,     \* hasAgg[i]: the aggregate store opened
    app,        \* app[i]: the append that holds the store's write chain
    sw,         \* sw[i]: the retention sweep started with instance i
    first,      \* ghost, first[e]: the day e first landed, 0 when it has not
    acked,      \* ghost: events a guest was told the host has
    struck      \* ghost: the faults that have struck so far

disk == <<segs, lines, torn, openLine, baseDisk>>
mem  == <<seen, base, rollup, hasAgg>>
vars == <<clock, disk, cur, mem, app, sw, first, acked, struck>>

NoLines    == [e \in Events |-> 0]

EmptyBase  == [plays |-> NoLines, folded |-> {}]
Idle       == [pc |-> "idle", day |-> 0, acc |-> {}, dup |-> {}]
NoSweep    == [pc |-> "off", now |-> 0, todo |-> {}, seg |-> 0,
               expiring |-> {}, removed |-> {}]

\* The faults in K strike, each kind at most once in a behaviour.
Strike(K) ==
    /\ K \subseteq Faults \ struck
    /\ Cardinality(struck \cup K) <= MaxFaults
    /\ struck' = struck \cup K

\* Mutant: a fold replaces a recording's total instead of adding to it.
Plus_Overwrites(p, q) == [e \in Events |-> q[e]]

\* deriveAggregates folds a segment line by line; per event that is a sum.
Plus(p, q)  == [e \in Events |-> p[e] + q[e]]
Readable(d) == {e \in Events : lines[d][e] > 0}

-----------------------------------------------------------------------------
(***************************************************************************)
(* What an append leaves on disk.  `acc` is the payload, in some order.    *)
(* On a segment that ends in an unterminated line the first event of the   *)
(* payload is glued to that line, and neither can be read afterwards.      *)
(***************************************************************************)
Survivors(d, acc) ==
    IF d \in torn THEN {acc \ {e} : e \in acc} ELSE {acc}

\* Every byte of the payload reached the file.
WholeWrites(d, acc) ==
    {[kept |-> k, open |-> {}, torn |-> FALSE] : k \in Survivors(d, acc)}

(***************************************************************************)
(* Only a prefix of the bytes did: whole lines, then perhaps a line cut    *)
(* short, either inside its JSON or exactly before its newline.            *)
(***************************************************************************)
CutWrites(d, acc) ==
    UNION {{w \in [kept : SUBSET s, open : SUBSET s, torn : BOOLEAN] :
               /\ w.open \subseteq w.kept
               /\ Cardinality(w.open) <= 1
               /\ (w.open # {}) => w.torn
               /\ (w.kept = s) => w.torn /\ (s # {} => w.open # {})}
           : s \in Survivors(d, acc)}

Land(d, w) ==
    /\ segs' = segs \cup {d}
    /\ lines' = [lines EXCEPT ![d] = [e \in Events |->
                    (IF e \in openLine[d] THEN lines[d][e] - 1 ELSE lines[d][e])
                    + (IF e \in w.kept THEN 1 ELSE 0)]]
    /\ torn' = IF w.torn THEN torn \cup {d} ELSE torn \ {d}
    /\ openLine' = [openLine EXCEPT ![d] = w.open]
    /\ UNCHANGED baseDisk

-----------------------------------------------------------------------------
Init ==
    /\ clock = 1
    /\ segs = {}
    /\ lines = [d \in Days |-> NoLines]
    /\ torn = {}
    /\ openLine = [d \in Days |-> {}]
    /\ baseDisk = EmptyBase
    /\ cur = NoInstance
    /\ seen = [i \in Instances |-> {}]
    /\ base = [i \in Instances |-> EmptyBase]
    /\ rollup = [i \in Instances |-> NoLines]
    /\ hasAgg = [i \in Instances |-> FALSE]
    /\ app = [i \in Instances |-> Idle]
    /\ sw = [i \in Instances |-> NoSweep]
    /\ first = [e \in Events |-> 0]
    /\ acked = {}
    /\ struck = {}

\* Bound: a write may cross one midnight, not two.
NextDay ==
    /\ clock < MaxDay
    /\ \A i \in Instances : app[i].pc # "idle" => app[i].day = clock
    /\ clock' = clock + 1
    /\ UNCHANGED <<struck, disk, cur, mem, app, sw, first, acked>>

Busy(i) == app[i].pc # "idle" \/ sw[i].pc # "off"

\* The lines of e in the segments baseline b has not absorbed, one per copy.
LiveLines(b, e) ==
    UNION {{<<d, k>> : k \in 1 .. lines[d][e]} : d \in segs \ b.folded}

\* Mutant: the totals are rebuilt from the log alone.
DerivedPlays_LogOnly(b) == [e \in Events |-> Cardinality(LiveLines(b, e))]

\* aggregates.derive: the baseline plus those lines.
DerivedPlays(b) == [e \in Events |-> b.plays[e] + Cardinality(LiveLines(b, e))]

\* Mutant: only today's segment is indexed.
OpenIndex_Today == UNION {Readable(d) : d \in segs \cap {clock}}

\* eventStore.open: the keys of every line that can be read.
OpenIndex == UNION {Readable(d) : d \in segs}

\* aggregates.open, when readBaseline gives b.
OpenAggregates(i, b) ==
    /\ hasAgg' = [hasAgg EXCEPT ![i] = TRUE]
    /\ base' = [base EXCEPT ![i] = b]
    /\ rollup' = [rollup EXCEPT ![i] = DerivedPlays(b)]

\* A start that finds an older instance at work.
Overlap == IF \E j \in Instances : Busy(j) THEN {"overlap"} ELSE {}

(***************************************************************************)
(* startSyncServer: the log is opened and indexed, the aggregates rebuilt, *)
(* both before the first request, and the retention sweep is left running. *)
(***************************************************************************)
Start(i) ==
    /\ cur = NoInstance
    /\ ~Busy(i)
    /\ cur' = i
    /\ seen' = [seen EXCEPT ![i] = OpenIndex]
    /\ \/ OpenAggregates(i, baseDisk) /\ Strike(Overlap)
       \/ OpenAggregates(i, EmptyBase) /\ Strike(Overlap \cup {"noBaseline"})
       \/ /\ Strike(Overlap \cup {"noAggregates"})
          /\ hasAgg' = [hasAgg EXCEPT ![i] = FALSE]
          /\ base' = [base EXCEPT ![i] = EmptyBase]
          /\ rollup' = [rollup EXCEPT ![i] = NoLines]
    /\ sw' = [sw EXCEPT ![i] = [NoSweep EXCEPT !.pc = "list", !.now = clock]]
    /\ UNCHANGED <<clock, disk, app, first, acked>>

\* stopSyncServer has closed the connections; it waits for neither the sweep
\* nor an append that is under way.
Stop ==
    /\ cur # NoInstance
    /\ cur' = NoInstance
    /\ UNCHANGED <<clock, struck, disk, mem, app, sw, first, acked>>

\* The process ends: every instance's memory and pending work is gone.
LoseMemory ==
    /\ cur' = NoInstance
    /\ seen' = [i \in Instances |-> {}]
    /\ base' = [i \in Instances |-> EmptyBase]
    /\ rollup' = [i \in Instances |-> NoLines]
    /\ hasAgg' = [i \in Instances |-> FALSE]
    /\ app' = [i \in Instances |-> Idle]
    /\ sw' = [i \in Instances |-> NoSweep]
    /\ UNCHANGED <<clock, acked>>

Crash ==
    /\ LoseMemory
    /\ UNCHANGED <<disk, first, struck>>

NoteLanding(d, evs) ==
    first' = [e \in Events |->
                 IF e \in evs /\ first[e] = 0 THEN d ELSE first[e]]

\* The process ends in the middle of an append.
CrashTearing(i) ==
    /\ Strike({"torn"})
    /\ app[i].pc = "write"
    /\ LoseMemory
    /\ \E w \in CutWrites(app[i].day, app[i].acc) :
          /\ \A e \in w.kept : lines[app[i].day][e] < MaxCopies
          /\ Land(app[i].day, w)
          /\ NoteLanding(app[i].day, w.kept)

-----------------------------------------------------------------------------
(***************************************************************************)
(* handleIngest.  `batch` is what validation and isKnownRecording left of  *)
(* the request; an event rejected there never reaches the store.  An event *)
(* that has landed before may come again for ResendWindow days, because    *)
(* the answer to it was lost.  A request that waits for its turn in the    *)
(* write chain is taken up here when its turn comes; the segment it is     *)
(* written to may be yesterday's by the time the write lands.              *)
(***************************************************************************)
Resendable(e) == first[e] = 0 \/ clock <= first[e] + ResendWindow

Ingest(i, batch) ==
    LET dup == batch \cap seen[i]
        acc == batch \ seen[i]
    IN /\ cur = i
       /\ app[i].pc = "idle"
       /\ \A e \in batch : Resendable(e)
       /\ seen' = [seen EXCEPT ![i] = @ \cup acc]
       /\ IF acc = {}
            THEN acked' = acked \cup dup /\ UNCHANGED app
            ELSE /\ app' = [app EXCEPT ![i] = [pc |-> "write", day |-> clock,
                                               acc |-> acc, dup |-> dup]]
                 /\ UNCHANGED acked
       /\ UNCHANGED <<clock, struck, disk, cur, base, rollup, hasAgg, sw, first>>

\* appendFile resolves.
AppendWritten(i) ==
    /\ app[i].pc = "write"
    /\ \E w \in WholeWrites(app[i].day, app[i].acc) :
          /\ \A e \in w.kept : lines[app[i].day][e] < MaxCopies
          /\ Land(app[i].day, w)
    /\ app' = [app EXCEPT ![i].pc = "answer"]
    /\ NoteLanding(app[i].day, app[i].acc)
    /\ UNCHANGED <<clock, struck, cur, mem, sw, acked>>

\* aggregates.record and the 200, heard or not.
Answer(i) ==
    /\ app[i].pc = "answer"
    /\ rollup' = IF hasAgg[i]
                   THEN [rollup EXCEPT ![i] = [e \in Events |->
                            @[e] + (IF e \in app[i].acc THEN 1 ELSE 0)]]
                   ELSE rollup
    /\ acked' = acked \cup app[i].acc \cup app[i].dup
    /\ app' = [app EXCEPT ![i] = Idle]
    /\ UNCHANGED <<clock, struck, disk, cur, seen, base, hasAgg, sw, first>>

\* Mutant: the ids of a failed append stay in the index.
ForgetAppend_Keeps(i) ==
    /\ app' = [app EXCEPT ![i] = Idle]
    /\ UNCHANGED <<clock, cur, seen, base, rollup, hasAgg, sw, acked>>

\* The catch around appendFile: the ids leave the index and the guest gets a 500.
ForgetAppend(i) ==
    /\ seen' = [seen EXCEPT ![i] = @ \ app[i].acc]
    /\ app' = [app EXCEPT ![i] = Idle]
    /\ UNCHANGED <<clock, cur, base, rollup, hasAgg, sw, acked>>

AppendFails(i) ==
    /\ app[i].pc = "write"
    /\ ForgetAppend(i)
    /\ UNCHANGED <<disk, first, struck>>

AppendFailsPartly(i) ==
    /\ Strike({"partialError"})
    /\ app[i].pc = "write"
    /\ ForgetAppend(i)
    /\ \E w \in CutWrites(app[i].day, app[i].acc) :
          /\ \A e \in w.kept : lines[app[i].day][e] < MaxCopies
          /\ Land(app[i].day, w)
          /\ NoteLanding(app[i].day, w.kept)

-----------------------------------------------------------------------------
(***************************************************************************)
(* The retention sweep: eventStore.sweep driven by aggregates.sweep.       *)
(***************************************************************************)
\* Mutant: the age of a segment is taken from its first line, not its last.
Expired_FromStart(d, now) == d + Retention <= now

\* segmentEndMs(name) <= now - maxAgeMs
Expired(d, now) == d + 1 + Retention <= now

SweepList(i) ==
    /\ sw[i].pc = "list"
    /\ sw' = [sw EXCEPT ![i].pc = "next",
                        ![i].todo = {d \in segs : Expired(d, sw[i].now)}]
    /\ UNCHANGED <<clock, struck, disk, cur, mem, app, first, acked>>

LinesOf(d, evs) == [e \in Events |-> IF e \in evs THEN lines[d][e] ELSE 0]

\* Read one expired segment and fold it into the baseline in memory.  A
\* segment that is gone by now reads as empty and is folded all the same.
SweepFold(i) ==
    /\ sw[i].pc = "next"
    /\ \E d \in sw[i].todo : \E read \in SUBSET Readable(d) :
          /\ Strike(IF read = Readable(d) THEN {} ELSE {"noSegment"})
          /\ \A c \in sw[i].todo : d <= c
          /\ LET folds == hasAgg[i] /\ d \notin base[i].folded
             IN /\ base' = IF folds
                    THEN [base EXCEPT ![i] =
                            [plays  |-> Plus(@.plays, LinesOf(d, read)),
                             folded |-> @.folded \cup {d}]]
                    ELSE base
                /\ sw' = [sw EXCEPT
                            ![i].pc = IF folds THEN "persist" ELSE "unlink",
                            ![i].todo = @ \ {d},
                            ![i].seg = d,
                            ![i].expiring = read]
    /\ UNCHANGED <<clock, disk, cur, seen, rollup, hasAgg, app, first, acked>>

\* Mutant: the fold is kept in memory only.
WriteBaseline_Skipped(i) == UNCHANGED disk

\* writeBaseline replaces aggregates.json by rename.
WriteBaseline(i) ==
    /\ baseDisk' = base[i]
    /\ UNCHANGED <<segs, lines, torn, openLine>>

SweepPersist(i) ==
    /\ sw[i].pc = "persist"
    /\ WriteBaseline(i)
    /\ sw' = [sw EXCEPT ![i].pc = "unlink"]
    /\ UNCHANGED <<clock, struck, cur, mem, app, first, acked>>

\* onSegment throws: the segment is retained and the loop goes on.
SweepPersistFails(i) ==
    /\ sw[i].pc = "persist"
    /\ sw' = [sw EXCEPT ![i].pc = "next"]
    /\ UNCHANGED <<clock, struck, disk, cur, mem, app, first, acked>>

SweepUnlink(i) ==
    /\ sw[i].pc = "unlink"
    /\ LET d == sw[i].seg
       IN /\ segs' = segs \ {d}
          /\ lines' = [lines EXCEPT ![d] = NoLines]
          /\ torn' = torn \ {d}
          /\ openLine' = [openLine EXCEPT ![d] = {}]
          /\ seen' = [seen EXCEPT ![i] = @ \ sw[i].expiring]
          /\ sw' = [sw EXCEPT ![i].pc = "next", ![i].removed = @ \cup {d}]
    /\ UNCHANGED <<clock, struck, baseDisk, cur, base, rollup, hasAgg, app, first, acked>>

\* rm throws: the sweep ends here and the folded names stay.
SweepUnlinkFails(i) ==
    /\ sw[i].pc = "unlink"
    /\ sw' = [sw EXCEPT ![i] = NoSweep]
    /\ UNCHANGED <<clock, struck, disk, cur, mem, app, first, acked>>

\* All segments done: names of unlinked segments leave foldedSegments.
SweepSettle(i) ==
    /\ sw[i].pc = "next"
    /\ sw[i].todo = {}
    /\ LET settled == sw[i].removed \cap base[i].folded
       IN IF settled # {}
            THEN /\ base' = [base EXCEPT ![i].folded = @ \ settled]
                 /\ sw' = [sw EXCEPT ![i].pc = "settle"]
            ELSE /\ sw' = [sw EXCEPT ![i] = NoSweep]
                 /\ UNCHANGED base
    /\ UNCHANGED <<clock, struck, disk, cur, seen, rollup, hasAgg, app, first, acked>>

SweepDone(i) ==
    /\ sw[i].pc = "settle"
    /\ \/ WriteBaseline(i)
       \/ UNCHANGED disk      \* writeBaseline throws
    /\ sw' = [sw EXCEPT ![i] = NoSweep]
    /\ UNCHANGED <<clock, struck, cur, mem, app, first, acked>>

-----------------------------------------------------------------------------
Sweep(i) ==
    \/ SweepList(i)
    \/ SweepFold(i)
    \/ SweepPersist(i)
    \/ SweepPersistFails(i)
    \/ SweepUnlink(i)
    \/ SweepUnlinkFails(i)
    \/ SweepSettle(i)
    \/ SweepDone(i)

Append(i) ==
    \/ AppendWritten(i)
    \/ Answer(i)
    \/ AppendFails(i)
    \/ AppendFailsPartly(i)

Next ==
    \/ NextDay
    \/ Stop
    \/ Crash
    \/ \E i \in Instances :
          \/ Start(i)
          \/ CrashTearing(i)
          \/ \E batch \in SUBSET Events \ {{}} : Ingest(i, batch)
          \/ Append(i)
          \/ Sweep(i)

Spec == Init /\ [][Next]_vars

-----------------------------------------------------------------------------
Bases   == [plays : [Events -> Nat], folded : SUBSET Days]
Appends == [pc : {"idle", "write", "answer"}, day : Days \cup {0},
            acc : SUBSET Events, dup : SUBSET Events]
Sweeps  == [pc : {"off", "list", "next", "persist", "unlink", "settle"},
            now : Days \cup {0}, todo : SUBSET Days, seg : Days \cup {0},
            expiring : SUBSET Events, removed : SUBSET Days]

(***************************************************************************)
(* Every variable keeps its type; in particular no total, line count or    *)
(* segment name leaves its domain while appends, sweeps and crashes        *)
(* interleave.                                                             *)
(***************************************************************************)
TypeOK ==
    /\ clock \in Days
    /\ segs \subseteq Days
    /\ lines \in [Days -> [Events -> Nat]]
    /\ torn \subseteq Days
    /\ openLine \in [Days -> SUBSET Events]
    /\ baseDisk \in Bases
    /\ cur \in Instances \cup {NoInstance}
    /\ seen \in [Instances -> SUBSET Events]
    /\ base \in [Instances -> Bases]
    /\ rollup \in [Instances -> [Events -> Nat]]
    /\ hasAgg \in [Instances -> BOOLEAN]
    /\ app \in [Instances -> Appends]
    /\ sw \in [Instances -> Sweeps]
    /\ first \in [Events -> Days \cup {0}]
    /\ acked \subseteq Events
    /\ struck \subseteq FaultKinds

(***************************************************************************)
(* The places on disk that count e: place 0 is the baseline, place d the   *)
(* segment of day d as long as the baseline has not absorbed it, with one  *)
(* element per copy.  A restart would show Cardinality(Homes(e)) plays.    *)
(***************************************************************************)
Homes(e) == {<<0, k>> : k \in 1 .. baseDisk.plays[e]} \cup LiveLines(baseDisk, e)

\* No fault has struck; or only faults that lose lines or totals and leave the
\* dedupe index and foldedSegments what the disk says.
Clean       == struck = {}
IndexSpared == struck \subseteq {"torn", "noAggregates", "noBaseline", "noSegment"}

(***************************************************************************)
(* No play counts twice: retries, crashes between write and answer, torn   *)
(* and unreadable files, and a sweep interrupted anywhere leave at most    *)
(* one place that counts an event (the dedupe index of eventStore.ts and   *)
(* foldedSegments of aggregates.ts together).                              *)
(***************************************************************************)
AtMostOnce ==
    IndexSpared => \A e \in Events : \A g, h \in Homes(e) : g = h

(***************************************************************************)
(* An event the guest was told is accepted or a duplicate, and has         *)
(* therefore deleted, is counted on disk: eventHttp.ts calls it "Counted   *)
(* once; safe for it to forget".                                           *)
(***************************************************************************)
AckedIsCounted == Clean => \A e \in acked : Homes(e) # {}

(***************************************************************************)
(* The totals the running server serves are the ones a restart would       *)
(* recompute from the log and the baseline, also while its sweep is        *)
(* between a fold and an unlink.                                           *)
(***************************************************************************)
RollupMatchesDisk ==
    struck \subseteq {"noAggregates"} /\ cur # NoInstance /\ hasAgg[cur] /\ app[cur].pc # "answer" =>
        \A e \in Events : rollup[cur][e] = Cardinality(Homes(e))

(***************************************************************************)
(* The dedupe index of the running server knows every event the log can    *)
(* give back, so none is admitted again (eventStore.open).                 *)
(***************************************************************************)
IndexCoversLog ==
    IndexSpared /\ cur # NoInstance =>
        \A d \in segs : Readable(d) \subseteq seen[cur]

(***************************************************************************)
(* "A lifetime play count must never decrease" (aggregates.ts), across     *)
(* sweeps, crashes and restarts.                                           *)
(***************************************************************************)
PlaysNeverDecrease ==
    [][Clean' => \A e \in Events : Cardinality(Homes(e)) <= Cardinality(Homes(e)')]_vars

(***************************************************************************)
(* The frozen baseline "is the only analytics file that cannot be          *)
(* recomputed" (aggregates.ts): no total in it ever goes down, even when   *)
(* appends tear or fail midway, a segment cannot be read and the           *)
(* aggregates fail to open.                                                *)
(***************************************************************************)
BaselineNeverShrinks ==
    [][struck' \cap {"noBaseline", "overlap"} = {} =>
          \A e \in Events : baseDisk.plays[e] <= baseDisk'.plays[e]]_vars

\* The abstract counter, read off the disk and the guests' knowledge.
Counter == INSTANCE PlayCounter
    WITH counted <- {e \in Events : Homes(e) # {}}, told <- acked,
         faulty <- ~Clean

(***************************************************************************)
(* The log, its index and its aggregates implement the abstract counter,   *)
(* up to the first fault that strikes.                                     *)
(***************************************************************************)
ImplementsCounter == Counter!Spec

-----------------------------------------------------------------------------
(***************************************************************************)
(* The inductive invariant behind the properties above, for a host without *)
(* the faults and guests that re-send within the retention period.         *)
(***************************************************************************)
Worker(i) == cur = i \/ Busy(i)

\* What the pending work must satisfy for the types to be preserved.
WorkTyped ==
    /\ \A d \in Days : \A e \in openLine[d] : lines[d][e] > 0
    /\ \A i \in Instances : app[i].pc # "idle" => app[i].day \in Days
    /\ \A i \in Instances : sw[i].pc \in {"persist", "unlink"} => sw[i].seg \in Days

Untorn == torn = {} /\ \A d \in Days : openLine[d] = {}

OneWorker == \A i, j \in Instances : Worker(i) /\ Worker(j) => i = j

\* Where e is, as far as a reader that starts from baseline b can tell: nowhere
\* before it landed, then in its segment, in the end in the baseline.
Unlanded(b, e) == b.plays[e] = 0 /\ \A d \in Days : lines[d][e] = 0
InLog(b, e)    == /\ b.plays[e] = 0
                  /\ first[e] \in segs \ b.folded
                  /\ lines[first[e]][e] = 1
InBase(b, e)   == /\ b.plays[e] = 1
                  /\ first[e] \in b.folded \/ lines[first[e]][e] = 0
                  /\ Expired(first[e], clock)

Placed(b) ==
    /\ \A e \in Events : IF first[e] = 0 THEN Unlanded(b, e)
                                        ELSE InLog(b, e) \/ InBase(b, e)
    /\ \A d \in b.folded : Expired(d, clock)

LinesPlaced ==
    \A d \in Days, e \in Events : lines[d][e] > 0 => first[e] = d /\ d \in segs

AppendOk(i) ==
    /\ app[i].pc # "idle" => app[i].day <= clock /\ clock <= app[i].day + 1
    /\ app[i].pc = "write" => /\ app[i].acc \subseteq seen[i]
                              /\ \A e \in app[i].acc : first[e] = 0
    /\ app[i].pc = "answer" => \A e \in app[i].acc : first[e] # 0
    /\ app[i].pc # "idle" => \A e \in app[i].dup : first[e] # 0

IndexOk(i) ==
    /\ \A d \in Days, e \in Events : lines[d][e] > 0 => e \in seen[i]
    /\ \A e \in seen[i] : first[e] # 0 \/ (app[i].pc = "write" /\ e \in app[i].acc)

\* A landed event is served once the append that brought it was recorded.
Served(i, e) == first[e] # 0 /\ ~(app[i].pc = "answer" /\ e \in app[i].acc)

RollupOk(i) == \A e \in Events : rollup[i][e] = IF Served(i, e) THEN 1 ELSE 0

SweepOk(i) ==
    /\ sw[i].now <= clock
    /\ sw[i].pc = "list" => base[i] = baseDisk
    /\ \A d \in sw[i].todo :
          /\ Expired(d, clock)
          /\ d \in base[i].folded => d \in baseDisk.folded
    /\ sw[i].pc \in {"persist", "unlink"} =>
          /\ Expired(sw[i].seg, clock)
          /\ sw[i].seg \in base[i].folded
          /\ \A e \in sw[i].expiring : first[e] = sw[i].seg
    /\ sw[i].pc = "unlink" => sw[i].seg \in baseDisk.folded
    /\ \A d \in sw[i].removed : Expired(d, clock) /\ \A e \in Events : lines[d][e] = 0

DiskOk ==
    /\ Untorn
    /\ LinesPlaced
    /\ Placed(baseDisk)
    /\ \A e \in acked : first[e] # 0

WorkerOk(i) ==
    /\ hasAgg[i]
    /\ Placed(base[i])
    /\ AppendOk(i)
    /\ IndexOk(i)
    /\ RollupOk(i)
    /\ SweepOk(i)

(***************************************************************************)
(* Every landed event is in exactly one place, on disk and in the memory   *)
(* of the one instance that works, and that instance knows of it.          *)
(***************************************************************************)
ExactlyOnceInv ==
    /\ OneWorker
    /\ DiskOk
    /\ \A i \in Instances : Worker(i) => WorkerOk(i)
=============================================================================
