---------------------------- MODULE EventLogProofs ----------------------------
(***************************************************************************)
(* Proofs about EventLog: its types are preserved under every fault; until *)
(* the first fault strikes a play is counted exactly once; none is counted *)
(* twice, or forgotten by the index, through all the faults that only lose *)
(* lines; a run without aggregates leaves the next one with the right      *)
(* totals; and the frozen baseline never shrinks while it can be read.     *)
(***************************************************************************)
EXTENDS EventLog, FiniteSetTheorems, TLAPS

TypeInv == TypeOK /\ WorkTyped

DiskTyped ==
    /\ segs \subseteq Days
    /\ lines \in [Days -> [Events -> Nat]]
    /\ torn \subseteq Days
    /\ openLine \in [Days -> SUBSET Events]
    /\ baseDisk \in Bases
    /\ \A d \in Days : \A e \in openLine[d] : lines[d][e] > 0

-----------------------------------------------------------------------------
\* The image of a finite set under a function is finite.
LEMMA FiniteImage ==
    ASSUME NEW S, NEW T, NEW f \in [S -> T], IsFiniteSet(S),
           \A t \in T : \E s \in S : f[s] = t
    PROVE  IsFiniteSet(T)
<1>1. f \in Surjection(S, T)
  BY DEF Surjection
<1> QED BY <1>1, FS_Surjection

\* What deriveAggregates returns is a total for every event.
LEMMA DerivedType ==
    ASSUME TypeOK, NEW b \in Bases
    PROVE  DerivedPlays(b) \in [Events -> Nat]
<1>1. IsFiniteSet(segs \ b.folded)
  <2>1. IsFiniteSet(Days)
    BY ConstantsAssumption, FS_Interval DEF Days
  <2> QED BY <2>1, FS_Subset DEF TypeOK
<1>2. ASSUME NEW e \in Events PROVE Cardinality(LiveLines(b, e)) \in Nat
  <2> DEFINE copies(d) == {<<d, k>> : k \in 1 .. lines[d][e]}
             all == {copies(d) : d \in segs \ b.folded}
  <2>1. \A d \in segs \ b.folded : lines[d][e] \in Nat
    BY DEF TypeOK
  <2>2. ASSUME NEW d \in segs \ b.folded PROVE IsFiniteSet(copies(d))
    <3>1. IsFiniteSet(1 .. lines[d][e])
      BY <2>1, FS_Interval
    <3> DEFINE f == [k \in 1 .. lines[d][e] |-> <<d, k>>]
    <3>2. /\ f \in [1 .. lines[d][e] -> copies(d)]
          /\ \A t \in copies(d) : \E k \in 1 .. lines[d][e] : f[k] = t
      OBVIOUS
    <3> HIDE DEF f, copies
    <3> QED BY <3>1, <3>2, FiniteImage
  <2>3. IsFiniteSet(all)
    <3> DEFINE f == [d \in segs \ b.folded |-> copies(d)]
    <3>1. /\ f \in [segs \ b.folded -> all]
          /\ \A t \in all : \E d \in segs \ b.folded : f[d] = t
      OBVIOUS
    <3> HIDE DEF f, all
    <3> QED BY <1>1, <3>1, FiniteImage
  <2>4. IsFiniteSet(UNION all)
    BY <2>2, <2>3, FS_UNION
  <2> QED BY <2>4, FS_CardinalityType DEF LiveLines
<1>3. ASSUME NEW e \in Events PROVE b.plays[e] + Cardinality(LiveLines(b, e)) \in Nat
  BY <1>2, <1>3 DEF Bases
<1> QED BY <1>3 DEF DerivedPlays

\* An append leaves a well-formed segment whatever part of it is written.
LEMMA LandType ==
    ASSUME TypeInv, NEW d \in Days, NEW w,
           w.kept \subseteq Events, w.open \subseteq w.kept, w.torn \in BOOLEAN,
           Land(d, w)
    PROVE  DiskTyped'
<1>1. \A e \in openLine[d] : lines[d][e] > 0
  BY DEF TypeInv, WorkTyped
<1> DEFINE row == [e \in Events |->
              (IF e \in openLine[d] THEN lines[d][e] - 1 ELSE lines[d][e])
              + (IF e \in w.kept THEN 1 ELSE 0)]
<1>2. row \in [Events -> Nat]
  BY <1>1 DEF TypeInv, TypeOK
<1>3. \A e \in w.open : row[e] > 0
  BY <1>1 DEF TypeInv, TypeOK
<1>4. lines' = [lines EXCEPT ![d] = row]
  BY DEF Land
<1> HIDE DEF row
<1>5. lines' \in [Days -> [Events -> Nat]]
  BY <1>2, <1>4 DEF TypeInv, TypeOK
<1>6. segs' \subseteq Days /\ torn' \subseteq Days
  BY DEF Land, TypeInv, TypeOK
<1>7. openLine' \in [Days -> SUBSET Events]
  BY DEF Land, TypeInv, TypeOK
<1>8. ASSUME NEW c \in Days, NEW e \in openLine'[c] PROVE lines'[c][e] > 0
  <2>1. CASE c = d
    BY <2>1, <1>3, <1>4, <1>8 DEF Land, TypeInv, TypeOK
  <2>2. CASE c # d
    BY <2>2, <1>4, <1>8 DEF Land, TypeInv, TypeOK, WorkTyped
  <2> QED BY <2>1, <2>2
<1>9. baseDisk' \in Bases
  BY DEF Land, TypeInv, TypeOK
<1> QED BY <1>5, <1>6, <1>7, <1>8, <1>9 DEF DiskTyped

\* The shape of the possible outcomes of an append.
LEMMA WriteShape ==
    ASSUME NEW d \in Days, NEW acc \in SUBSET Events,
           NEW w \in WholeWrites(d, acc) \cup CutWrites(d, acc)
    PROVE  w.kept \subseteq Events /\ w.open \subseteq w.kept /\ w.torn \in BOOLEAN
<1>1. \A s \in Survivors(d, acc) : s \subseteq Events
  BY DEF Survivors
<1>2. CASE w \in WholeWrites(d, acc)
  <2>1. PICK k \in Survivors(d, acc) : w = [kept |-> k, open |-> {}, torn |-> FALSE]
    BY <1>2 DEF WholeWrites
  <2> QED BY <1>1, <2>1
<1>3. CASE w \in CutWrites(d, acc)
  BY <1>1, <1>3 DEF CutWrites
<1> QED BY <1>2, <1>3

-----------------------------------------------------------------------------
\* What CrashTearing does to the state beside the disk.
LEMMA LoseMemoryType ==
    ASSUME TypeInv, LoseMemory
    PROVE  /\ clock' \in Days
           /\ cur' \in Instances \cup {NoInstance}
           /\ seen' \in [Instances -> SUBSET Events]
           /\ base' \in [Instances -> Bases]
           /\ rollup' \in [Instances -> [Events -> Nat]]
           /\ hasAgg' \in [Instances -> BOOLEAN]
           /\ app' = [i \in Instances |-> Idle]
           /\ sw' = [i \in Instances |-> NoSweep]
           /\ acked' \subseteq Events
<1>1. NoLines \in [Events -> Nat] /\ EmptyBase \in Bases
  BY DEF NoLines, EmptyBase, Bases
<1> QED BY <1>1 DEF LoseMemory, TypeInv, TypeOK

LEMMA NoteLandingType ==
    ASSUME TypeInv, NEW d \in Days, NEW evs, NoteLanding(d, evs)
    PROVE  first' \in [Events -> Days \cup {0}]
BY DEF NoteLanding, TypeInv, TypeOK

\* Every append outcome keeps the disk and the ghost well typed.
LEMMA AppendType ==
    ASSUME TypeInv, NEW i \in Instances, app[i].pc = "write",
           NEW w \in WholeWrites(app[i].day, app[i].acc)
                        \cup CutWrites(app[i].day, app[i].acc),
           Land(app[i].day, w)
    PROVE  app[i].day \in Days /\ DiskTyped'
<1>1. app[i].day \in Days /\ app[i].acc \in SUBSET Events
  BY DEF TypeInv, TypeOK, Appends, WorkTyped
<1>2. w.kept \subseteq Events /\ w.open \subseteq w.kept /\ w.torn \in BOOLEAN
  BY <1>1, WriteShape
<1> QED BY <1>1, <1>2, LandType

\* The pending work after a step that changes only its program counter.
LEMMA AppendGoes ==
    ASSUME app \in [Instances -> Appends], NEW i \in Instances,
           NEW p \in {"idle", "write", "answer"}, app' = [app EXCEPT ![i].pc = p]
    PROVE  /\ app' \in [Instances -> Appends]
           /\ app'[i] = [app[i] EXCEPT !.pc = p]
           /\ \A j \in Instances \ {i} : app'[j] = app[j]
<1>1. [app[i] EXCEPT !.pc = p] \in Appends
  BY DEF Appends
<1>2. app' = [app EXCEPT ![i] = [app[i] EXCEPT !.pc = p]]
  OBVIOUS
<1> QED BY <1>1, <1>2

LEMMA SweepGoes ==
    ASSUME sw \in [Instances -> Sweeps], NEW i \in Instances,
           NEW p \in {"off", "list", "next", "persist", "unlink", "settle"},
           sw' = [sw EXCEPT ![i].pc = p]
    PROVE  /\ sw' \in [Instances -> Sweeps]
           /\ sw'[i] = [sw[i] EXCEPT !.pc = p]
           /\ \A j \in Instances \ {i} : sw'[j] = sw[j]
<1>1. [sw[i] EXCEPT !.pc = p] \in Sweeps
  BY DEF Sweeps
<1>2. sw' = [sw EXCEPT ![i] = [sw[i] EXCEPT !.pc = p]]
  OBVIOUS
<1> QED BY <1>1, <1>2

LEMMA IdleType == Idle \in Appends /\ NoSweep \in Sweeps
BY DEF Idle, Appends, NoSweep, Sweeps

-----------------------------------------------------------------------------
LEMMA TypeInit == Init => TypeInv
<1>1. NoLines \in [Events -> Nat] /\ EmptyBase \in Bases
  BY DEF NoLines, EmptyBase, Bases
<1>2. 1 \in Days
  BY ConstantsAssumption DEF Days
<1>3. Idle \in Appends /\ NoSweep \in Sweeps
  BY IdleType
<1>4. Idle.pc = "idle" /\ NoSweep.pc = "off"
  BY DEF Idle, NoSweep
<1> QED BY <1>1, <1>2, <1>3, <1>4 DEF Init, TypeInv, TypeOK, WorkTyped

\* A fault strikes with a step, or none does.
LEMMA StepStrikes ==
    ASSUME Next
    PROVE  struck' = struck \/ \E K : Strike(K)
<1>1. ASSUME NEW i \in Instances, Start(i) PROVE \E K : Strike(K)
  BY <1>1 DEF Start
<1>2. ASSUME NEW i \in Instances, Append(i)
      PROVE  struck' = struck \/ \E K : Strike(K)
  BY <1>2 DEF Append, AppendWritten, Answer, AppendFails, AppendFailsPartly
<1>3. ASSUME NEW i \in Instances, SweepFold(i) PROVE \E K : Strike(K)
  BY <1>3 DEF SweepFold
<1>4. ASSUME NEW i \in Instances, Sweep(i)
      PROVE  struck' = struck \/ \E K : Strike(K)
  BY <1>3, <1>4 DEF Sweep, SweepList, SweepPersist, SweepPersistFails, SweepUnlink,
                    SweepUnlinkFails, SweepSettle, SweepDone
<1>5. ASSUME NEW i \in Instances, CrashTearing(i) PROVE \E K : Strike(K)
  BY <1>5 DEF CrashTearing
<1>6. ASSUME NEW i \in Instances, NEW batch, Ingest(i, batch) PROVE struck' = struck
  BY <1>6 DEF Ingest
<1>7. NextDay \/ Stop \/ Crash => struck' = struck
  BY DEF NextDay, Stop, Crash
<1> QED BY <1>1, <1>2, <1>4, <1>5, <1>6, <1>7 DEF Next

\* Only faults that may strike do.
LEMMA StruckType ==
    ASSUME TypeInv, Next
    PROVE  struck' \subseteq FaultKinds
<1>1. ASSUME NEW K, Strike(K) PROVE struck' \subseteq FaultKinds
  BY <1>1, ConstantsAssumption DEF Strike, TypeInv, TypeOK
<1> QED BY <1>1, StepStrikes DEF TypeInv, TypeOK

LEMMA TypeStep == TypeInv /\ [Next]_vars => TypeInv'
<1> SUFFICES ASSUME TypeInv, [Next]_vars PROVE TypeInv'
  OBVIOUS
<1> USE DEF TypeInv
<1>a. /\ Idle \in Appends /\ NoSweep \in Sweeps
      /\ Idle.pc = "idle" /\ NoSweep.pc = "off"
  BY IdleType DEF Idle, NoSweep
<1>b. NoLines \in [Events -> Nat] /\ EmptyBase \in Bases
  BY DEF NoLines, EmptyBase, Bases
<1>c. Next => struck' \subseteq FaultKinds
  BY StruckType
<1>1. CASE NextDay
  <2>1. clock' \in Days
    BY <1>1, ConstantsAssumption DEF NextDay, TypeOK, Days
  <2> QED BY <1>1, <2>1 DEF NextDay, TypeOK, WorkTyped, disk, mem
<1>2. CASE Stop
  BY <1>2 DEF Stop, TypeOK, WorkTyped, disk, mem
<1>3. CASE Crash
  <2>1. LoseMemory
    BY <1>3 DEF Crash
  <2> QED BY <1>3, <1>a, <2>1, LoseMemoryType DEF Crash, TypeOK, WorkTyped, disk
<1>4. ASSUME NEW i \in Instances, Start(i) PROVE TypeInv'
  <2>1. seen' \in [Instances -> SUBSET Events]
    BY <1>4 DEF Start, TypeOK, OpenIndex, Readable
  <2>2. /\ baseDisk \in Bases /\ DerivedPlays(baseDisk) \in [Events -> Nat]
        /\ DerivedPlays(EmptyBase) \in [Events -> Nat]
    BY <1>b, DerivedType DEF TypeOK
  <2>3. PICK b \in Bases, r \in [Events -> Nat], h \in BOOLEAN :
           /\ hasAgg' = [hasAgg EXCEPT ![i] = h]
           /\ base' = [base EXCEPT ![i] = b]
           /\ rollup' = [rollup EXCEPT ![i] = r]
    BY <1>4, <1>b, <2>2 DEF Start, OpenAggregates
  <2>4. base' \in [Instances -> Bases]
    BY <2>3 DEF TypeOK
  <2>5. rollup' \in [Instances -> [Events -> Nat]]
    BY <2>3 DEF TypeOK
  <2>6. hasAgg' \in [Instances -> BOOLEAN]
    BY <2>3 DEF TypeOK
  <2>7. sw' \in [Instances -> Sweeps]
    BY <1>4 DEF Start, TypeOK, NoSweep, Sweeps
  <2>8. WorkTyped'
    BY <1>4 DEF Start, WorkTyped, TypeOK, NoSweep, disk
  <2> QED BY <1>4, <1>c, <2>1, <2>4, <2>5, <2>6, <2>7, <2>8 DEF Start, TypeOK, disk, Next
<1>5. ASSUME NEW i \in Instances, CrashTearing(i) PROVE TypeInv'
  <2>1. app[i].pc = "write" /\ LoseMemory
    BY <1>5 DEF CrashTearing
  <2>2. PICK w \in CutWrites(app[i].day, app[i].acc) :
            Land(app[i].day, w) /\ NoteLanding(app[i].day, w.kept)
    BY <1>5 DEF CrashTearing
  <2>3. /\ app[i].day \in Days
        /\ DiskTyped'
    BY <2>1, <2>2, AppendType
  <2>4. first' \in [Events -> Days \cup {0}]
    BY <2>2, <2>3, NoteLandingType
  <2> QED BY <1>5, <1>a, <1>c, <2>1, <2>3, <2>4, LoseMemoryType
          DEF DiskTyped, TypeOK, WorkTyped, Next
<1>6. ASSUME NEW i \in Instances, NEW batch \in SUBSET Events, Ingest(i, batch)
      PROVE  TypeInv'
  <2>1. CASE batch \ seen[i] = {}
    BY <1>6, <2>1 DEF Ingest, TypeOK, WorkTyped, disk
  <2>2. CASE batch \ seen[i] # {}
    <3> DEFINE r == [pc |-> "write", day |-> clock, acc |-> batch \ seen[i],
                     dup |-> batch \cap seen[i]]
    <3>1. r \in Appends /\ r.day \in Days
      BY DEF Appends, TypeOK
    <3>2. app' = [app EXCEPT ![i] = r]
      BY <1>6, <2>2 DEF Ingest
    <3> HIDE DEF r
    <3>3. app' \in [Instances -> Appends]
      BY <3>1, <3>2 DEF TypeOK
    <3>4. WorkTyped'
      BY <1>6, <3>1, <3>2 DEF Ingest, TypeOK, WorkTyped, disk
    <3>5. seen' \in [Instances -> SUBSET Events]
      BY <1>6 DEF Ingest, TypeOK
    <3> QED BY <1>6, <2>2, <3>3, <3>4, <3>5 DEF Ingest, TypeOK, disk
  <2> QED BY <2>1, <2>2
<1>7. ASSUME NEW i \in Instances, AppendWritten(i) PROVE TypeInv'
  <2>1. app[i].pc = "write" /\ NoteLanding(app[i].day, app[i].acc)
    BY <1>7 DEF AppendWritten
  <2>2. PICK w \in WholeWrites(app[i].day, app[i].acc) : Land(app[i].day, w)
    BY <1>7 DEF AppendWritten
  <2>3. app[i].day \in Days /\ DiskTyped'
    BY <2>1, <2>2, AppendType
  <2>4. first' \in [Events -> Days \cup {0}]
    BY <2>1, <2>3, NoteLandingType
  <2>5. app' \in [Instances -> Appends]
    BY <1>7, AppendGoes DEF AppendWritten, TypeOK
  <2>6. \A j \in Instances : app'[j].pc # "idle" => app'[j].day \in Days
    BY <1>7, <2>3 DEF AppendWritten, TypeOK, Appends, WorkTyped
  <2> QED BY <1>7, <2>3, <2>4, <2>5, <2>6
          DEF AppendWritten, DiskTyped, TypeOK, WorkTyped, mem
<1>8. ASSUME NEW i \in Instances, Answer(i) PROVE TypeInv'
  <2>1. rollup' \in [Instances -> [Events -> Nat]]
    BY <1>8 DEF Answer, TypeOK
  <2>2. acked' \subseteq Events
    BY <1>8 DEF Answer, TypeOK, Appends
  <2> QED BY <1>8, <1>a, <2>1, <2>2 DEF Answer, TypeOK, WorkTyped, disk
<1>9. ASSUME NEW i \in Instances, AppendFails(i) PROVE TypeInv'
  BY <1>9, <1>a DEF AppendFails, ForgetAppend, TypeOK, WorkTyped, disk
<1>10. ASSUME NEW i \in Instances, AppendFailsPartly(i) PROVE TypeInv'
  <2>1. app[i].pc = "write" /\ ForgetAppend(i)
    BY <1>10 DEF AppendFailsPartly
  <2>2. PICK w \in CutWrites(app[i].day, app[i].acc) :
            Land(app[i].day, w) /\ NoteLanding(app[i].day, w.kept)
    BY <1>10 DEF AppendFailsPartly
  <2>3. app[i].day \in Days /\ DiskTyped'
    BY <2>1, <2>2, AppendType
  <2>4. first' \in [Events -> Days \cup {0}]
    BY <2>2, <2>3, NoteLandingType
  <2> QED BY <1>10, <1>a, <1>c, <2>1, <2>3, <2>4
          DEF ForgetAppend, DiskTyped, TypeOK, WorkTyped, Next, Append
<1>11. ASSUME NEW i \in Instances, SweepList(i) PROVE TypeInv'
  <2> DEFINE r == [sw[i] EXCEPT !.pc = "next",
                                !.todo = {d \in segs : Expired(d, sw[i].now)}]
  <2>a. r \in Sweeps
    BY DEF TypeOK, Sweeps
  <2>b. sw' = [sw EXCEPT ![i] = r]
    BY <1>11 DEF SweepList, TypeOK, Sweeps
  <2>1. sw' \in [Instances -> Sweeps]
    BY <2>a, <2>b DEF TypeOK
  <2>2. WorkTyped'
    BY <1>11 DEF SweepList, TypeOK, Sweeps, WorkTyped, disk
  <2> QED BY <1>11, <2>1, <2>2 DEF SweepList, TypeOK, disk, mem
<1>12. ASSUME NEW i \in Instances, SweepFold(i) PROVE TypeInv'
  <2>1. PICK d \in sw[i].todo, read \in SUBSET Events, pc \in {"persist", "unlink"} :
           /\ \/ base' = [base EXCEPT ![i] = [plays  |-> Plus(@.plays, LinesOf(d, read)),
                                              folded |-> @.folded \cup {d}]]
              \/ base' = base
           /\ sw' = [sw EXCEPT ![i].pc = pc, ![i].todo = @ \ {d},
                               ![i].seg = d, ![i].expiring = read]
    BY <1>12 DEF SweepFold, Readable
  <2>2. d \in Days
    BY DEF TypeOK, Sweeps
  <2>3. Plus(base[i].plays, LinesOf(d, read)) \in [Events -> Nat]
    BY <2>2 DEF Plus, LinesOf, TypeOK, Bases
  <2> DEFINE b == [plays  |-> Plus(base[i].plays, LinesOf(d, read)),
                   folded |-> base[i].folded \cup {d}]
  <2>a. b \in Bases
    BY <2>2, <2>3 DEF TypeOK, Bases
  <2>b. base' = base \/ base' = [base EXCEPT ![i] = b]
    BY <2>1 DEF TypeOK
  <2> HIDE DEF b
  <2>4. base' \in [Instances -> Bases]
    BY <2>a, <2>b DEF TypeOK
  <2> DEFINE r == [sw[i] EXCEPT !.pc = pc, !.todo = @ \ {d}, !.seg = d,
                                !.expiring = read]
  <2>5. r \in Sweeps /\ r.seg \in Days
    BY <2>2 DEF TypeOK, Sweeps
  <2>6. sw' = [sw EXCEPT ![i] = r]
    BY <2>1 DEF TypeOK, Sweeps
  <2> HIDE DEF r
  <2>7. sw' \in [Instances -> Sweeps]
    BY <2>5, <2>6 DEF TypeOK
  <2>8. WorkTyped'
    BY <1>12, <2>5, <2>6 DEF SweepFold, TypeOK, WorkTyped, disk
  <2> QED BY <1>12, <1>c, <2>4, <2>7, <2>8 DEF SweepFold, TypeOK, disk, Next, Sweep
<1>13. ASSUME NEW i \in Instances, SweepPersist(i) PROVE TypeInv'
  <2>1. sw' \in [Instances -> Sweeps]
    BY <1>13, SweepGoes DEF SweepPersist, TypeOK
  <2>2. WorkTyped'
    BY <1>13 DEF SweepPersist, WriteBaseline, TypeOK, Sweeps, WorkTyped
  <2> QED BY <1>13, <2>1, <2>2 DEF SweepPersist, WriteBaseline, TypeOK, mem
<1>14. ASSUME NEW i \in Instances, SweepPersistFails(i) PROVE TypeInv'
  <2>1. sw' \in [Instances -> Sweeps]
    BY <1>14, SweepGoes DEF SweepPersistFails, TypeOK
  <2>2. WorkTyped'
    BY <1>14 DEF SweepPersistFails, TypeOK, Sweeps, WorkTyped, disk
  <2> QED BY <1>14, <2>1, <2>2 DEF SweepPersistFails, TypeOK, disk, mem
<1>15. ASSUME NEW i \in Instances, SweepUnlink(i) PROVE TypeInv'
  <2>1. sw[i].seg \in Days
    BY <1>15 DEF SweepUnlink, WorkTyped
  <2> DEFINE r == [sw[i] EXCEPT !.pc = "next", !.removed = @ \cup {sw[i].seg}]
  <2>a. r \in Sweeps
    BY <2>1 DEF TypeOK, Sweeps
  <2>b. sw' = [sw EXCEPT ![i] = r]
    BY <1>15 DEF SweepUnlink, TypeOK, Sweeps
  <2>2. sw' \in [Instances -> Sweeps]
    BY <2>a, <2>b DEF TypeOK
  <2>3. /\ lines' \in [Days -> [Events -> Nat]]
        /\ openLine' \in [Days -> SUBSET Events]
        /\ seen' \in [Instances -> SUBSET Events]
    BY <1>15, <1>b, <2>1 DEF SweepUnlink, TypeOK
  <2>4. \A c \in Days : \A e \in openLine'[c] : lines'[c][e] > 0
    BY <1>15, <2>1 DEF SweepUnlink, TypeOK, WorkTyped
  <2>5. \A j \in Instances : sw'[j].pc \in {"persist", "unlink"} => sw'[j].seg \in Days
    BY <1>15 DEF SweepUnlink, TypeOK, Sweeps, WorkTyped
  <2> QED BY <1>15, <2>2, <2>3, <2>4, <2>5 DEF SweepUnlink, TypeOK, WorkTyped
<1>16. ASSUME NEW i \in Instances, SweepUnlinkFails(i) PROVE TypeInv'
  BY <1>16, <1>a DEF SweepUnlinkFails, TypeOK, WorkTyped, disk, mem
<1>17. ASSUME NEW i \in Instances, SweepSettle(i) PROVE TypeInv'
  <2>1. CASE sw[i].removed \cap base[i].folded # {}
    <3>1. sw' = [sw EXCEPT ![i].pc = "settle"]
      BY <1>17, <2>1 DEF SweepSettle
    <3>2. /\ sw' \in [Instances -> Sweeps]
          /\ sw'[i] = [sw[i] EXCEPT !.pc = "settle"]
          /\ \A j \in Instances \ {i} : sw'[j] = sw[j]
      BY <3>1, SweepGoes DEF TypeOK
    <3>3. sw'[i].pc = "settle"
      BY <3>2 DEF TypeOK, Sweeps
    <3> DEFINE b == [base[i] EXCEPT !.folded = @ \ (sw[i].removed \cap base[i].folded)]
    <3>4. b \in Bases
      BY DEF TypeOK, Bases
    <3>5. base' = [base EXCEPT ![i] = b]
      BY <1>17, <2>1 DEF SweepSettle, TypeOK, Bases
    <3> HIDE DEF b
    <3>6. base' \in [Instances -> Bases]
      BY <3>4, <3>5 DEF TypeOK
    <3> QED BY <1>17, <3>2, <3>3, <3>6 DEF SweepSettle, TypeOK, WorkTyped, disk
  <2>2. CASE sw[i].removed \cap base[i].folded = {}
    BY <1>17, <1>a, <2>2 DEF SweepSettle, TypeOK, WorkTyped, disk
  <2> QED BY <2>1, <2>2
<1>18. ASSUME NEW i \in Instances, SweepDone(i) PROVE TypeInv'
  <2>1. baseDisk' \in Bases
    BY <1>18 DEF SweepDone, WriteBaseline, TypeOK, disk
  <2> QED BY <1>18, <1>a, <2>1 DEF SweepDone, WriteBaseline, TypeOK, WorkTyped, disk, mem
<1>19. CASE UNCHANGED vars
  BY <1>19 DEF vars, TypeOK, WorkTyped, disk, mem
<1> QED BY <1>1, <1>2, <1>3, <1>4, <1>5, <1>6, <1>7, <1>8, <1>9, <1>10, <1>11, <1>12,
           <1>13, <1>14, <1>15, <1>16, <1>17, <1>18, <1>19
        DEF Next, Append, Sweep

(***************************************************************************)
(* Type correctness of the log, under every combination of faults.         *)
(***************************************************************************)
THEOREM TypeCorrect == Spec => []TypeOK
<1>1. Init => TypeInv
  BY TypeInit
<1>2. TypeInv /\ [Next]_vars => TypeInv'
  BY TypeStep
<1> QED BY <1>1, <1>2, PTL DEF Spec, TypeInv

-----------------------------------------------------------------------------
(***************************************************************************)
(* With guests that re-send within the retention period, a play is counted *)
(* exactly once, until the first of EventLog's faults strikes.             *)
(***************************************************************************)
InTime == ResendWindow <= Retention

Inv == TypeInv /\ ExactlyOnceInv

\* What holds on any host.
InvUntil == TypeInv /\ (Clean => ExactlyOnceInv)

\* A step that leaves the host clean is not struck by a fault.
LEMMA NoStrike ==
    ASSUME Clean', NEW K, Strike(K)
    PROVE  K = {} /\ struck' = struck
BY DEF Clean, Strike

\* What the proofs need to know of the days.
LEMMA DayFacts ==
    /\ \A d \in Days : d \in Nat /\ d # 0
    /\ Retention \in Nat /\ Retention >= 1
    /\ ResendWindow \in Nat
BY ConstantsAssumption DEF Days

\* A segment that has expired stays expired.
LEMMA ExpiredLater ==
    ASSUME NEW d \in Nat, NEW n \in Nat, NEW m \in Nat, n <= m, Expired(d, n)
    PROVE  Expired(d, m)
BY DayFacts DEF Expired

\* A segment that is being written to has not expired.
LEMMA WritingNotExpired ==
    ASSUME NEW d \in Nat, clock \in Nat, clock <= d + 1
    PROVE  ~Expired(d, clock)
BY DayFacts DEF Expired

\* It is enough to look at the one instance that works.
LEMMA OneWorkerSuffices ==
    ASSUME NEW i \in Instances,
           \A j \in Instances \ {i} : ~Worker(j)',
           DiskOk', Worker(i)' => WorkerOk(i)'
    PROVE  ExactlyOnceInv'
BY DEF ExactlyOnceInv, OneWorker

\* Nobody but i works after a step in which i worked or nobody did.
LEMMA OthersIdle ==
    ASSUME Inv, NEW i \in Instances, Worker(i),
           cur' \in {cur, NoInstance},
           \A j \in Instances \ {i} : app'[j] = app[j] /\ sw'[j] = sw[j]
    PROVE  \A j \in Instances \ {i} : ~Worker(j)'
<1>1. \A j \in Instances \ {i} : ~Worker(j)
  BY DEF Inv, ExactlyOnceInv, OneWorker
<1> QED BY <1>1, ConstantsAssumption DEF Worker, Busy

-----------------------------------------------------------------------------
LEMMA InitExact == Init => ExactlyOnceInv
<1> SUFFICES ASSUME Init PROVE ExactlyOnceInv
  OBVIOUS
<1>1. \A i \in Instances : ~Worker(i)
  BY ConstantsAssumption DEF Init, Worker, Busy, Idle, NoSweep
<1>2. DiskOk
  BY DEF Init, DiskOk, Untorn, LinesPlaced, Placed, Unlanded, EmptyBase, NoLines
<1> QED BY <1>1, <1>2 DEF ExactlyOnceInv, OneWorker

LEMMA NextDayExact ==
    ASSUME Inv, NextDay, TypeInv'
    PROVE  ExactlyOnceInv'
<1>1. clock \in Nat /\ clock' = clock + 1
  BY DayFacts DEF Inv, TypeInv, TypeOK, NextDay
<1>2. \A d \in Days : Expired(d, clock) => Expired(d, clock')
  BY <1>1, DayFacts DEF Expired
<1>3. \A i \in Instances : Worker(i)' <=> Worker(i)
  BY DEF NextDay, Worker, Busy
<1>4. ASSUME NEW b \in Bases, Placed(b)
      PROVE  \A e \in Events : IF first[e] = 0 THEN Unlanded(b, e)
                 ELSE \/ InLog(b, e)
                      \/ /\ b.plays[e] = 1
                         /\ first[e] \in b.folded \/ lines[first[e]][e] = 0
                         /\ Expired(first[e], clock')
  BY <1>2, <1>4 DEF Placed, InBase, Inv, TypeInv, TypeOK
<1>5. ASSUME NEW b \in Bases, Placed(b)
      PROVE  \A d \in b.folded : Expired(d, clock')
  BY <1>2, <1>5 DEF Placed, Bases
<1>6. Placed(baseDisk)'
  <2>1. baseDisk \in Bases /\ Placed(baseDisk)
    BY DEF Inv, TypeInv, TypeOK, ExactlyOnceInv, DiskOk
  <2>2. baseDisk' = baseDisk /\ lines' = lines /\ segs' = segs /\ first' = first
    BY DEF NextDay, disk
  <2> QED BY <2>1, <2>2, <1>4, <1>5 DEF Placed, Unlanded, InLog, InBase
<1>7. DiskOk'
  BY <1>6 DEF NextDay, disk, Inv, ExactlyOnceInv, DiskOk, Untorn, LinesPlaced
<1>8. ASSUME NEW i \in Instances, Worker(i) PROVE WorkerOk(i)'
  <2>1. base[i] \in Bases /\ Placed(base[i]) /\ WorkerOk(i)
    BY <1>8 DEF Inv, TypeInv, TypeOK, ExactlyOnceInv, WorkerOk
  <2>2. base' = base /\ lines' = lines /\ segs' = segs /\ first' = first
    BY DEF NextDay, disk, mem
  <2>3. Placed(base[i])'
    BY <2>1, <2>2, <1>4, <1>5 DEF Placed, Unlanded, InLog, InBase
  <2>4. AppendOk(i)'
    BY <1>1, <2>1, <2>2 DEF NextDay, mem, WorkerOk, AppendOk, Inv, TypeInv, TypeOK, Appends
  <2>5. IndexOk(i)' /\ RollupOk(i)' /\ hasAgg'[i]
    BY <2>1, <2>2 DEF NextDay, mem, WorkerOk, IndexOk, RollupOk, Served
  <2>6. SweepOk(i)'
    <3>1. sw' = sw /\ baseDisk' = baseDisk
      BY DEF NextDay, disk
    <3>2. sw[i].now \in Nat /\ sw[i].todo \subseteq Days /\ sw[i].removed \subseteq Days
      BY DayFacts DEF Inv, TypeInv, TypeOK, Sweeps
    <3>3. sw[i].pc \in {"persist", "unlink"} => sw[i].seg \in Days
      BY DEF Inv, TypeInv, WorkTyped
    <3> QED BY <1>1, <1>2, <2>1, <2>2, <3>1, <3>2, <3>3 DEF WorkerOk, SweepOk
  <2> QED BY <2>3, <2>4, <2>5, <2>6 DEF WorkerOk
<1> QED BY <1>3, <1>7, <1>8 DEF Inv, ExactlyOnceInv, OneWorker

-----------------------------------------------------------------------------
\* A step that leaves the disk, the landings and the acknowledgements alone.
LEMMA DiskFrame ==
    ASSUME Inv, UNCHANGED <<disk, first, clock>>, \A e \in acked' : first[e] # 0
    PROVE  DiskOk'
BY DEF disk, Inv, ExactlyOnceInv, DiskOk, Untorn, LinesPlaced, Placed, Unlanded,
       InLog, InBase

LEMMA StopExact ==
    ASSUME Inv, Stop
    PROVE  ExactlyOnceInv'
<1>1. DiskOk'
  BY DiskFrame DEF Stop, Inv, ExactlyOnceInv, DiskOk
<1>2. \A i \in Instances : Worker(i)' => Worker(i)
  BY ConstantsAssumption DEF Stop, Worker, Busy
<1>3. ASSUME NEW i \in Instances, Worker(i) PROVE WorkerOk(i)'
  BY <1>3 DEF Stop, disk, mem, Inv, ExactlyOnceInv, WorkerOk, Placed, Unlanded, InLog,
       InBase, AppendOk, IndexOk, RollupOk, Served, SweepOk
<1> QED BY <1>1, <1>2, <1>3 DEF Inv, ExactlyOnceInv, OneWorker

LEMMA CrashExact ==
    ASSUME Inv, Crash
    PROVE  ExactlyOnceInv'
<1>1. DiskOk'
  BY DiskFrame DEF Crash, LoseMemory, Inv, ExactlyOnceInv, DiskOk
<1>2. \A i \in Instances : ~Worker(i)'
  BY ConstantsAssumption DEF Crash, LoseMemory, Worker, Busy, Idle, NoSweep
<1> QED BY <1>1, <1>2 DEF ExactlyOnceInv, OneWorker

-----------------------------------------------------------------------------
\* Where a placed event is counted: a single place, or none before it landed.
LEMMA LiveLinesOf ==
    ASSUME Inv, NEW b \in Bases, Placed(b), NEW e \in Events
    PROVE  /\ first[e] = 0 => b.plays[e] = 0 /\ LiveLines(b, e) = {}
           /\ first[e] # 0 =>
                 \/ b.plays[e] = 0 /\ LiveLines(b, e) = {<<first[e], 1>>}
                 \/ b.plays[e] = 1 /\ LiveLines(b, e) = {}
<1>1. \A d \in Days : lines[d][e] \in Nat
  BY DEF Inv, TypeInv, TypeOK
<1>2. \A d \in Days : lines[d][e] > 0 => first[e] = d
  BY DEF Inv, ExactlyOnceInv, DiskOk, LinesPlaced
<1>3. segs \subseteq Days
  BY DEF Inv, TypeInv, TypeOK
<1>4. ASSUME \A d \in segs \ b.folded : lines[d][e] = 0
      PROVE  LiveLines(b, e) = {}
  BY <1>4 DEF LiveLines
<1>5. CASE first[e] = 0
  <2>1. b.plays[e] = 0 /\ \A d \in Days : lines[d][e] = 0
    BY <1>5 DEF Placed, Unlanded
  <2> QED BY <1>3, <1>4, <1>5, <2>1
<1>6. CASE first[e] # 0 /\ InLog(b, e)
  <2>1. /\ b.plays[e] = 0
        /\ first[e] \in segs \ b.folded
        /\ lines[first[e]][e] = 1
    BY <1>6 DEF InLog
  <2>2. \A d \in segs \ b.folded : d # first[e] => lines[d][e] = 0
    BY <1>1, <1>2, <1>3
  <2>3. ASSUME NEW d \in segs \ b.folded, NEW k \in 1 .. lines[d][e]
        PROVE  d = first[e] /\ k = 1
    <3>1. d = first[e]
      BY <2>2, <2>3
    <3> QED BY <2>1, <2>3, <3>1
  <2>4. <<first[e], 1>> \in LiveLines(b, e)
    BY <2>1 DEF LiveLines
  <2>5. LiveLines(b, e) \subseteq {<<first[e], 1>>}
    BY <2>3 DEF LiveLines
  <2> QED BY <1>6, <2>1, <2>4, <2>5
<1>7. CASE first[e] # 0 /\ InBase(b, e)
  <2>1. b.plays[e] = 1 /\ (first[e] \in b.folded \/ lines[first[e]][e] = 0)
    BY <1>7 DEF InBase
  <2>2. \A d \in segs \ b.folded : lines[d][e] = 0
    BY <1>1, <1>2, <1>3, <2>1
  <2> QED BY <1>4, <1>7, <2>1, <2>2
<1> QED BY <1>5, <1>6, <1>7 DEF Placed

\* What a start derives from the disk: one play for every landed event.
LEMMA DerivedOnce ==
    ASSUME Inv, NEW b \in Bases, Placed(b), NEW e \in Events
    PROVE  DerivedPlays(b)[e] = IF first[e] = 0 THEN 0 ELSE 1
<1>1. DerivedPlays(b)[e] = b.plays[e] + Cardinality(LiveLines(b, e))
  BY DEF DerivedPlays
<1>2. Cardinality({}) = 0 /\ Cardinality({<<first[e], 1>>}) = 1
  BY FS_EmptySet, FS_Singleton
<1>3. CASE first[e] = 0
  BY <1>1, <1>2, <1>3, LiveLinesOf
<1>4. CASE first[e] # 0
  <2>1. \/ b.plays[e] = 0 /\ LiveLines(b, e) = {<<first[e], 1>>}
        \/ b.plays[e] = 1 /\ LiveLines(b, e) = {}
    BY <1>4, LiveLinesOf
  <2>2. CASE b.plays[e] = 0 /\ LiveLines(b, e) = {<<first[e], 1>>}
    BY <1>1, <1>2, <1>4, <2>2
  <2>3. CASE b.plays[e] = 1 /\ LiveLines(b, e) = {}
    BY <1>1, <1>2, <1>4, <2>3
  <2> QED BY <2>1, <2>2, <2>3
<1> QED BY <1>3, <1>4

LEMMA StartExact ==
    ASSUME Inv, Clean', NEW i \in Instances, Start(i)
    PROVE  ExactlyOnceInv'
<1>1. DiskOk'
  BY DiskFrame DEF Start, Inv, ExactlyOnceInv, DiskOk
<1>a. Strike(Overlap) /\ OpenAggregates(i, baseDisk)
  BY NoStrike DEF Start
<1>2. \A j \in Instances : ~Busy(j)
  BY <1>a, NoStrike DEF Overlap
<1>3. \A j \in Instances \ {i} : ~Worker(j)'
  BY <1>2 DEF Start, Worker, Busy, Inv, TypeInv, TypeOK
<1>4. /\ hasAgg' = [hasAgg EXCEPT ![i] = TRUE]
      /\ base' = [base EXCEPT ![i] = baseDisk]
      /\ rollup' = [rollup EXCEPT ![i] = DerivedPlays(baseDisk)]
  BY <1>a DEF OpenAggregates
<1>5. hasAgg'[i] /\ base'[i] = baseDisk /\ rollup'[i] = DerivedPlays(baseDisk)
  BY <1>4 DEF Inv, TypeInv, TypeOK
<1>6. UNCHANGED <<disk, app, first, clock>> /\ app[i].pc = "idle"
  BY <1>2 DEF Start, Busy
<1>7. baseDisk \in Bases /\ Placed(baseDisk)
  BY DEF Inv, TypeInv, TypeOK, ExactlyOnceInv, DiskOk
<1>8. Placed(base[i])'
  BY <1>5, <1>6, <1>7 DEF Placed, Unlanded, InLog, InBase, disk
<1>9. AppendOk(i)'
  BY <1>6 DEF AppendOk
<1>10. RollupOk(i)'
  BY <1>5, <1>6, <1>7, DerivedOnce DEF RollupOk, Served
<1>11. IndexOk(i)'
  <2>1. seen'[i] = UNION {Readable(d) : d \in segs}
    BY DEF Start, OpenIndex, Inv, TypeInv, TypeOK
  <2>2. \A d \in Days, e \in Events : lines[d][e] > 0 => first[e] = d /\ d \in segs
    BY DEF Inv, ExactlyOnceInv, DiskOk, LinesPlaced
  <2>3. segs \subseteq Days
    BY DEF Inv, TypeInv, TypeOK
  <2>4. \A d \in Days, e \in Events : lines[d][e] > 0 => e \in seen'[i]
    BY <2>1, <2>2 DEF Readable
  <2>5. \A e \in seen'[i] : first[e] # 0
    BY <2>1, <2>2, <2>3, DayFacts DEF Readable
  <2> QED BY <1>6, <2>4, <2>5 DEF IndexOk, disk
<1>12. SweepOk(i)'
  <2>1. sw'[i] = [NoSweep EXCEPT !.pc = "list", !.now = clock]
    BY DEF Start, Inv, TypeInv, TypeOK
  <2>2. /\ sw'[i].pc = "list" /\ sw'[i].now = clock
        /\ sw'[i].todo = {} /\ sw'[i].removed = {}
    BY <2>1 DEF NoSweep
  <2>3. clock \in Nat
    BY DayFacts DEF Inv, TypeInv, TypeOK
  <2> QED BY <1>5, <1>6, <2>2, <2>3 DEF SweepOk, disk
<1> QED BY <1>1, <1>3, <1>5, <1>8, <1>9, <1>10, <1>11, <1>12, OneWorkerSuffices
        DEF WorkerOk

LEMMA IngestExact ==
    ASSUME Inv, InTime, NEW i \in Instances, NEW batch \in SUBSET Events,
           Ingest(i, batch)
    PROVE  ExactlyOnceInv'
<1> DEFINE acc == batch \ seen[i]
           dup == batch \cap seen[i]
<1>1. Worker(i) /\ cur = i /\ app[i].pc = "idle"
  BY DEF Ingest, Worker
<1>2. WorkerOk(i)
  BY <1>1 DEF Inv, ExactlyOnceInv
<1>3. UNCHANGED <<clock, disk, cur, base, rollup, hasAgg, sw, first>>
  BY DEF Ingest
<1>4. \A e \in seen[i] : first[e] # 0
  BY <1>1, <1>2 DEF WorkerOk, IndexOk
<1>5. ASSUME NEW e \in acc PROVE first[e] = 0
  <2> SUFFICES ASSUME first[e] # 0 PROVE FALSE
    OBVIOUS
  <2>1. e \in Events /\ e \notin seen[i] /\ first[e] \in Days
    BY DEF Inv, TypeInv, TypeOK
  <2>2. ~InLog(base[i], e)
    BY <1>2, <2>1 DEF WorkerOk, IndexOk, InLog
  <2>3. InBase(base[i], e)
    BY <1>2, <2>1, <2>2 DEF WorkerOk, Placed
  <2>4. Expired(first[e], clock) /\ clock <= first[e] + ResendWindow
    BY <2>3 DEF InBase, Ingest, Resendable
  <2> QED BY <2>1, <2>4, DayFacts DEF Expired, InTime, Inv, TypeInv, TypeOK
<1>6. seen'[i] = seen[i] \cup acc
  BY DEF Ingest, Inv, TypeInv, TypeOK
<1>7. \A e \in acked' : first[e] # 0
  BY <1>4 DEF Ingest, Inv, ExactlyOnceInv, DiskOk
<1>8. DiskOk'
  BY <1>3, <1>7, DiskFrame
<1>9. /\ \A j \in Instances \ {i} : app'[j] = app[j]
      /\ \/ acc = {} /\ app'[i] = app[i]
         \/ /\ app'[i].pc = "write" /\ app'[i].day = clock
            /\ app'[i].acc = acc /\ app'[i].dup = dup
  BY DEF Ingest, Inv, TypeInv, TypeOK
<1>10. \A j \in Instances \ {i} : ~Worker(j)'
  BY <1>1, <1>3, <1>9, OthersIdle
<1>11. Placed(base[i])'
  BY <1>2, <1>3 DEF WorkerOk, Placed, Unlanded, InLog, InBase, disk
<1>12. AppendOk(i)'
  BY <1>1, <1>2, <1>3, <1>4, <1>5, <1>6, <1>9, DayFacts
     DEF AppendOk, WorkerOk, Inv, TypeInv, TypeOK
<1>13. IndexOk(i)'
  BY <1>2, <1>3, <1>4, <1>6, <1>9 DEF IndexOk, WorkerOk, disk
<1>14. RollupOk(i)'
  BY <1>1, <1>2, <1>3, <1>9 DEF RollupOk, Served, WorkerOk
<1>15. SweepOk(i)' /\ hasAgg'[i]
  BY <1>2, <1>3 DEF SweepOk, WorkerOk, disk
<1> QED BY <1>8, <1>10, <1>11, <1>12, <1>13, <1>14, <1>15, OneWorkerSuffices
        DEF WorkerOk

-----------------------------------------------------------------------------
\* The bytes of a whole append on a segment without an open line.
LEMMA WholeLand ==
    ASSUME TypeInv, Untorn, NEW d \in Days, NEW acc \in SUBSET Events,
           NEW w \in WholeWrites(d, acc), Land(d, w)
    PROVE  /\ Untorn'
           /\ segs' = segs \cup {d}
           /\ baseDisk' = baseDisk
           /\ \A c \in Days, e \in Events :
                 lines'[c][e] = IF c = d /\ e \in acc THEN lines[c][e] + 1 ELSE lines[c][e]
<1>1. torn = {} /\ openLine[d] = {} /\ \A c \in Days : openLine[c] = {}
  BY DEF Untorn
<1>2. w = [kept |-> acc, open |-> {}, torn |-> FALSE]
  BY <1>1 DEF WholeWrites, Survivors
<1>3. w.kept = acc /\ w.open = {} /\ w.torn = FALSE
  BY <1>2
<1>4. torn' = {} /\ segs' = segs \cup {d} /\ baseDisk' = baseDisk
  BY <1>1, <1>3 DEF Land
<1>5. openLine' = [openLine EXCEPT ![d] = {}]
  BY <1>3 DEF Land
<1>6. \A c \in Days : openLine'[c] = {}
  BY <1>1, <1>5 DEF TypeInv, TypeOK
<1>7. lines' = [lines EXCEPT ![d] = [e \in Events |->
                   lines[d][e] + (IF e \in acc THEN 1 ELSE 0)]]
  BY <1>1, <1>3 DEF Land
<1>8. \A c \in Days, e \in Events : lines[c][e] \in Nat
  BY DEF TypeInv, TypeOK
<1>9. \A c \in Days, e \in Events :
         lines'[c][e] = IF c = d /\ e \in acc THEN lines[c][e] + 1 ELSE lines[c][e]
  BY <1>7, <1>8 DEF TypeInv, TypeOK
<1> QED BY <1>4, <1>6, <1>9 DEF Untorn

\* What is placed stays placed when unlanded events land on a live day.
LEMMA LandPlaced ==
    ASSUME Inv, NEW b \in Bases, Placed(b), NEW d \in Days, NEW acc \in SUBSET Events,
           clock <= d + 1, \A e \in acc : first[e] = 0,
           NEW e \in Events
    PROVE  IF e \in acc
             THEN /\ b.plays[e] = 0 /\ d \notin b.folded
                  /\ \A c \in Days : lines[c][e] = 0
             ELSE IF first[e] = 0 THEN Unlanded(b, e) ELSE InLog(b, e) \/ InBase(b, e)
<1>1. d \notin b.folded
  BY WritingNotExpired, DayFacts DEF Placed, Inv, TypeInv, TypeOK
<1>2. CASE e \in acc
  BY <1>1, <1>2 DEF Placed, Unlanded
<1>3. CASE e \notin acc
  BY <1>3 DEF Placed
<1> QED BY <1>2, <1>3

LEMMA AppendWrittenExact ==
    ASSUME Inv, NEW i \in Instances, AppendWritten(i)
    PROVE  ExactlyOnceInv'
<1> DEFINE d == app[i].day
           acc == app[i].acc
<1>1. app[i].pc = "write" /\ Worker(i) /\ WorkerOk(i)
  BY DEF AppendWritten, Worker, Busy, Inv, ExactlyOnceInv
<1>2. d \in Days /\ acc \in SUBSET Events /\ clock \in Nat
  BY <1>1, DayFacts DEF Inv, TypeInv, TypeOK, WorkTyped, Appends
<1>3. clock <= d + 1 /\ acc \subseteq seen[i] /\ \A e \in acc : first[e] = 0
  BY <1>1 DEF WorkerOk, AppendOk
<1>4. UNCHANGED <<clock, cur, mem, sw, acked>>
  BY DEF AppendWritten
<1>5. PICK w \in WholeWrites(d, acc) : Land(d, w)
  BY DEF AppendWritten
<1>6. /\ Untorn'
      /\ segs' = segs \cup {d}
      /\ baseDisk' = baseDisk
      /\ \A c \in Days, e \in Events :
            lines'[c][e] = IF c = d /\ e \in acc THEN lines[c][e] + 1 ELSE lines[c][e]
  BY <1>2, <1>5, WholeLand DEF Inv, ExactlyOnceInv, DiskOk
<1>7. /\ app'[i] = [app[i] EXCEPT !.pc = "answer"]
      /\ \A j \in Instances \ {i} : app'[j] = app[j]
  BY AppendGoes DEF AppendWritten, Inv, TypeInv, TypeOK
<1>8. /\ app'[i].pc = "answer" /\ app'[i].day = d
      /\ app'[i].acc = acc /\ app'[i].dup = app[i].dup
  BY <1>7 DEF Inv, TypeInv, TypeOK, Appends
<1>9. \A e \in Events : first'[e] = IF e \in acc THEN d ELSE first[e]
  BY <1>3 DEF AppendWritten, NoteLanding
<1>10. d # 0
  BY <1>2, DayFacts
<1>a. app[i].dup \subseteq Events /\ seen[i] \subseteq Events /\ acked \subseteq Events
  BY DEF Inv, TypeInv, TypeOK, Appends
<1> HIDE DEF d, acc
<1>11. ASSUME NEW b \in Bases, Placed(b), NEW e \in Events
       PROVE  IF first'[e] = 0
                THEN b.plays[e] = 0 /\ \A c \in Days : lines'[c][e] = 0
                ELSE \/ /\ b.plays[e] = 0
                        /\ first'[e] \in segs' \ b.folded
                        /\ lines'[first'[e]][e] = 1
                     \/ /\ b.plays[e] = 1
                        /\ first'[e] \in b.folded \/ lines'[first'[e]][e] = 0
                        /\ Expired(first'[e], clock)
  <2>1. CASE e \in acc
    <3>1. b.plays[e] = 0 /\ d \notin b.folded /\ lines[d][e] = 0
      BY <1>2, <1>3, <1>11, <2>1, LandPlaced
    <3> QED BY <1>2, <1>6, <1>9, <1>10, <2>1, <3>1
  <2>2. CASE e \notin acc
    <3>1. IF first[e] = 0 THEN Unlanded(b, e) ELSE InLog(b, e) \/ InBase(b, e)
      BY <1>11 DEF Placed
    <3>2. first'[e] = first[e] /\ \A c \in Days : lines'[c][e] = lines[c][e]
      BY <1>6, <1>9, <2>2
    <3>3. first[e] # 0 => first[e] \in Days
      BY DEF Inv, TypeInv, TypeOK
    <3> QED BY <1>6, <3>1, <3>2, <3>3 DEF Unlanded, InLog, InBase
  <2> QED BY <2>1, <2>2
<1>12. Placed(baseDisk)'
  <2>1. baseDisk \in Bases /\ Placed(baseDisk)
    BY DEF Inv, TypeInv, TypeOK, ExactlyOnceInv, DiskOk
  <2> QED BY <1>4, <1>6, <1>11, <2>1 DEF Placed, Unlanded, InLog, InBase
<1>13. Placed(base[i])'
  <2>1. base[i] \in Bases /\ Placed(base[i]) /\ base'[i] = base[i]
    BY <1>1, <1>4 DEF Inv, TypeInv, TypeOK, WorkerOk, mem
  <2> QED BY <1>4, <1>11, <2>1 DEF Placed, Unlanded, InLog, InBase
<1>14. LinesPlaced'
  <2>1. ASSUME NEW c \in Days, NEW e \in Events, lines'[c][e] > 0
        PROVE  first'[e] = c /\ c \in segs'
    <3>1. lines[c][e] > 0 => first[e] = c /\ c \in segs
      BY DEF Inv, ExactlyOnceInv, DiskOk, LinesPlaced
    <3>2. CASE e \in acc
      <4>1. first[e] = 0 /\ ~(lines[c][e] > 0)
        BY <1>3, <3>1, <3>2, DayFacts
      <4> QED BY <1>6, <1>9, <2>1, <3>2, <4>1
    <3>3. CASE e \notin acc
      BY <1>6, <1>9, <2>1, <3>1, <3>3
    <3> QED BY <3>2, <3>3
  <2> QED BY <2>1 DEF LinesPlaced
<1>15. \A e \in Events : first[e] # 0 => first'[e] = first[e]
  BY <1>3, <1>9
<1>16. DiskOk'
  BY <1>4, <1>6, <1>12, <1>14, <1>15, <1>a DEF DiskOk, Inv, ExactlyOnceInv
<1>17. \A j \in Instances \ {i} : ~Worker(j)'
  BY <1>1, <1>4, <1>7, OthersIdle
<1>18. AppendOk(i)'
  BY <1>1, <1>4, <1>8, <1>9, <1>10, <1>15, <1>2, <1>a DEF AppendOk, WorkerOk, d
<1>19. IndexOk(i)'
  <2>1. \A c \in Days, e \in Events : lines'[c][e] > 0 => e \in seen[i]
    BY <1>1, <1>3, <1>6 DEF WorkerOk, IndexOk
  <2>2. \A e \in seen[i] : first'[e] # 0
    BY <1>1, <1>9, <1>10, <1>15, <1>a DEF WorkerOk, IndexOk, acc
  <2> QED BY <1>4, <2>1, <2>2 DEF IndexOk, mem
<1>20. RollupOk(i)'
  BY <1>1, <1>3, <1>4, <1>8, <1>9 DEF RollupOk, Served, WorkerOk, mem
<1>21. SweepOk(i)'
  <2>1. \A c \in sw[i].removed : c # d
    <3>1. ~Expired(d, clock)
      BY <1>2, <1>3, WritingNotExpired, DayFacts
    <3> QED BY <1>1, <3>1 DEF WorkerOk, SweepOk
  <2>a. sw[i].removed \subseteq Days
    BY DEF Inv, TypeInv, TypeOK, Sweeps
  <2>2. \A c \in sw[i].removed : \A e \in Events : lines'[c][e] = 0
    BY <1>1, <1>6, <2>1, <2>a DEF WorkerOk, SweepOk
  <2>3. /\ sw[i].expiring \subseteq Events
        /\ sw[i].pc \in {"persist", "unlink"} => sw[i].seg # 0
    BY DayFacts DEF Inv, TypeInv, TypeOK, WorkTyped, Sweeps
  <2> QED BY <1>1, <1>4, <1>6, <1>15, <2>2, <2>3 DEF SweepOk, WorkerOk, mem
<1>22. hasAgg'[i]
  BY <1>1, <1>4 DEF WorkerOk, mem
<1> QED BY <1>13, <1>16, <1>17, <1>18, <1>19, <1>20, <1>21, <1>22, OneWorkerSuffices
        DEF WorkerOk

\* What a step of an append that leaves the disk alone need not prove again.
LEMMA WorkFrame ==
    ASSUME Inv, NEW i \in Instances, WorkerOk(i),
           UNCHANGED <<clock, disk, base, hasAgg, sw, first>>
    PROVE  Placed(base[i])' /\ SweepOk(i)' /\ hasAgg'[i]
BY DEF WorkerOk, Placed, Unlanded, InLog, InBase, SweepOk, disk

LEMMA AnswerExact ==
    ASSUME Inv, NEW i \in Instances, Answer(i)
    PROVE  ExactlyOnceInv'
<1>1. app[i].pc = "answer" /\ Worker(i) /\ WorkerOk(i)
  BY DEF Answer, Worker, Busy, Inv, ExactlyOnceInv
<1>2. UNCHANGED <<clock, disk, cur, seen, base, hasAgg, sw, first>>
  BY DEF Answer
<1>3. app'[i] = Idle /\ \A j \in Instances \ {i} : app'[j] = app[j]
  BY DEF Answer, Inv, TypeInv, TypeOK
<1>4. app'[i].pc = "idle"
  BY <1>3 DEF Idle
<1>5. \A e \in app[i].acc \cup app[i].dup : first[e] # 0
  BY <1>1 DEF WorkerOk, AppendOk
<1>6. \A e \in acked' : first[e] # 0
  BY <1>5 DEF Answer, Inv, ExactlyOnceInv, DiskOk
<1>7. DiskOk'
  BY <1>2, <1>6, DiskFrame
<1>8. \A j \in Instances \ {i} : ~Worker(j)'
  BY <1>1, <1>2, <1>3, OthersIdle
<1>9. Placed(base[i])' /\ SweepOk(i)' /\ hasAgg'[i]
  BY <1>1, <1>2, WorkFrame
<1>10. AppendOk(i)'
  BY <1>4 DEF AppendOk
<1>11. IndexOk(i)'
  BY <1>1, <1>2 DEF IndexOk, WorkerOk, disk
<1>12. RollupOk(i)'
  <2>1. \A e \in Events : rollup[i][e] = IF Served(i, e) THEN 1 ELSE 0
    BY <1>1 DEF WorkerOk, RollupOk
  <2>2. rollup' = [rollup EXCEPT ![i] = [e \in Events |->
                      rollup[i][e] + (IF e \in app[i].acc THEN 1 ELSE 0)]]
    BY <1>1 DEF Answer, WorkerOk
  <2>3. \A e \in Events : rollup'[i][e] = rollup[i][e]
                                           + (IF e \in app[i].acc THEN 1 ELSE 0)
    BY <2>2 DEF Inv, TypeInv, TypeOK
  <2> QED BY <1>1, <1>2, <1>4, <1>5, <2>1, <2>3 DEF RollupOk, Served
<1> QED BY <1>7, <1>8, <1>9, <1>10, <1>11, <1>12, OneWorkerSuffices DEF WorkerOk

LEMMA AppendFailsExact ==
    ASSUME Inv, NEW i \in Instances, AppendFails(i)
    PROVE  ExactlyOnceInv'
<1>1. app[i].pc = "write" /\ Worker(i) /\ WorkerOk(i)
  BY DEF AppendFails, Worker, Busy, Inv, ExactlyOnceInv
<1>2. UNCHANGED <<clock, disk, cur, base, rollup, hasAgg, sw, first, acked>>
  BY DEF AppendFails, ForgetAppend
<1>3. app'[i] = Idle /\ \A j \in Instances \ {i} : app'[j] = app[j]
  BY DEF AppendFails, ForgetAppend, Inv, TypeInv, TypeOK
<1>4. app'[i].pc = "idle"
  BY <1>3 DEF Idle
<1>5. DiskOk'
  BY <1>2, DiskFrame DEF Inv, ExactlyOnceInv, DiskOk
<1>6. \A j \in Instances \ {i} : ~Worker(j)'
  BY <1>1, <1>2, <1>3, OthersIdle
<1>7. Placed(base[i])' /\ SweepOk(i)' /\ hasAgg'[i]
  BY <1>1, <1>2, WorkFrame
<1>8. AppendOk(i)'
  BY <1>4 DEF AppendOk
<1>9. IndexOk(i)'
  <2>1. seen'[i] = seen[i] \ app[i].acc
    BY DEF AppendFails, ForgetAppend, Inv, TypeInv, TypeOK
  <2>2. \A e \in app[i].acc : first[e] = 0
    BY <1>1 DEF WorkerOk, AppendOk
  <2>3. \A d \in Days, e \in Events : lines[d][e] > 0 => first[e] # 0
    BY DayFacts DEF Inv, ExactlyOnceInv, DiskOk, LinesPlaced
  <2> QED BY <1>1, <1>2, <2>1, <2>2, <2>3 DEF IndexOk, WorkerOk, disk
<1>10. RollupOk(i)'
  BY <1>1, <1>2, <1>4 DEF RollupOk, Served, WorkerOk
<1> QED BY <1>5, <1>6, <1>7, <1>8, <1>9, <1>10, OneWorkerSuffices DEF WorkerOk

-----------------------------------------------------------------------------
\* What a step of the sweep need not prove again.
LEMMA SweepFrame ==
    ASSUME Inv, NEW i \in Instances, WorkerOk(i),
           UNCHANGED <<clock, rollup, hasAgg, app, first>>
    PROVE  /\ RollupOk(i)' /\ hasAgg'[i]
           /\ UNCHANGED seen => AppendOk(i)'
           /\ UNCHANGED <<lines, seen>> => IndexOk(i)'
BY DEF WorkerOk, RollupOk, Served, AppendOk, IndexOk

LEMMA SweepListExact ==
    ASSUME Inv, NEW i \in Instances, SweepList(i)
    PROVE  ExactlyOnceInv'
<1>1. sw[i].pc = "list" /\ Worker(i) /\ WorkerOk(i)
  BY DEF SweepList, Worker, Busy, Inv, ExactlyOnceInv
<1>2. UNCHANGED <<clock, disk, cur, mem, app, first, acked>>
  BY DEF SweepList
<1> DEFINE r == [sw[i] EXCEPT !.pc = "next",
                              !.todo = {d \in segs : Expired(d, sw[i].now)}]
<1>3. sw' = [sw EXCEPT ![i] = r]
  BY DEF SweepList, Inv, TypeInv, TypeOK, Sweeps
<1>4. sw'[i] = r /\ \A j \in Instances \ {i} : sw'[j] = sw[j]
  BY <1>3 DEF Inv, TypeInv, TypeOK
<1>5. /\ sw'[i].pc = "next" /\ sw'[i].now = sw[i].now
      /\ sw'[i].todo = {d \in segs : Expired(d, sw[i].now)}
      /\ sw'[i].removed = sw[i].removed
  BY <1>4 DEF Inv, TypeInv, TypeOK, Sweeps
<1>6. DiskOk'
  BY <1>2, DiskFrame DEF Inv, ExactlyOnceInv, DiskOk
<1>7. \A j \in Instances \ {i} : ~Worker(j)'
  BY <1>1, <1>2, <1>4, OthersIdle
<1>8. Placed(base[i])'
  BY <1>1, <1>2 DEF WorkerOk, Placed, Unlanded, InLog, InBase, disk, mem
<1>9. AppendOk(i)' /\ IndexOk(i)' /\ RollupOk(i)' /\ hasAgg'[i]
  BY <1>1, <1>2, SweepFrame DEF disk, mem
<1>10. SweepOk(i)'
  <2>1. sw[i].now \in Nat /\ clock \in Nat /\ segs \subseteq Days /\ sw[i].now <= clock
    BY <1>1, DayFacts DEF Inv, TypeInv, TypeOK, Sweeps, WorkerOk, SweepOk
  <2>2. \A d \in sw'[i].todo : Expired(d, clock)
    BY <1>5, <2>1, ExpiredLater, DayFacts
  <2>3. base[i] = baseDisk
    BY <1>1 DEF WorkerOk, SweepOk
  <2> QED BY <1>1, <1>2, <1>5, <2>2, <2>3 DEF WorkerOk, SweepOk, disk, mem
<1> QED BY <1>6, <1>7, <1>8, <1>9, <1>10, OneWorkerSuffices DEF WorkerOk

LEMMA SweepFoldExact ==
    ASSUME Inv, Clean', NEW i \in Instances, SweepFold(i)
    PROVE  ExactlyOnceInv'
<1>1. sw[i].pc = "next" /\ Worker(i) /\ WorkerOk(i) /\ hasAgg[i]
  BY DEF SweepFold, Worker, Busy, Inv, ExactlyOnceInv, WorkerOk
<1>2. UNCHANGED <<clock, disk, cur, seen, rollup, hasAgg, app, first, acked>>
  BY DEF SweepFold
<1>3. PICK d \in sw[i].todo :
         /\ base' = IF d \notin base[i].folded
                      THEN [base EXCEPT ![i] = [plays  |-> Plus(base[i].plays,
                                                             LinesOf(d, Readable(d))),
                                                folded |-> base[i].folded \cup {d}]]
                      ELSE base
         /\ sw' = [sw EXCEPT ![i].pc = IF d \notin base[i].folded
                                          THEN "persist" ELSE "unlink",
                             ![i].todo = @ \ {d}, ![i].seg = d,
                             ![i].expiring = Readable(d)]
  BY <1>1, NoStrike DEF SweepFold
<1> DEFINE pc == IF d \notin base[i].folded THEN "persist" ELSE "unlink"
           r == [sw[i] EXCEPT !.pc = pc, !.todo = @ \ {d}, !.seg = d,
                              !.expiring = Readable(d)]
<1>4. sw' = [sw EXCEPT ![i] = r]
  BY <1>3 DEF Inv, TypeInv, TypeOK, Sweeps
<1>5. sw'[i] = r /\ \A j \in Instances \ {i} : sw'[j] = sw[j]
  BY <1>4 DEF Inv, TypeInv, TypeOK
<1>6. /\ sw'[i].pc = pc /\ sw'[i].now = sw[i].now
      /\ sw'[i].todo = sw[i].todo \ {d}
      /\ sw'[i].seg = d /\ sw'[i].expiring = Readable(d)
      /\ sw'[i].removed = sw[i].removed
  BY <1>5 DEF Inv, TypeInv, TypeOK, Sweeps
<1>7. d \in Days
  BY DEF Inv, TypeInv, TypeOK, Sweeps
<1>8. Expired(d, clock) /\ (d \in base[i].folded => d \in baseDisk.folded)
  BY <1>1 DEF WorkerOk, SweepOk
<1>9. \A c \in Days, e \in Events : lines[c][e] > 0 => first[e] = c
  BY DEF Inv, ExactlyOnceInv, DiskOk, LinesPlaced
<1>a. \A c \in Days, e \in Events : lines[c][e] \in Nat
  BY DEF Inv, TypeInv, TypeOK
<1>10. DiskOk'
  BY <1>2, DiskFrame DEF Inv, ExactlyOnceInv, DiskOk
<1>11. \A j \in Instances \ {i} : ~Worker(j)'
  BY <1>1, <1>2, <1>5, OthersIdle
<1>12. AppendOk(i)' /\ IndexOk(i)' /\ RollupOk(i)' /\ hasAgg'[i]
  BY <1>1, <1>2, SweepFrame DEF disk
<1>13. base'[i].folded = base[i].folded \cup {d}
  BY <1>3 DEF Inv, TypeInv, TypeOK
<1>14. Placed(base[i])'
  <2>1. CASE d \in base[i].folded
    <3>1. base'[i] = base[i]
      BY <1>3, <2>1
    <3> QED BY <1>1, <1>2, <3>1 DEF WorkerOk, Placed, Unlanded, InLog, InBase, disk
  <2>2. CASE d \notin base[i].folded
    <3>a. \A e \in Events : LinesOf(d, Readable(d))[e] = lines[d][e]
      BY <1>7, <1>a DEF LinesOf, Readable
    <3>1. \A e \in Events : base'[i].plays[e] = base[i].plays[e] + lines[d][e]
      BY <1>3, <2>2, <3>a DEF Inv, TypeInv, TypeOK, Plus
    <3>2. ASSUME NEW e \in Events
          PROVE  IF first[e] = 0
                   THEN base'[i].plays[e] = 0 /\ \A c \in Days : lines[c][e] = 0
                   ELSE \/ /\ base'[i].plays[e] = 0
                           /\ first[e] \in segs \ base'[i].folded
                           /\ lines[first[e]][e] = 1
                        \/ /\ base'[i].plays[e] = 1
                           /\ first[e] \in base'[i].folded \/ lines[first[e]][e] = 0
                           /\ Expired(first[e], clock)
      <4>1. IF first[e] = 0 THEN Unlanded(base[i], e)
                            ELSE InLog(base[i], e) \/ InBase(base[i], e)
        BY <1>1 DEF WorkerOk, Placed
      <4>2. CASE first[e] = 0
        BY <1>7, <3>1, <4>1, <4>2 DEF Unlanded
      <4>3. CASE first[e] = d
        BY <1>7, <1>8, <1>13, <2>2, <3>1, <4>1, <4>3, DayFacts DEF InLog, InBase
      <4>4. CASE first[e] # 0 /\ first[e] # d
        <5>1. lines[d][e] = 0
          BY <1>7, <1>9, <1>a, <4>4
        <5> QED BY <1>13, <3>1, <4>1, <4>4, <5>1 DEF InLog, InBase
      <4> QED BY <4>2, <4>3, <4>4
    <3>3. \A c \in base'[i].folded : Expired(c, clock)
      BY <1>1, <1>8, <1>13 DEF WorkerOk, Placed
    <3> QED BY <1>2, <3>2, <3>3 DEF Placed, Unlanded, InLog, InBase, disk
  <2> QED BY <2>1, <2>2
<1>15. SweepOk(i)'
  <2>1. \A e \in Readable(d) : first[e] = d
    BY <1>7, <1>9 DEF Readable
  <2>2. pc = "unlink" => d \in baseDisk.folded
    BY <1>8
  <2>3. \A c \in sw'[i].todo : c \in base'[i].folded => c \in baseDisk.folded
    BY <1>1, <1>6, <1>13 DEF WorkerOk, SweepOk
  <2>4. pc # "list" /\ d \in base'[i].folded
    BY <1>13
  <2> HIDE DEF pc
  <2> QED BY <1>1, <1>2, <1>6, <1>8, <2>1, <2>2, <2>3, <2>4 DEF WorkerOk, SweepOk, disk
<1> QED BY <1>10, <1>11, <1>12, <1>14, <1>15, OneWorkerSuffices DEF WorkerOk

LEMMA SweepPersistExact ==
    ASSUME Inv, NEW i \in Instances, SweepPersist(i)
    PROVE  ExactlyOnceInv'
<1>1. sw[i].pc = "persist" /\ Worker(i) /\ WorkerOk(i)
  BY DEF SweepPersist, Worker, Busy, Inv, ExactlyOnceInv
<1>2. /\ UNCHANGED <<clock, segs, lines, torn, openLine, cur, mem, app, first, acked>>
      /\ baseDisk' = base[i]
  BY DEF SweepPersist, WriteBaseline
<1>3. /\ sw'[i] = [sw[i] EXCEPT !.pc = "unlink"]
      /\ \A j \in Instances \ {i} : sw'[j] = sw[j]
  BY SweepGoes DEF SweepPersist, Inv, TypeInv, TypeOK
<1>4. /\ sw'[i].pc = "unlink" /\ sw'[i].now = sw[i].now /\ sw'[i].todo = sw[i].todo
      /\ sw'[i].seg = sw[i].seg /\ sw'[i].expiring = sw[i].expiring
      /\ sw'[i].removed = sw[i].removed
  BY <1>3 DEF Inv, TypeInv, TypeOK, Sweeps
<1>5. Placed(base[i])' /\ Placed(baseDisk)'
  BY <1>1, <1>2 DEF WorkerOk, Placed, Unlanded, InLog, InBase, mem
<1>6. DiskOk'
  BY <1>2, <1>5 DEF Inv, ExactlyOnceInv, DiskOk, Untorn, LinesPlaced
<1>7. \A j \in Instances \ {i} : ~Worker(j)'
  BY <1>1, <1>2, <1>3, OthersIdle
<1>8. AppendOk(i)' /\ IndexOk(i)' /\ RollupOk(i)' /\ hasAgg'[i]
  BY <1>1, <1>2, SweepFrame DEF mem
<1>9. SweepOk(i)'
  BY <1>1, <1>2, <1>4 DEF WorkerOk, SweepOk, mem
<1> QED BY <1>5, <1>6, <1>7, <1>8, <1>9, OneWorkerSuffices DEF WorkerOk

LEMMA SweepPersistFailsExact ==
    ASSUME Inv, NEW i \in Instances, SweepPersistFails(i)
    PROVE  ExactlyOnceInv'
<1>1. sw[i].pc = "persist" /\ Worker(i) /\ WorkerOk(i)
  BY DEF SweepPersistFails, Worker, Busy, Inv, ExactlyOnceInv
<1>2. UNCHANGED <<clock, disk, cur, mem, app, first, acked>>
  BY DEF SweepPersistFails
<1>3. /\ sw'[i] = [sw[i] EXCEPT !.pc = "next"]
      /\ \A j \in Instances \ {i} : sw'[j] = sw[j]
  BY SweepGoes DEF SweepPersistFails, Inv, TypeInv, TypeOK
<1>4. /\ sw'[i].pc = "next" /\ sw'[i].now = sw[i].now /\ sw'[i].todo = sw[i].todo
      /\ sw'[i].removed = sw[i].removed
  BY <1>3 DEF Inv, TypeInv, TypeOK, Sweeps
<1>5. DiskOk'
  BY <1>2, DiskFrame DEF Inv, ExactlyOnceInv, DiskOk
<1>6. \A j \in Instances \ {i} : ~Worker(j)'
  BY <1>1, <1>2, <1>3, OthersIdle
<1>7. Placed(base[i])'
  BY <1>1, <1>2 DEF WorkerOk, Placed, Unlanded, InLog, InBase, disk, mem
<1>8. AppendOk(i)' /\ IndexOk(i)' /\ RollupOk(i)' /\ hasAgg'[i]
  BY <1>1, <1>2, SweepFrame DEF disk, mem
<1>9. SweepOk(i)'
  BY <1>1, <1>2, <1>4 DEF WorkerOk, SweepOk, disk, mem
<1> QED BY <1>5, <1>6, <1>7, <1>8, <1>9, OneWorkerSuffices DEF WorkerOk

LEMMA SweepUnlinkExact ==
    ASSUME Inv, NEW i \in Instances, SweepUnlink(i)
    PROVE  ExactlyOnceInv'
<1> DEFINE d == sw[i].seg
<1>1. sw[i].pc = "unlink" /\ Worker(i) /\ WorkerOk(i)
  BY DEF SweepUnlink, Worker, Busy, Inv, ExactlyOnceInv
<1>2. /\ UNCHANGED <<clock, baseDisk, cur, base, rollup, hasAgg, app, first, acked>>
      /\ segs' = segs \ {d}
  BY DEF SweepUnlink
<1>3. d \in Days
  BY <1>1 DEF Inv, TypeInv, WorkTyped
<1>4. /\ Expired(d, clock) /\ d \in base[i].folded /\ d \in baseDisk.folded
      /\ \A e \in sw[i].expiring : first[e] = d
  BY <1>1 DEF WorkerOk, SweepOk
<1>5. \A c \in Days, e \in Events : lines'[c][e] = IF c = d THEN 0 ELSE lines[c][e]
  BY DEF SweepUnlink, NoLines, Inv, TypeInv, TypeOK
<1>6. seen'[i] = seen[i] \ sw[i].expiring
  BY DEF SweepUnlink, Inv, TypeInv, TypeOK
<1> DEFINE r == [sw[i] EXCEPT !.pc = "next", !.removed = @ \cup {sw[i].seg}]
<1>7. sw' = [sw EXCEPT ![i] = r]
  BY DEF SweepUnlink, Inv, TypeInv, TypeOK, Sweeps
<1>8. sw'[i] = r /\ \A j \in Instances \ {i} : sw'[j] = sw[j]
  BY <1>7 DEF Inv, TypeInv, TypeOK
<1>9. /\ sw'[i].pc = "next" /\ sw'[i].now = sw[i].now /\ sw'[i].todo = sw[i].todo
      /\ sw'[i].removed = sw[i].removed \cup {d}
  BY <1>8 DEF Inv, TypeInv, TypeOK, Sweeps
<1>a. \A c \in Days, e \in Events : lines[c][e] > 0 => first[e] = c /\ c \in segs
  BY DEF Inv, ExactlyOnceInv, DiskOk, LinesPlaced
<1>b. sw[i].removed \subseteq Days /\ first \in [Events -> Days \cup {0}]
  BY DEF Inv, TypeInv, TypeOK, Sweeps
<1> HIDE DEF d, r
<1>10. \A j \in Instances \ {i} : ~Worker(j)'
  BY <1>1, <1>2, <1>8, OthersIdle
<1>11. ASSUME NEW b \in Bases, Placed(b), d \in b.folded, NEW e \in Events
       PROVE  IF first[e] = 0
                THEN b.plays[e] = 0 /\ \A c \in Days : lines'[c][e] = 0
                ELSE \/ /\ b.plays[e] = 0
                        /\ first[e] \in segs' \ b.folded
                        /\ lines'[first[e]][e] = 1
                     \/ /\ b.plays[e] = 1
                        /\ first[e] \in b.folded \/ lines'[first[e]][e] = 0
                        /\ Expired(first[e], clock)
  <2>1. IF first[e] = 0 THEN Unlanded(b, e) ELSE InLog(b, e) \/ InBase(b, e)
    BY <1>11 DEF Placed
  <2>2. first[e] # 0 => first[e] \in Days
    BY <1>b
  <2> QED BY <1>2, <1>5, <1>11, <2>1, <2>2 DEF Unlanded, InLog, InBase
<1>12. Placed(baseDisk)'
  <2>1. baseDisk \in Bases /\ Placed(baseDisk)
    BY DEF Inv, TypeInv, TypeOK, ExactlyOnceInv, DiskOk
  <2> QED BY <1>2, <1>4, <1>11, <2>1 DEF Placed, Unlanded, InLog, InBase
<1>13. Placed(base[i])'
  <2>1. base[i] \in Bases /\ Placed(base[i])
    BY <1>1 DEF Inv, TypeInv, TypeOK, WorkerOk
  <2> QED BY <1>2, <1>4, <1>11, <2>1 DEF Placed, Unlanded, InLog, InBase
<1>14. Untorn'
  BY DEF SweepUnlink, Untorn, Inv, TypeInv, TypeOK, ExactlyOnceInv, DiskOk
<1>15. LinesPlaced'
  BY <1>2, <1>5, <1>a DEF LinesPlaced
<1>16. DiskOk'
  BY <1>2, <1>12, <1>14, <1>15 DEF DiskOk, Inv, ExactlyOnceInv
<1>17. RollupOk(i)' /\ hasAgg'[i]
  BY <1>1, <1>2, SweepFrame
<1>18. AppendOk(i)'
  <2>1. app[i].pc = "write" => \A e \in app[i].acc : e \notin sw[i].expiring
    BY <1>1, <1>3, <1>4, DayFacts DEF WorkerOk, AppendOk
  <2> QED BY <1>1, <1>2, <1>6, <2>1 DEF WorkerOk, AppendOk
<1>19. IndexOk(i)'
  <2>1. \A c \in Days, e \in Events : lines'[c][e] > 0 => e \in seen'[i]
    BY <1>1, <1>4, <1>5, <1>6, <1>a DEF WorkerOk, IndexOk
  <2> QED BY <1>1, <1>2, <1>6, <2>1 DEF WorkerOk, IndexOk
<1>20. SweepOk(i)'
  <2>1. \A c \in sw'[i].removed : Expired(c, clock) /\ \A e \in Events : lines'[c][e] = 0
    BY <1>1, <1>3, <1>4, <1>5, <1>9, <1>b DEF WorkerOk, SweepOk
  <2> QED BY <1>1, <1>2, <1>9, <2>1 DEF WorkerOk, SweepOk
<1> QED BY <1>10, <1>13, <1>16, <1>17, <1>18, <1>19, <1>20, OneWorkerSuffices
        DEF WorkerOk

\* A sweep that ended promises nothing.
LEMMA NoSweepOk ==
    ASSUME NEW i \in Instances, clock' \in Nat, sw'[i] = NoSweep
    PROVE  SweepOk(i)'
BY DEF SweepOk, NoSweep

LEMMA SweepUnlinkFailsExact ==
    ASSUME Inv, NEW i \in Instances, SweepUnlinkFails(i)
    PROVE  ExactlyOnceInv'
<1>1. sw[i].pc = "unlink" /\ Worker(i) /\ WorkerOk(i)
  BY DEF SweepUnlinkFails, Worker, Busy, Inv, ExactlyOnceInv
<1>2. UNCHANGED <<clock, disk, cur, mem, app, first, acked>> /\ clock \in Nat
  BY DayFacts DEF SweepUnlinkFails, Inv, TypeInv, TypeOK
<1>3. sw'[i] = NoSweep /\ \A j \in Instances \ {i} : sw'[j] = sw[j]
  BY DEF SweepUnlinkFails, Inv, TypeInv, TypeOK
<1>4. DiskOk'
  BY <1>2, DiskFrame DEF Inv, ExactlyOnceInv, DiskOk
<1>5. \A j \in Instances \ {i} : ~Worker(j)'
  BY <1>1, <1>2, <1>3, OthersIdle
<1>6. Placed(base[i])'
  BY <1>1, <1>2 DEF WorkerOk, Placed, Unlanded, InLog, InBase, disk, mem
<1>7. AppendOk(i)' /\ IndexOk(i)' /\ RollupOk(i)' /\ hasAgg'[i]
  BY <1>1, <1>2, SweepFrame DEF disk, mem
<1>8. SweepOk(i)'
  BY <1>2, <1>3, NoSweepOk
<1> QED BY <1>4, <1>5, <1>6, <1>7, <1>8, OneWorkerSuffices DEF WorkerOk

LEMMA SweepSettleExact ==
    ASSUME Inv, NEW i \in Instances, SweepSettle(i)
    PROVE  ExactlyOnceInv'
<1> DEFINE settled == sw[i].removed \cap base[i].folded
<1>1. sw[i].pc = "next" /\ sw[i].todo = {} /\ Worker(i) /\ WorkerOk(i)
  BY DEF SweepSettle, Worker, Busy, Inv, ExactlyOnceInv
<1>2. UNCHANGED <<clock, disk, cur, seen, rollup, hasAgg, app, first, acked>>
  BY DEF SweepSettle
<1>a. clock \in Nat
  BY DayFacts DEF Inv, TypeInv, TypeOK
<1>3. \/ sw' = [sw EXCEPT ![i].pc = "settle"]
      \/ sw' = [sw EXCEPT ![i] = NoSweep]
  BY DEF SweepSettle
<1>4. /\ \/ sw'[i] = [sw[i] EXCEPT !.pc = "settle"]
         \/ sw'[i] = NoSweep
      /\ \A j \in Instances \ {i} : sw'[j] = sw[j]
  BY <1>3, SweepGoes DEF Inv, TypeInv, TypeOK
<1>5. base'[i].plays = base[i].plays /\ base'[i].folded = base[i].folded \ settled
  <2>1. CASE settled # {}
    <3>1. base' = [base EXCEPT ![i].folded = @ \ settled]
      BY <2>1 DEF SweepSettle
    <3> HIDE DEF settled
    <3> QED BY <3>1 DEF Inv, TypeInv, TypeOK, Bases
  <2>2. CASE settled = {}
    BY <2>2 DEF SweepSettle
  <2> QED BY <2>1, <2>2
<1>6. \A c \in settled : \A e \in Events : lines[c][e] = 0
  BY <1>1 DEF WorkerOk, SweepOk
<1> HIDE DEF settled
<1>7. DiskOk'
  BY <1>2, DiskFrame DEF Inv, ExactlyOnceInv, DiskOk
<1>8. \A j \in Instances \ {i} : ~Worker(j)'
  BY <1>1, <1>2, <1>4, OthersIdle
<1>9. Placed(base[i])'
  BY <1>1, <1>2, <1>5, <1>6 DEF WorkerOk, Placed, Unlanded, InLog, InBase, disk
<1>10. AppendOk(i)' /\ IndexOk(i)' /\ RollupOk(i)' /\ hasAgg'[i]
  BY <1>1, <1>2, SweepFrame DEF disk
<1>11. SweepOk(i)'
  <2>1. CASE sw'[i] = NoSweep
    BY <1>2, <1>a, <2>1, NoSweepOk
  <2>2. CASE sw'[i] = [sw[i] EXCEPT !.pc = "settle"]
    <3>1. /\ sw'[i].pc = "settle" /\ sw'[i].now = sw[i].now /\ sw'[i].todo = sw[i].todo
          /\ sw'[i].removed = sw[i].removed
      BY <2>2 DEF Inv, TypeInv, TypeOK, Sweeps
    <3> QED BY <1>1, <1>2, <3>1 DEF WorkerOk, SweepOk, disk
  <2> QED BY <1>4, <2>1, <2>2
<1> QED BY <1>7, <1>8, <1>9, <1>10, <1>11, OneWorkerSuffices DEF WorkerOk

LEMMA SweepDoneExact ==
    ASSUME Inv, NEW i \in Instances, SweepDone(i)
    PROVE  ExactlyOnceInv'
<1>1. sw[i].pc = "settle" /\ Worker(i) /\ WorkerOk(i)
  BY DEF SweepDone, Worker, Busy, Inv, ExactlyOnceInv
<1>2. /\ UNCHANGED <<clock, segs, lines, torn, openLine, cur, mem, app, first, acked>>
      /\ baseDisk' \in {base[i], baseDisk}
  BY DEF SweepDone, WriteBaseline, disk
<1>a. clock \in Nat
  BY DayFacts DEF Inv, TypeInv, TypeOK
<1>3. sw'[i] = NoSweep /\ \A j \in Instances \ {i} : sw'[j] = sw[j]
  BY DEF SweepDone, Inv, TypeInv, TypeOK
<1>4. Placed(base[i]) /\ Placed(baseDisk)
  BY <1>1 DEF WorkerOk, Inv, ExactlyOnceInv, DiskOk
<1>5. Placed(base[i])' /\ Placed(baseDisk)'
  BY <1>2, <1>4 DEF Placed, Unlanded, InLog, InBase, mem
<1>6. DiskOk'
  BY <1>2, <1>5 DEF Inv, ExactlyOnceInv, DiskOk, Untorn, LinesPlaced
<1>7. \A j \in Instances \ {i} : ~Worker(j)'
  BY <1>1, <1>2, <1>3, OthersIdle
<1>8. AppendOk(i)' /\ IndexOk(i)' /\ RollupOk(i)' /\ hasAgg'[i]
  BY <1>1, <1>2, SweepFrame DEF mem
<1>9. SweepOk(i)'
  BY <1>2, <1>3, <1>a, NoSweepOk
<1> QED BY <1>5, <1>6, <1>7, <1>8, <1>9, OneWorkerSuffices DEF WorkerOk

-----------------------------------------------------------------------------
\* One step per action; the two that tear an append do not happen here.
LEMMA ExactStep ==
    ASSUME InTime, Clean', Inv, [Next]_vars
    PROVE  Inv'
<1>1. TypeInv'
  BY TypeStep DEF Inv
<1>2. CASE UNCHANGED vars
  <2>1. UNCHANGED <<clock, disk, cur, mem, app, sw, first, acked>>
    BY <1>2 DEF vars
  <2> QED BY <2>1, <1>1 DEF disk, mem, Inv, ExactlyOnceInv, OneWorker, Worker, Busy,
            DiskOk, Untorn, LinesPlaced, WorkerOk, Placed, Unlanded, InLog, InBase,
            AppendOk, IndexOk, RollupOk, Served, SweepOk
<1>3. CASE NextDay
  BY <1>1, <1>3, NextDayExact DEF Inv
<1>4. CASE Stop
  BY <1>1, <1>4, StopExact DEF Inv
<1>5. CASE Crash
  BY <1>1, <1>5, CrashExact DEF Inv
<1>6. ASSUME NEW i \in Instances, Start(i) PROVE Inv'
  BY <1>1, <1>6, StartExact DEF Inv
<1>7. ASSUME NEW i \in Instances, CrashTearing(i) PROVE Inv'
  BY <1>7, NoStrike DEF CrashTearing
<1>8. ASSUME NEW i \in Instances, NEW batch \in SUBSET Events, Ingest(i, batch)
      PROVE  Inv'
  BY <1>1, <1>8, IngestExact DEF Inv
<1>9. ASSUME NEW i \in Instances, Append(i) PROVE Inv'
  <2>1. CASE AppendWritten(i)
    BY <1>1, <2>1, AppendWrittenExact DEF Inv
  <2>2. CASE Answer(i)
    BY <1>1, <2>2, AnswerExact DEF Inv
  <2>3. CASE AppendFails(i)
    BY <1>1, <2>3, AppendFailsExact DEF Inv
  <2>4. CASE AppendFailsPartly(i)
    BY <2>4, NoStrike DEF AppendFailsPartly
  <2> QED BY <1>9, <2>1, <2>2, <2>3, <2>4 DEF Append
<1>10. ASSUME NEW i \in Instances, Sweep(i) PROVE Inv'
  <2>1. CASE SweepList(i)
    BY <1>1, <2>1, SweepListExact DEF Inv
  <2>2. CASE SweepFold(i)
    BY <1>1, <2>2, SweepFoldExact DEF Inv
  <2>3. CASE SweepPersist(i)
    BY <1>1, <2>3, SweepPersistExact DEF Inv
  <2>4. CASE SweepPersistFails(i)
    BY <1>1, <2>4, SweepPersistFailsExact DEF Inv
  <2>5. CASE SweepUnlink(i)
    BY <1>1, <2>5, SweepUnlinkExact DEF Inv
  <2>6. CASE SweepUnlinkFails(i)
    BY <1>1, <2>6, SweepUnlinkFailsExact DEF Inv
  <2>7. CASE SweepSettle(i)
    BY <1>1, <2>7, SweepSettleExact DEF Inv
  <2>8. CASE SweepDone(i)
    BY <1>1, <2>8, SweepDoneExact DEF Inv
  <2> QED BY <1>10, <2>1, <2>2, <2>3, <2>4, <2>5, <2>6, <2>7, <2>8 DEF Sweep
<1> QED BY <1>2, <1>3, <1>4, <1>5, <1>6, <1>7, <1>8, <1>9, <1>10 DEF Next

\* A fault that has struck is not taken back.
LEMMA CleanBefore ==
    ASSUME [Next]_vars, Clean'
    PROVE  Clean
BY NoStrike, StepStrikes DEF Clean, vars

LEMMA ExactInv == ASSUME InTime PROVE Spec => []InvUntil
<1>1. Init => InvUntil
  BY TypeInit, InitExact DEF InvUntil
<1>2. InvUntil /\ [Next]_vars => InvUntil'
  <2> SUFFICES ASSUME InvUntil, [Next]_vars PROVE InvUntil'
    OBVIOUS
  <2>1. TypeInv'
    BY TypeStep DEF InvUntil
  <2>2. ASSUME Clean' PROVE ExactlyOnceInv'
    <3>1. Inv
      BY <2>2, CleanBefore DEF InvUntil, Inv
    <3>2. Inv'
      BY <2>2, <3>1, ExactStep
    <3> QED BY <3>2 DEF Inv
  <2> QED BY <2>1, <2>2 DEF InvUntil
<1> QED BY <1>1, <1>2, PTL DEF Spec

\* The places that count e: none before it landed, exactly one afterwards.
LEMMA OneHome ==
    ASSUME Inv, NEW e \in Events
    PROVE  IF first[e] = 0 THEN Homes(e) = {} ELSE \E h : Homes(e) = {h}
<1>1. baseDisk \in Bases /\ Placed(baseDisk)
  BY DEF Inv, TypeInv, TypeOK, ExactlyOnceInv, DiskOk
<1>2. CASE first[e] = 0
  <2>1. baseDisk.plays[e] = 0 /\ LiveLines(baseDisk, e) = {}
    BY <1>1, <1>2, LiveLinesOf
  <2> QED BY <1>2, <2>1 DEF Homes
<1>3. CASE first[e] # 0
  <2>1. \/ baseDisk.plays[e] = 0 /\ LiveLines(baseDisk, e) = {<<first[e], 1>>}
        \/ baseDisk.plays[e] = 1 /\ LiveLines(baseDisk, e) = {}
    BY <1>1, <1>3, LiveLinesOf
  <2>2. CASE baseDisk.plays[e] = 0 /\ LiveLines(baseDisk, e) = {<<first[e], 1>>}
    <3>1. Homes(e) = {<<first[e], 1>>}
      BY <2>2 DEF Homes
    <3> QED BY <1>3, <3>1
  <2>3. CASE baseDisk.plays[e] = 1 /\ LiveLines(baseDisk, e) = {}
    <3>1. Homes(e) = {<<0, 1>>}
      BY <2>3 DEF Homes
    <3> QED BY <1>3, <3>1
  <2> QED BY <2>1, <2>2, <2>3
<1> QED BY <1>2, <1>3

LEMMA HomeCount ==
    ASSUME Inv, NEW e \in Events
    PROVE  Cardinality(Homes(e)) = IF first[e] = 0 THEN 0 ELSE 1
<1>1. CASE first[e] = 0
  BY <1>1, OneHome, FS_EmptySet
<1>2. CASE first[e] # 0
  <2>1. PICK h : Homes(e) = {h}
    BY <1>2, OneHome
  <2>2. Cardinality({h}) = 1
    BY FS_Singleton
  <2> QED BY <1>2, <2>1, <2>2
<1> QED BY <1>1, <1>2

(***************************************************************************)
(* What the ingest route told a guest to forget stays counted on disk.     *)
(***************************************************************************)
THEOREM AckedStaysCounted == ASSUME InTime PROVE Spec => []AckedIsCounted
<1>1. InvUntil => AckedIsCounted
  <2> SUFFICES ASSUME Inv, NEW e \in acked PROVE Homes(e) # {}
    BY DEF AckedIsCounted, InvUntil, Inv
  <2>1. e \in Events /\ first[e] # 0
    BY DEF Inv, TypeInv, TypeOK, ExactlyOnceInv, DiskOk
  <2> QED BY <2>1, OneHome
<1> QED BY <1>1, ExactInv, PTL

\* A landed event stays landed, whatever happens.
LEMMA LandedStays ==
    ASSUME TypeInv, Next, NEW e \in Events, first[e] # 0
    PROVE  first'[e] = first[e]
BY DEF Next, NextDay, Stop, Crash, Start, CrashTearing, Ingest, Append, AppendWritten,
       Answer, AppendFails, AppendFailsPartly, NoteLanding, Sweep, SweepList, SweepFold,
       SweepPersist, SweepPersistFails, SweepUnlink, SweepUnlinkFails, SweepSettle,
       SweepDone

(***************************************************************************)
(* "A lifetime play count must never decrease" (aggregates.ts).            *)
(***************************************************************************)
THEOREM LifetimeCountGrows == ASSUME InTime PROVE Spec => PlaysNeverDecrease
<1>1. InvUntil /\ InvUntil' /\ [Next]_vars =>
        [Clean' => \A e \in Events : Cardinality(Homes(e)) <= Cardinality(Homes(e)')]_vars
  <2> SUFFICES ASSUME Inv, Inv', Next, NEW e \in Events
               PROVE  Cardinality(Homes(e)) <= Cardinality(Homes(e)')
    BY CleanBefore DEF InvUntil, Inv
  <2>1. Cardinality(Homes(e)) = IF first[e] = 0 THEN 0 ELSE 1
    BY HomeCount
  <2>2. (Inv => Cardinality(Homes(e)) = IF first[e] = 0 THEN 0 ELSE 1)'
    BY HomeCount, PTL
  <2>3. first[e] # 0 => first'[e] # 0
    BY LandedStays DEF Inv
  <2> QED BY <2>1, <2>2, <2>3
<1> QED BY <1>1, ExactInv, PTL DEF Spec, PlaysNeverDecrease

-----------------------------------------------------------------------------
Landed == {e \in Events : first[e] # 0}

\* What the abstract counter calls counted is what has landed.
LEMMA CountedIsLanded ==
    ASSUME Inv
    PROVE  {e \in Events : Homes(e) # {}} = Landed
<1>1. \A e \in Events : Homes(e) # {} <=> first[e] # 0
  BY OneHome
<1> QED BY <1>1 DEF Landed

\* A step lands events or tells the guest about landed ones, never both.
LEMMA LandOrTell ==
    ASSUME Inv, Next
    PROVE  \/ acked' = acked /\ Landed \subseteq Landed' /\ Landed' \subseteq Events
           \/ first' = first /\ \E some \in SUBSET Landed : acked' = acked \cup some
<1>1. CASE UNCHANGED acked
  BY <1>1, LandedStays DEF Landed, Inv
<1>2. ASSUME NEW i \in Instances, NEW batch \in SUBSET Events, Ingest(i, batch),
             acked' # acked
      PROVE  first' = first /\ \E some \in SUBSET Landed : acked' = acked \cup some
  <2>1. cur = i /\ app[i].pc = "idle" /\ first' = first
    BY <1>2 DEF Ingest
  <2>2. acked' = acked \cup (batch \cap seen[i])
    BY <1>2 DEF Ingest
  <2>3. IndexOk(i)
    BY <2>1 DEF Inv, ExactlyOnceInv, Worker, WorkerOk
  <2>4. batch \cap seen[i] \in SUBSET Landed
    BY <2>1, <2>3 DEF IndexOk, Landed
  <2> QED BY <2>1, <2>2, <2>4
<1>3. ASSUME NEW i \in Instances, Answer(i), acked' # acked
      PROVE  first' = first /\ \E some \in SUBSET Landed : acked' = acked \cup some
  <2>1. app[i].pc = "answer" /\ first' = first
    BY <1>3 DEF Answer
  <2>2. acked' = acked \cup (app[i].acc \cup app[i].dup)
    BY <1>3 DEF Answer
  <2>3. AppendOk(i)
    BY <2>1 DEF Inv, ExactlyOnceInv, Worker, Busy, WorkerOk
  <2>4. app[i].acc \cup app[i].dup \in SUBSET Landed
    BY <2>1, <2>3 DEF AppendOk, Landed, Inv, TypeInv, TypeOK, Appends
  <2> QED BY <2>1, <2>2, <2>4
<1>4. \/ UNCHANGED acked
      \/ \E i \in Instances : \/ Answer(i)
                             \/ \E batch \in SUBSET Events : Ingest(i, batch)
  BY DEF Next, NextDay, Stop, Crash, LoseMemory, Start, CrashTearing, Append,
         AppendWritten, AppendFails, AppendFailsPartly, ForgetAppend, Sweep, SweepList,
         SweepFold, SweepPersist, SweepPersistFails, SweepUnlink, SweepUnlinkFails,
         SweepSettle, SweepDone
<1> QED BY <1>1, <1>2, <1>3, <1>4

(***************************************************************************)
(* The log with its index, its sweep and its restarts implements the       *)
(* abstract counter: plays are only ever added, and a guest is told only   *)
(* about plays that are counted.                                           *)
(***************************************************************************)
THEOREM LogImplementsCounter == ASSUME InTime PROVE Spec => ImplementsCounter
<1> DEFINE counted == {e \in Events : Homes(e) # {}}
<1>1. Init => Counter!Init
  <2> SUFFICES ASSUME Init PROVE Counter!Init
    OBVIOUS
  <2>1. Inv
    BY TypeInit, InitExact DEF Inv
  <2>2. Landed = {} /\ acked = {} /\ Clean
    BY DEF Init, Landed, Clean
  <2> QED BY <2>1, <2>2, CountedIsLanded DEF Counter!Init
<1>2. InvUntil /\ InvUntil' /\ [Next]_vars => [Counter!Next]_<<counted, acked, ~Clean>>
  <2>0. ASSUME ~Clean' PROVE Counter!Next
    BY <2>0 DEF Counter!Next
  <2> SUFFICES ASSUME Inv, Inv', Clean', [Next]_vars
               PROVE  [Counter!Next]_<<counted, acked, ~Clean>>
    BY <2>0, CleanBefore DEF InvUntil, Inv
  <2>1. counted = Landed
    BY CountedIsLanded
  <2>2. (Inv => counted = Landed)'
    BY CountedIsLanded, PTL
  <2>3. counted' = Landed'
    BY <2>2
  <2>a. Clean' = Clean
    <3>1. Clean
      BY CleanBefore
    <3> QED BY <3>1 DEF Clean
  <2>4. CASE Next
    <3>1. CASE acked' = acked /\ Landed \subseteq Landed' /\ Landed' \subseteq Events
      <4>1. Counter!Count(Landed')
        BY <2>1, <2>3, <2>a, <3>1 DEF Counter!Count
      <4> QED BY <3>1, <4>1 DEF Counter!Next
    <3>2. CASE first' = first /\ \E some \in SUBSET Landed : acked' = acked \cup some
      <4>1. PICK some \in SUBSET Landed : acked' = acked \cup some
        BY <3>2
      <4>2. Landed' = Landed
        BY <3>2 DEF Landed
      <4>3. Counter!Tell(some)
        BY <2>1, <2>3, <2>a, <4>1, <4>2 DEF Counter!Tell
      <4>4. some \in SUBSET Events
        BY <4>1 DEF Landed
      <4> QED BY <4>3, <4>4 DEF Counter!Next
    <3> QED BY <2>4, <3>1, <3>2, LandOrTell
  <2>5. CASE UNCHANGED vars
    <3>1. Landed' = Landed /\ acked' = acked
      BY <2>5 DEF vars, Landed
    <3> QED BY <2>1, <2>3, <2>a, <3>1
  <2> QED BY <2>4, <2>5
<1> QED BY <1>1, <1>2, ExactInv, PTL DEF Spec, ImplementsCounter, Counter!Spec

-----------------------------------------------------------------------------
(***************************************************************************)
(* Faults that only lose lines.  An event may then be in no place, land    *)
(* again, and be dropped by a sweep that could not read it; that it never  *)
(* is in two places rests on less than ExactlyOnceInv: one line at most,   *)
(* none outside of what a baseline folded once it counts the event, and an *)
(* index that knows every line and whatever is too young to be frozen.     *)
(***************************************************************************)
\* What a baseline has frozen it has frozen once, of an event too old to be sent again.
Frozen(b) ==
    /\ \A e \in Events : b.plays[e] # 0 =>
          /\ b.plays[e] = 1 /\ first[e] # 0 /\ Expired(first[e], clock)
          /\ \A d \in Days : lines[d][e] > 0 => d \in b.folded
    /\ \A d \in b.folded : Expired(d, clock)

\* An event has at most one line, in the segment of a day since it first landed.
OneLine ==
    \A d \in Days, e \in Events : lines[d][e] > 0 =>
        /\ lines[d][e] = 1 /\ d \in segs /\ first[e] # 0 /\ first[e] <= d
        /\ \A c \in Days : lines[c][e] > 0 => c = d

\* What is being written is indexed, and counted nowhere yet.
WritesNew(i) ==
    /\ app[i].pc # "idle" => app[i].day <= clock /\ clock <= app[i].day + 1
    /\ app[i].pc = "write" => \A e \in app[i].acc :
          /\ e \in seen[i] /\ first[e] <= app[i].day
          /\ Unlanded(baseDisk, e) /\ Unlanded(base[i], e)

\* What a sweep takes from the index has expired, and is on no other line.
SweepsOld(i) ==
    /\ sw[i].now <= clock
    /\ \A d \in sw[i].todo \cup sw[i].removed : Expired(d, clock)
    /\ \A d \in sw[i].removed, e \in Events : lines[d][e] = 0
    /\ sw[i].pc \in {"persist", "unlink"} =>
          /\ Expired(sw[i].seg, clock)
          /\ \A e \in sw[i].expiring :
                /\ e \in seen[i]
                /\ app[i].pc = "write" => e \notin app[i].acc
                /\ \A d \in Days : lines[d][e] > 0 => d = sw[i].seg

\* The index knows every line.
Indexed(i) == \A d \in Days, e \in Events : lines[d][e] > 0 => e \in seen[i]

SparedWorker(i) == Frozen(base[i]) /\ Indexed(i) /\ WritesNew(i) /\ SweepsOld(i)

SparedDisk ==
    /\ OneLine /\ Frozen(baseDisk)
    /\ \A e \in Events : first[e] <= clock

SparedInv ==
    /\ OneWorker /\ SparedDisk
    /\ \A i \in Instances : Worker(i) => SparedWorker(i)

\* Some fault may have struck, but none that spoils the index.
SparedUntil == TypeInv /\ (IndexSpared => SparedInv)

\* Such a fault neither overlaps two instances nor breaks an append off.
LEMMA SparedStrike ==
    ASSUME IndexSpared', NEW K, Strike(K)
    PROVE  IndexSpared /\ K \cap {"overlap", "partialError"} = {}
BY DEF IndexSpared, Strike

\* It is enough to look at the one instance that works.
LEMMA SparedSuffices ==
    ASSUME NEW i \in Instances,
           \A j \in Instances \ {i} : ~Worker(j)',
           SparedDisk', Worker(i)' => SparedWorker(i)'
    PROVE  SparedInv'
BY DEF SparedInv, OneWorker

LEMMA OthersRest ==
    ASSUME OneWorker, NEW i \in Instances, Worker(i),
           cur' \in {cur, NoInstance},
           \A j \in Instances \ {i} : app'[j] = app[j] /\ sw'[j] = sw[j]
    PROVE  \A j \in Instances \ {i} : ~Worker(j)'
<1>1. \A j \in Instances \ {i} : ~Worker(j)
  BY DEF OneWorker
<1> QED BY <1>1, ConstantsAssumption DEF Worker, Busy

\* A step that leaves the disk and the landings alone.
LEMMA SparedDiskFrame ==
    ASSUME SparedDisk, UNCHANGED <<disk, first, clock>>
    PROVE  SparedDisk'
BY DEF disk, SparedDisk, OneLine, Frozen

\* A baseline stays frozen while its events keep their landings and gain no line.
LEMMA FrozenStays ==
    ASSUME TypeInv, TypeInv', NEW b \in Bases, Frozen(b), clock <= clock',
           \A e \in Events : b.plays[e] # 0 =>
              /\ first'[e] = first[e]
              /\ \A d \in Days : lines'[d][e] > 0 => lines[d][e] > 0
    PROVE  /\ \A e \in Events : b.plays[e] # 0 =>
                 /\ b.plays[e] = 1 /\ first'[e] # 0 /\ Expired(first'[e], clock')
                 /\ \A d \in Days : lines'[d][e] > 0 => d \in b.folded
           /\ \A d \in b.folded : Expired(d, clock')
<1>1. clock \in Nat /\ clock' \in Nat
  BY DayFacts DEF TypeInv, TypeOK
<1>2. \A d \in Days : Expired(d, clock) => Expired(d, clock')
  BY <1>1, ExpiredLater, DayFacts
<1>3. first \in [Events -> Days \cup {0}] /\ b.folded \subseteq Days
  BY DEF TypeInv, TypeOK, Bases
<1> QED BY <1>2, <1>3 DEF Frozen

-----------------------------------------------------------------------------
LEMMA SparedInit == Init => SparedInv
<1> SUFFICES ASSUME Init PROVE SparedInv
  OBVIOUS
<1>1. \A i \in Instances : ~Worker(i)
  BY ConstantsAssumption DEF Init, Worker, Busy, Idle, NoSweep
<1>2. SparedDisk
  BY DEF Init, SparedDisk, OneLine, Frozen, EmptyBase, NoLines
<1> QED BY <1>1, <1>2 DEF SparedInv, OneWorker

LEMMA SparedNextDay ==
    ASSUME TypeInv, TypeInv', SparedInv, NextDay
    PROVE  SparedInv'
<1>1. clock \in Nat /\ clock' = clock + 1 /\ clock <= clock'
  BY DayFacts DEF TypeInv, TypeOK, NextDay
<1>2. \A d \in Days : Expired(d, clock) => Expired(d, clock')
  BY <1>1, ExpiredLater, DayFacts
<1>3. UNCHANGED <<segs, lines, baseDisk, cur, seen, base, app, sw, first>>
  BY DEF NextDay, disk, mem
<1>4. \A i \in Instances : Worker(i)' <=> Worker(i)
  BY <1>3 DEF Worker, Busy
<1>5. SparedDisk'
  <2>1. baseDisk \in Bases /\ Frozen(baseDisk)
    BY DEF TypeInv, TypeOK, SparedInv, SparedDisk
  <2>2. Frozen(baseDisk)'
    BY <1>1, <1>3, <2>1, FrozenStays DEF Frozen
  <2>3. \A e \in Events : first'[e] <= clock'
    <3>1. \A e \in Events : first[e] \in Nat /\ first[e] <= clock
      BY DayFacts DEF SparedInv, SparedDisk, TypeInv, TypeOK
    <3> QED BY <1>1, <1>3, <3>1
  <2> QED BY <1>3, <2>2, <2>3 DEF SparedInv, SparedDisk, OneLine
<1>6. ASSUME NEW i \in Instances, Worker(i) PROVE SparedWorker(i)'
  <2>1. SparedWorker(i) /\ base[i] \in Bases
    BY <1>6 DEF SparedInv, TypeInv, TypeOK
  <2>2. Frozen(base[i])'
    BY <1>1, <1>3, <2>1, FrozenStays DEF SparedWorker, Frozen
  <2>3. WritesNew(i)'
    <3>1. app[i].pc # "idle" => app[i].day = clock
      BY DEF NextDay
    <3> QED BY <1>1, <1>3, <2>1, <3>1 DEF SparedWorker, WritesNew, Unlanded
  <2>4. SweepsOld(i)'
    <3>1. /\ sw[i].now \in Nat
          /\ sw[i].todo \subseteq Days /\ sw[i].removed \subseteq Days
          /\ sw[i].pc \in {"persist", "unlink"} => sw[i].seg \in Days
      BY DayFacts DEF TypeInv, TypeOK, Sweeps, WorkTyped
    <3> QED BY <1>1, <1>2, <1>3, <2>1, <3>1 DEF SparedWorker, SweepsOld
  <2> QED BY <1>3, <2>1, <2>2, <2>3, <2>4 DEF SparedWorker, Indexed
<1> QED BY <1>4, <1>5, <1>6 DEF SparedInv, OneWorker

LEMMA SparedStop ==
    ASSUME SparedInv, Stop
    PROVE  SparedInv'
<1>1. UNCHANGED <<clock, disk, mem, app, sw, first>>
  BY DEF Stop
<1>2. SparedDisk'
  BY <1>1, SparedDiskFrame DEF SparedInv
<1>3. \A i \in Instances : Worker(i)' => Worker(i)
  BY ConstantsAssumption DEF Stop, Worker, Busy
<1>4. ASSUME NEW i \in Instances, SparedWorker(i) PROVE SparedWorker(i)'
  BY <1>1, <1>4 DEF SparedWorker, Frozen, Indexed, WritesNew, SweepsOld, Unlanded, disk, mem
<1> QED BY <1>2, <1>3, <1>4 DEF SparedInv, OneWorker

\* Nobody works after the process ended.
LEMMA NobodyWorks ==
    ASSUME LoseMemory
    PROVE  \A i \in Instances : ~Worker(i)'
BY ConstantsAssumption DEF LoseMemory, Worker, Busy, Idle, NoSweep

LEMMA SparedCrash ==
    ASSUME SparedInv, Crash
    PROVE  SparedInv'
<1>1. SparedDisk'
  BY SparedDiskFrame DEF Crash, LoseMemory, SparedInv
<1> QED BY <1>1, NobodyWorks DEF Crash, SparedInv, OneWorker

-----------------------------------------------------------------------------
\* The part of an append that lands gives each of its events its only line; an open
\* line that is glued to it is lost.
LEMMA Landing ==
    ASSUME TypeInv, TypeInv', OneLine,
           NEW d \in Days, NEW acc \in SUBSET Events,
           NEW evs \in SUBSET acc, NEW w, w.kept \subseteq evs,
           Land(d, w), NoteLanding(d, evs),
           \A e \in acc : first[e] <= d /\ \A c \in Days : lines[c][e] = 0
    PROVE  /\ OneLine'
           /\ \A c \in Days, e \in Events :
                 lines'[c][e] > 0 => lines[c][e] > 0 \/ (c = d /\ e \in acc)
<1>1. /\ \A c \in Days, e \in Events : lines[c][e] \in Nat
      /\ first \in [Events -> Days \cup {0}]
  BY DEF TypeInv, TypeOK
<1>2. \A e \in Events : first'[e] = IF e \in evs /\ first[e] = 0 THEN d ELSE first[e]
  BY DEF NoteLanding
<1>3. \A c \in Days, e \in Events :
         lines'[c][e] = IF c = d
                          THEN (IF e \in openLine[d] THEN lines[d][e] - 1 ELSE lines[d][e])
                                  + (IF e \in w.kept THEN 1 ELSE 0)
                          ELSE lines[c][e]
  BY DEF Land, TypeInv, TypeOK
<1>4. \A e \in openLine[d] : lines[d][e] > 0
  BY DEF TypeInv, WorkTyped
<1>5. ASSUME NEW c \in Days, NEW e \in Events, e \notin w.kept, lines'[c][e] > 0
      PROVE  lines[c][e] > 0 /\ lines'[c][e] <= lines[c][e]
  BY <1>1, <1>3, <1>5
<1>6. ASSUME NEW c \in Days, NEW e \in w.kept
      PROVE  lines'[c][e] = IF c = d THEN 1 ELSE 0
  BY <1>1, <1>3, <1>4
<1>7. \A c \in Days, e \in Events :
         lines'[c][e] > 0 => lines[c][e] > 0 \/ (c = d /\ e \in acc)
  BY <1>5, <1>6
<1>8. segs' = segs \cup {d} /\ d # 0 /\ d \in Nat
  BY DayFacts DEF Land
<1>9. ASSUME NEW c \in Days, NEW e \in Events, lines'[c][e] > 0
      PROVE  /\ lines'[c][e] = 1 /\ c \in segs' /\ first'[e] # 0 /\ first'[e] <= c
             /\ \A a \in Days : lines'[a][e] > 0 => a = c
  <2>1. CASE e \in w.kept
    BY <1>2, <1>6, <1>8, <1>9, <2>1
  <2>2. CASE e \notin w.kept
    <3>1. lines[c][e] > 0 /\ lines'[c][e] <= lines[c][e]
      BY <1>5, <1>9, <2>2
    <3>2. /\ lines[c][e] = 1 /\ c \in segs /\ first[e] # 0 /\ first[e] <= c
          /\ \A a \in Days : lines[a][e] > 0 => a = c
      BY <3>1 DEF OneLine
    <3>3. lines'[c][e] \in Nat
      BY DEF TypeInv, TypeOK
    <3> QED BY <1>2, <1>5, <1>8, <1>9, <2>2, <3>1, <3>2, <3>3
  <2> QED BY <2>1, <2>2
<1> QED BY <1>7, <1>9 DEF OneLine

\* What any part of an append, landing, leaves on disk.
LEMMA LandingSpared ==
    ASSUME TypeInv, TypeInv', SparedDisk, NEW i \in Instances, WritesNew(i),
           app[i].pc = "write", clock' = clock,
           NEW evs \in SUBSET app[i].acc, NEW w, w.kept \subseteq evs,
           Land(app[i].day, w), NoteLanding(app[i].day, evs)
    PROVE  /\ SparedDisk'
           /\ \A c \in Days, e \in Events :
                 lines'[c][e] > 0 => lines[c][e] > 0 \/ (c = app[i].day /\ e \in app[i].acc)
<1>1. /\ app[i].day \in Days /\ app[i].acc \in SUBSET Events
      /\ app[i].day <= clock
      /\ \A e \in app[i].acc : first[e] <= app[i].day /\ Unlanded(baseDisk, e)
  BY DEF TypeInv, TypeOK, WorkTyped, Appends, WritesNew
<1>2. /\ OneLine'
      /\ \A c \in Days, e \in Events :
            lines'[c][e] > 0 => lines[c][e] > 0 \/ (c = app[i].day /\ e \in app[i].acc)
      /\ \A e \in Events :
            first'[e] = IF e \in evs /\ first[e] = 0 THEN app[i].day ELSE first[e]
  <2>1. OneLine
    BY DEF SparedDisk
  <2>2. \A e \in app[i].acc : first[e] <= app[i].day /\ \A c \in Days : lines[c][e] = 0
    BY <1>1 DEF Unlanded
  <2>3. PICK d \in Days : d = app[i].day
    BY <1>1
  <2>4. PICK acc \in SUBSET Events : acc = app[i].acc
    BY <1>1
  <2>5. Land(d, w)
    BY <2>3 DEF Land
  <2>6. NoteLanding(d, evs)
    BY <2>3 DEF NoteLanding
  <2>7. \A e \in acc : first[e] <= d /\ \A c \in Days : lines[c][e] = 0
    BY <2>2, <2>3, <2>4
  <2>8. evs \in SUBSET acc
    BY <2>4
  <2>9. OneLine'
    BY <2>1, <2>5, <2>6, <2>7, <2>8, Landing
  <2>10. \A c \in Days, e \in Events :
            lines'[c][e] > 0 => lines[c][e] > 0 \/ (c = d /\ e \in acc)
    BY <2>1, <2>5, <2>6, <2>7, <2>8, Landing
  <2>11. \A e \in Events : first'[e] = IF e \in evs /\ first[e] = 0 THEN d ELSE first[e]
    BY <2>6 DEF NoteLanding
  <2> QED BY <2>3, <2>4, <2>9, <2>10, <2>11
<1>3. baseDisk' = baseDisk /\ baseDisk \in Bases /\ Frozen(baseDisk)
  BY DEF Land, SparedDisk, TypeInv, TypeOK
<1>4. ASSUME NEW e \in Events, baseDisk.plays[e] # 0
      PROVE  first'[e] = first[e] /\ \A d \in Days : lines'[d][e] > 0 => lines[d][e] > 0
  <2>1. e \notin app[i].acc
    BY <1>1, <1>4 DEF Unlanded
  <2> QED BY <1>2, <2>1
<1>5. clock \in Nat /\ clock <= clock'
  BY DayFacts DEF TypeInv, TypeOK
<1>6. Frozen(baseDisk)'
  BY <1>3, <1>4, <1>5, FrozenStays DEF Frozen
<1>7. \A e \in Events : first'[e] <= clock'
  BY <1>1, <1>2 DEF SparedDisk
<1> QED BY <1>2, <1>6, <1>7 DEF SparedDisk

LEMMA SparedCrashTearing ==
    ASSUME TypeInv, TypeInv', SparedInv, NEW i \in Instances, CrashTearing(i)
    PROVE  SparedInv'
<1>1. app[i].pc = "write" /\ WritesNew(i) /\ clock' = clock
  BY DEF CrashTearing, LoseMemory, SparedInv, Worker, Busy, SparedWorker
<1>2. PICK w \in CutWrites(app[i].day, app[i].acc) :
         Land(app[i].day, w) /\ NoteLanding(app[i].day, w.kept)
  BY DEF CrashTearing
<1>3. w.kept \in SUBSET app[i].acc
  BY <1>2 DEF CutWrites, Survivors
<1>4. SparedDisk'
  BY <1>1, <1>2, <1>3, LandingSpared DEF SparedInv
<1> QED BY <1>4, NobodyWorks DEF CrashTearing, SparedInv, OneWorker

LEMMA SparedStart ==
    ASSUME TypeInv, SparedInv, IndexSpared', NEW i \in Instances, Start(i)
    PROVE  SparedInv'
<1>1. SparedDisk'
  BY SparedDiskFrame DEF Start, SparedInv
<1>2. \A j \in Instances : ~Busy(j)
  <2>1. Overlap \cap {"overlap", "partialError"} = {}
    <3>1. \E K : Overlap \subseteq K /\ Strike(K)
      BY DEF Start
    <3> QED BY <3>1, SparedStrike
  <2> QED BY <2>1 DEF Overlap
<1>3. \A j \in Instances \ {i} : ~Worker(j)'
  BY <1>2 DEF Start, Worker, Busy, TypeInv, TypeOK
<1>4. UNCHANGED <<disk, app, first, clock>> /\ app[i].pc = "idle"
  BY <1>2 DEF Start, Busy
<1>5. base'[i] \in {baseDisk, EmptyBase}
  BY DEF Start, OpenAggregates, TypeInv, TypeOK
<1>6. Frozen(base[i])'
  BY <1>4, <1>5 DEF SparedInv, SparedDisk, Frozen, EmptyBase, NoLines, disk
<1>7. Indexed(i)'
  <2>1. seen'[i] = UNION {Readable(d) : d \in segs}
    BY DEF Start, OpenIndex, TypeInv, TypeOK
  <2>2. \A d \in Days, e \in Events : lines[d][e] > 0 => d \in segs
    BY DEF SparedInv, SparedDisk, OneLine
  <2>3. \A d \in Days, e \in Events : lines[d][e] > 0 => e \in seen'[i]
    BY <2>1, <2>2 DEF Readable
  <2> QED BY <1>4, <2>3 DEF Indexed, disk
<1>8. WritesNew(i)'
  BY <1>4 DEF WritesNew
<1>9. SweepsOld(i)'
  <2>1. sw'[i] = [NoSweep EXCEPT !.pc = "list", !.now = clock]
    BY DEF Start, TypeInv, TypeOK
  <2>2. /\ sw'[i].pc = "list" /\ sw'[i].now = clock
        /\ sw'[i].todo = {} /\ sw'[i].removed = {}
    BY <2>1 DEF NoSweep
  <2>3. clock \in Nat
    BY DayFacts DEF TypeInv, TypeOK
  <2> QED BY <1>4, <2>2, <2>3 DEF SweepsOld
<1> QED BY <1>1, <1>3, <1>6, <1>7, <1>8, <1>9, SparedSuffices DEF SparedWorker

\* What a guest may send again, and the index does not know, is counted nowhere.
LEMMA UnknownIsUnlanded ==
    ASSUME TypeInv, InTime, NEW i \in Instances, Indexed(i),
           NEW e \in Events, e \notin seen[i], Resendable(e),
           NEW b \in Bases, Frozen(b)
    PROVE  Unlanded(b, e)
<1>1. \A d \in Days : lines[d][e] = 0
  BY DEF Indexed, TypeInv, TypeOK
<1>2. b.plays[e] = 0
  <2> SUFFICES ASSUME b.plays[e] # 0 PROVE FALSE
    BY DEF Bases
  <2>1. first[e] # 0 /\ Expired(first[e], clock) /\ clock <= first[e] + ResendWindow
    BY DEF Frozen, Resendable
  <2>2. first[e] \in Nat /\ clock \in Nat
    BY DayFacts DEF TypeInv, TypeOK
  <2> QED BY <2>1, <2>2, DayFacts DEF Expired, InTime
<1> QED BY <1>1, <1>2 DEF Unlanded

LEMMA SparedIngest ==
    ASSUME TypeInv, SparedInv, InTime,
           NEW i \in Instances, NEW batch \in SUBSET Events, Ingest(i, batch)
    PROVE  SparedInv'
<1> DEFINE acc == batch \ seen[i]
<1>1. Worker(i) /\ app[i].pc = "idle"
  BY DEF Ingest, Worker
<1>2. SparedWorker(i)
  BY <1>1 DEF SparedInv
<1>3. UNCHANGED <<clock, disk, cur, base, sw, first>>
  BY DEF Ingest
<1>4. seen'[i] = seen[i] \cup acc
  BY DEF Ingest, TypeInv, TypeOK
<1>5. /\ \A j \in Instances \ {i} : app'[j] = app[j]
      /\ \/ app'[i] = app[i]
         \/ app'[i].pc = "write" /\ app'[i].day = clock /\ app'[i].acc = acc
  BY DEF Ingest, TypeInv, TypeOK
<1>6. ASSUME NEW e \in acc
      PROVE  first[e] <= clock /\ Unlanded(baseDisk, e) /\ Unlanded(base[i], e)
  <2>1. Resendable(e) /\ e \notin seen[i] /\ e \in Events
    BY DEF Ingest
  <2>2. Frozen(baseDisk) /\ baseDisk \in Bases /\ Frozen(base[i]) /\ base[i] \in Bases
    BY <1>2 DEF SparedInv, SparedDisk, SparedWorker, TypeInv, TypeOK
  <2>3. Indexed(i)
    BY <1>2 DEF SparedWorker
  <2>4. Unlanded(baseDisk, e) /\ Unlanded(base[i], e)
    BY <2>1, <2>2, <2>3, UnknownIsUnlanded
  <2> QED BY <2>1, <2>4 DEF SparedInv, SparedDisk
<1>7. SparedDisk'
  BY <1>3, SparedDiskFrame DEF SparedInv
<1>8. \A j \in Instances \ {i} : ~Worker(j)'
  BY <1>1, <1>3, <1>5, OthersRest DEF SparedInv
<1>9. Frozen(base[i])' /\ Indexed(i)'
  BY <1>2, <1>3, <1>4 DEF SparedWorker, Frozen, Indexed, disk
<1>10. clock \in Nat
  BY DayFacts DEF TypeInv, TypeOK
<1>11. WritesNew(i)'
  <2>1. CASE app'[i] = app[i]
    BY <1>1, <2>1 DEF WritesNew
  <2>2. CASE app'[i].pc = "write" /\ app'[i].day = clock /\ app'[i].acc = acc
    BY <1>3, <1>4, <1>6, <1>10, <2>2 DEF WritesNew, Unlanded, disk
  <2> QED BY <1>5, <2>1, <2>2
<1>12. SweepsOld(i)'
  BY <1>1, <1>2, <1>3, <1>4, <1>5 DEF SparedWorker, SweepsOld, disk
<1> QED BY <1>7, <1>8, <1>9, <1>11, <1>12, SparedSuffices DEF SparedWorker

LEMMA SparedAppendWritten ==
    ASSUME TypeInv, TypeInv', SparedInv, NEW i \in Instances, AppendWritten(i)
    PROVE  SparedInv'
<1>1. app[i].pc = "write" /\ Worker(i) /\ SparedWorker(i)
  BY DEF AppendWritten, Worker, Busy, SparedInv
<1>2. UNCHANGED <<clock, cur, mem, sw>>
  BY DEF AppendWritten
<1>3. PICK w \in WholeWrites(app[i].day, app[i].acc) : Land(app[i].day, w)
  BY DEF AppendWritten
<1>4. w.kept \subseteq app[i].acc /\ NoteLanding(app[i].day, app[i].acc)
  BY <1>3 DEF WholeWrites, Survivors, AppendWritten
<1>5. /\ SparedDisk'
      /\ \A c \in Days, e \in Events :
            lines'[c][e] > 0 => lines[c][e] > 0 \/ (c = app[i].day /\ e \in app[i].acc)
  BY <1>1, <1>2, <1>3, <1>4, LandingSpared DEF SparedInv, SparedWorker
<1>6. /\ app'[i].pc = "answer" /\ app'[i].day = app[i].day
      /\ \A j \in Instances \ {i} : app'[j] = app[j]
  BY AppendGoes DEF AppendWritten, TypeInv, TypeOK, Appends
<1>7. \A j \in Instances \ {i} : ~Worker(j)'
  BY <1>1, <1>2, <1>6, OthersRest DEF SparedInv
<1>8. WritesNew(i) /\ Frozen(base[i]) /\ Indexed(i) /\ SweepsOld(i)
  BY <1>1 DEF SparedWorker
<1>9. Frozen(base[i])'
  <2>1. base[i] \in Bases /\ base'[i] = base[i] /\ clock \in Nat
    BY <1>2, DayFacts DEF mem, TypeInv, TypeOK
  <2>2. ASSUME NEW e \in Events, base[i].plays[e] # 0
        PROVE  first'[e] = first[e] /\ \A d \in Days : lines'[d][e] > 0 => lines[d][e] > 0
    <3>1. e \notin app[i].acc
      BY <1>1, <1>8, <2>2 DEF WritesNew, Unlanded
    <3> QED BY <1>4, <1>5, <3>1 DEF NoteLanding
  <2> QED BY <1>2, <1>8, <2>1, <2>2, FrozenStays DEF Frozen
<1>10. Indexed(i)'
  BY <1>1, <1>2, <1>5, <1>8 DEF Indexed, WritesNew, mem
<1>11. WritesNew(i)'
  BY <1>1, <1>2, <1>6, <1>8 DEF WritesNew
<1>12. SweepsOld(i)'
  <2>1. /\ sw[i].removed \subseteq Days /\ sw[i].expiring \subseteq Events
        /\ \A c \in Days, e \in Events : lines'[c][e] \in Nat
    BY DEF TypeInv, TypeOK, Sweeps
  <2>2. ~Expired(app[i].day, clock)
    <3>1. app[i].day \in Nat /\ clock \in Nat
      BY <1>1, DayFacts DEF TypeInv, TypeOK, WorkTyped
    <3> QED BY <1>1, <1>8, <3>1, WritingNotExpired DEF WritesNew
  <2>3. ASSUME NEW c \in sw[i].removed, NEW e \in Events PROVE lines'[c][e] = 0
    <3>1. c # app[i].day /\ lines[c][e] = 0
      BY <1>8, <2>2 DEF SweepsOld
    <3> QED BY <1>5, <2>1, <3>1
  <2>4. ASSUME sw[i].pc \in {"persist", "unlink"},
               NEW e \in sw[i].expiring, NEW c \in Days, lines'[c][e] > 0
        PROVE  c = sw[i].seg
    BY <1>1, <1>5, <1>8, <2>1, <2>4 DEF SweepsOld
  <2> QED BY <1>2, <1>6, <1>8, <2>3, <2>4 DEF SweepsOld, mem
<1> QED BY <1>5, <1>7, <1>9, <1>10, <1>11, <1>12, SparedSuffices DEF SparedWorker

\* An append that ends, answered or failed, changes no more than the index.
LEMMA SparedAppendEnds ==
    ASSUME TypeInv, SparedInv, NEW i \in Instances, Answer(i) \/ AppendFails(i)
    PROVE  SparedInv'
<1>1. app[i].pc # "idle" /\ Worker(i) /\ SparedWorker(i)
  BY DEF Answer, AppendFails, Worker, Busy, SparedInv
<1>2. UNCHANGED <<clock, disk, cur, base, sw, first>>
  BY DEF Answer, AppendFails, ForgetAppend
<1>3. app'[i].pc = "idle" /\ \A j \in Instances \ {i} : app'[j] = app[j]
  BY DEF Answer, AppendFails, ForgetAppend, Idle, TypeInv, TypeOK
<1>4. \/ seen'[i] = seen[i]
      \/ app[i].pc = "write" /\ seen'[i] = seen[i] \ app[i].acc
  BY DEF Answer, AppendFails, ForgetAppend, TypeInv, TypeOK
<1>5. SparedDisk'
  BY <1>2, SparedDiskFrame DEF SparedInv
<1>6. \A j \in Instances \ {i} : ~Worker(j)'
  BY <1>1, <1>2, <1>3, OthersRest DEF SparedInv
<1>7. Frozen(base[i])'
  BY <1>1, <1>2 DEF SparedWorker, Frozen, disk
<1>8. Indexed(i)'
  <2>1. \A d \in Days, e \in Events :
           lines[d][e] > 0 => e \in seen[i] /\ (app[i].pc = "write" => e \notin app[i].acc)
    BY <1>1 DEF SparedWorker, Indexed, WritesNew, Unlanded
  <2> QED BY <1>2, <1>4, <2>1 DEF Indexed, disk
<1>9. WritesNew(i)'
  BY <1>3 DEF WritesNew
<1>10. SweepsOld(i)'
  BY <1>1, <1>2, <1>3, <1>4 DEF SparedWorker, SweepsOld, disk
<1> QED BY <1>5, <1>6, <1>7, <1>8, <1>9, <1>10, SparedSuffices DEF SparedWorker

-----------------------------------------------------------------------------
\* A step of a sweep that leaves the disk and its own instance's memory alone.
LEMMA SparedSweepFrame ==
    ASSUME TypeInv, SparedInv, NEW i \in Instances, Worker(i),
           UNCHANGED <<clock, disk, cur, seen, app, first>>,
           Frozen(base[i])', base'[i].plays = base[i].plays,
           SweepsOld(i)', \A j \in Instances \ {i} : sw'[j] = sw[j]
    PROVE  SparedInv'
<1>1. SparedWorker(i) /\ SparedDisk /\ OneWorker
  BY DEF SparedInv
<1>2. SparedDisk'
  BY <1>1, SparedDiskFrame
<1>3. \A j \in Instances \ {i} : ~Worker(j)'
  BY <1>1, OthersRest
<1>4. Indexed(i)' /\ WritesNew(i)'
  BY <1>1 DEF SparedWorker, Indexed, WritesNew, Unlanded, disk
<1> QED BY <1>2, <1>3, <1>4, SparedSuffices DEF SparedWorker

LEMMA SparedSweepList ==
    ASSUME TypeInv, SparedInv, NEW i \in Instances, SweepList(i)
    PROVE  SparedInv'
<1>1. Worker(i) /\ SparedWorker(i) /\ UNCHANGED <<clock, disk, cur, mem, app, first>>
  BY DEF SweepList, Worker, Busy, SparedInv
<1> DEFINE r == [sw[i] EXCEPT !.pc = "next", !.todo = {d \in segs : Expired(d, sw[i].now)}]
<1>2. sw' = [sw EXCEPT ![i] = r]
  BY DEF SweepList, TypeInv, TypeOK, Sweeps
<1>3. sw'[i] = r /\ \A j \in Instances \ {i} : sw'[j] = sw[j]
  BY <1>2 DEF TypeInv, TypeOK
<1>4. /\ sw'[i].pc = "next" /\ sw'[i].now = sw[i].now /\ sw'[i].removed = sw[i].removed
      /\ sw'[i].todo = {d \in segs : Expired(d, sw[i].now)}
  BY <1>3 DEF TypeInv, TypeOK, Sweeps
<1>5. Frozen(base[i])'
  BY <1>1 DEF SparedWorker, Frozen, disk, mem
<1>6. SweepsOld(i)'
  <2>1. sw[i].now \in Nat /\ clock \in Nat /\ sw[i].now <= clock /\ segs \subseteq Days
    BY <1>1, DayFacts DEF TypeInv, TypeOK, Sweeps, SparedWorker, SweepsOld
  <2>2. \A d \in segs : Expired(d, sw[i].now) => Expired(d, clock)
    BY <2>1, ExpiredLater, DayFacts
  <2> QED BY <1>1, <1>4, <2>1, <2>2 DEF SparedWorker, SweepsOld, disk
<1> QED BY <1>1, <1>3, <1>5, <1>6, SparedSweepFrame DEF mem

LEMMA SparedSweepFold ==
    ASSUME TypeInv, TypeInv', SparedInv, NEW i \in Instances, SweepFold(i)
    PROVE  SparedInv'
<1>1. /\ Worker(i) /\ SparedWorker(i) /\ SparedDisk
      /\ UNCHANGED <<clock, disk, cur, seen, app, first>>
  BY DEF SweepFold, Worker, Busy, SparedInv
<1>d. PICK d \in sw[i].todo : \E read \in SUBSET Readable(d) :
         /\ base' = IF hasAgg[i] /\ d \notin base[i].folded
              THEN [base EXCEPT ![i] = [plays  |-> Plus(base[i].plays, LinesOf(d, read)),
                                        folded |-> base[i].folded \cup {d}]]
              ELSE base
         /\ sw' = [sw EXCEPT ![i].pc = IF hasAgg[i] /\ d \notin base[i].folded
                                          THEN "persist" ELSE "unlink",
                             ![i].todo = @ \ {d}, ![i].seg = d, ![i].expiring = read]
  BY DEF SweepFold
<1>2. PICK read \in SUBSET Readable(d), folds \in BOOLEAN :
         /\ folds => d \notin base[i].folded
         /\ base' = IF folds
              THEN [base EXCEPT ![i] = [plays  |-> Plus(base[i].plays, LinesOf(d, read)),
                                        folded |-> base[i].folded \cup {d}]]
              ELSE base
         /\ sw' = [sw EXCEPT ![i].pc = IF folds THEN "persist" ELSE "unlink",
                             ![i].todo = @ \ {d}, ![i].seg = d, ![i].expiring = read]
  <2>1. (hasAgg[i] /\ d \notin base[i].folded) \in BOOLEAN
    OBVIOUS
  <2> QED BY <1>d, <2>1
<1> DEFINE pc == IF folds THEN "persist" ELSE "unlink"
           r == [sw[i] EXCEPT !.pc = pc, !.todo = @ \ {d}, !.seg = d, !.expiring = read]
<1>3. sw' = [sw EXCEPT ![i] = r]
  BY <1>2 DEF TypeInv, TypeOK, Sweeps
<1>4. sw'[i] = r /\ \A j \in Instances \ {i} : sw'[j] = sw[j]
  BY <1>3 DEF TypeInv, TypeOK
<1>5. /\ sw'[i].pc = pc /\ sw'[i].now = sw[i].now /\ sw'[i].todo = sw[i].todo \ {d}
      /\ sw'[i].seg = d /\ sw'[i].expiring = read /\ sw'[i].removed = sw[i].removed
  BY <1>4 DEF TypeInv, TypeOK, Sweeps
<1>6. d \in Days /\ Expired(d, clock)
  BY <1>1 DEF TypeInv, TypeOK, Sweeps, SparedWorker, SweepsOld
<1>7. ASSUME NEW e \in read
      PROVE  /\ e \in Events /\ e \in seen[i] /\ (app[i].pc = "write" => e \notin app[i].acc)
             /\ lines[d][e] = 1 /\ first[e] # 0 /\ first[e] <= d
             /\ \A c \in Days : lines[c][e] > 0 => c = d
  <2>1. e \in Events /\ lines[d][e] > 0
    BY <1>2, <1>7 DEF Readable
  <2> QED BY <1>1, <1>6, <2>1
          DEF SparedDisk, OneLine, SparedWorker, Indexed, WritesNew, Unlanded
<1>a. base[i].plays \in [Events -> Nat] /\ base[i].folded \subseteq Days
  BY DEF TypeInv, TypeOK, Bases
<1>b. first \in [Events -> Days \cup {0}] /\ clock \in Nat /\ d \in Nat
  BY <1>6, DayFacts DEF TypeInv, TypeOK
<1>c. Frozen(base[i]) /\ WritesNew(i)
  BY <1>1 DEF SparedWorker
<1>8. ASSUME folds
      PROVE  /\ base'[i].folded = base[i].folded \cup {d}
             /\ \A e \in Events : base'[i].plays[e] = base[i].plays[e]
                                    + (IF e \in read THEN 1 ELSE 0)
  <2>1. base'[i] = [plays  |-> Plus(base[i].plays, LinesOf(d, read)),
                    folded |-> base[i].folded \cup {d}]
    BY <1>2, <1>8 DEF TypeInv, TypeOK
  <2>2. \A e \in Events : LinesOf(d, read)[e] = IF e \in read THEN 1 ELSE 0
    BY <1>7 DEF LinesOf
  <2> QED BY <2>1, <2>2 DEF Plus
<1>9. ASSUME ~folds PROVE base'[i] = base[i]
  BY <1>2, <1>9
<1>10. Frozen(base[i])'
  <2>1. ASSUME folds, NEW e \in Events, base'[i].plays[e] # 0
        PROVE  /\ base'[i].plays[e] = 1 /\ first[e] # 0 /\ Expired(first[e], clock)
               /\ \A c \in Days : lines[c][e] > 0 => c \in base'[i].folded
    <3>1. CASE e \in read
      <4>1. base[i].plays[e] = 0
        <5>1. lines[d][e] > 0 /\ d \notin base[i].folded
          BY <1>2, <1>7, <2>1, <3>1
        <5> QED BY <1>6, <1>a, <1>c, <5>1 DEF Frozen
      <4>2. Expired(first[e], clock)
        <5>1. first[e] \in Nat /\ first[e] <= d /\ d + 1 + Retention <= clock
          BY <1>6, <1>7, <1>b, <3>1, DayFacts DEF Expired
        <5> QED BY <1>b, <5>1, DayFacts DEF Expired
      <4> QED BY <1>7, <1>8, <2>1, <3>1, <4>1, <4>2
    <3>2. CASE e \notin read
      <4>1. base'[i].plays[e] = base[i].plays[e]
        BY <1>8, <1>a, <2>1, <3>2
      <4> QED BY <1>8, <1>c, <2>1, <4>1 DEF Frozen
    <3> QED BY <3>1, <3>2
  <2>2. ASSUME folds PROVE \A c \in base'[i].folded : Expired(c, clock)
    BY <1>6, <1>8, <1>c, <2>2 DEF Frozen
  <2>3. CASE folds
    BY <1>1, <2>1, <2>2, <2>3 DEF Frozen, disk
  <2>4. CASE ~folds
    BY <1>1, <1>9, <1>c, <2>4 DEF Frozen, disk
  <2> QED BY <2>3, <2>4
<1>11. WritesNew(i)'
  <2>1. ASSUME app[i].pc = "write", NEW e \in app[i].acc
        PROVE  base'[i].plays[e] = 0
    <3>1. e \in Events /\ base[i].plays[e] = 0 /\ e \notin read
      BY <1>7, <1>c, <2>1 DEF WritesNew, Unlanded, TypeInv, TypeOK, Appends
    <3> QED BY <1>8, <1>9, <3>1
  <2> QED BY <1>1, <1>c, <2>1 DEF WritesNew, Unlanded, disk
<1>12. SweepsOld(i)'
  <2> HIDE DEF pc
  <2>1. SweepsOld(i)
    BY <1>1 DEF SparedWorker
  <2> QED BY <1>1, <1>5, <1>6, <1>7, <2>1 DEF SweepsOld, disk
<1>13. SparedDisk' /\ Indexed(i)'
  BY <1>1, SparedDiskFrame DEF SparedWorker, Indexed, disk
<1>14. \A j \in Instances \ {i} : ~Worker(j)'
  BY <1>1, <1>4, OthersRest DEF SparedInv
<1> QED BY <1>10, <1>11, <1>12, <1>13, <1>14, SparedSuffices DEF SparedWorker

\* What a baseline has frozen is also what replaces aggregates.json.
LEMMA SparedWriteBaseline ==
    ASSUME TypeInv, SparedInv, NEW i \in Instances, Worker(i), WriteBaseline(i),
           UNCHANGED <<clock, cur, mem, app, first>>,
           SweepsOld(i)', \A j \in Instances \ {i} : sw'[j] = sw[j]
    PROVE  SparedInv'
<1>1. SparedWorker(i) /\ SparedDisk /\ OneWorker
  BY DEF SparedInv
<1>2. baseDisk' = base[i] /\ UNCHANGED <<segs, lines>>
  BY DEF WriteBaseline
<1>3. SparedDisk'
  BY <1>1, <1>2 DEF SparedDisk, OneLine, SparedWorker, Frozen
<1>4. Frozen(base[i])' /\ Indexed(i)' /\ WritesNew(i)'
  BY <1>1, <1>2 DEF SparedWorker, Frozen, Indexed, WritesNew, Unlanded, mem
<1>5. \A j \in Instances \ {i} : ~Worker(j)'
  BY <1>1, OthersRest
<1> QED BY <1>3, <1>4, <1>5, SparedSuffices DEF SparedWorker

LEMMA SparedSweepPersist ==
    ASSUME TypeInv, SparedInv, NEW i \in Instances, SweepPersist(i)
    PROVE  SparedInv'
<1>1. /\ sw[i].pc = "persist" /\ Worker(i) /\ SparedWorker(i) /\ WriteBaseline(i)
      /\ UNCHANGED <<clock, cur, mem, app, first>>
  BY DEF SweepPersist, Worker, Busy, SparedInv
<1>2. /\ sw'[i] = [sw[i] EXCEPT !.pc = "unlink"]
      /\ \A j \in Instances \ {i} : sw'[j] = sw[j]
  BY SweepGoes DEF SweepPersist, TypeInv, TypeOK
<1>3. /\ sw'[i].now = sw[i].now /\ sw'[i].todo = sw[i].todo /\ sw'[i].seg = sw[i].seg
      /\ sw'[i].expiring = sw[i].expiring /\ sw'[i].removed = sw[i].removed
  BY <1>2 DEF TypeInv, TypeOK, Sweeps
<1>4. SweepsOld(i)'
  BY <1>1, <1>3 DEF SparedWorker, SweepsOld, WriteBaseline, mem
<1> QED BY <1>1, <1>2, <1>4, SparedWriteBaseline

LEMMA SparedSweepPersistFails ==
    ASSUME TypeInv, SparedInv, NEW i \in Instances, SweepPersistFails(i)
    PROVE  SparedInv'
<1>1. Worker(i) /\ SparedWorker(i) /\ UNCHANGED <<clock, disk, cur, mem, app, first>>
  BY DEF SweepPersistFails, Worker, Busy, SparedInv
<1>2. /\ sw'[i] = [sw[i] EXCEPT !.pc = "next"]
      /\ \A j \in Instances \ {i} : sw'[j] = sw[j]
  BY SweepGoes DEF SweepPersistFails, TypeInv, TypeOK
<1>3. /\ sw'[i].pc = "next" /\ sw'[i].now = sw[i].now
      /\ sw'[i].todo = sw[i].todo /\ sw'[i].removed = sw[i].removed
  BY <1>2 DEF TypeInv, TypeOK, Sweeps
<1>4. SweepsOld(i)' /\ Frozen(base[i])'
  BY <1>1, <1>3 DEF SparedWorker, SweepsOld, Frozen, disk, mem
<1> QED BY <1>1, <1>2, <1>4, SparedSweepFrame DEF mem

LEMMA SparedSweepUnlink ==
    ASSUME TypeInv, TypeInv', SparedInv, NEW i \in Instances, SweepUnlink(i)
    PROVE  SparedInv'
<1> DEFINE d == sw[i].seg
<1>1. /\ sw[i].pc = "unlink" /\ Worker(i) /\ SparedWorker(i) /\ SparedDisk
      /\ UNCHANGED <<clock, baseDisk, cur, base, app, first>>
      /\ segs' = segs \ {d}
  BY DEF SweepUnlink, Worker, Busy, SparedInv
<1>2. \A c \in Days, e \in Events : lines'[c][e] = IF c = d THEN 0 ELSE lines[c][e]
  BY DEF SweepUnlink, NoLines, TypeInv, TypeOK
<1>3. seen'[i] = seen[i] \ sw[i].expiring
  BY DEF SweepUnlink, TypeInv, TypeOK
<1> DEFINE r == [sw[i] EXCEPT !.pc = "next", !.removed = @ \cup {sw[i].seg}]
<1>4. sw' = [sw EXCEPT ![i] = r]
  <2>1. sw' = [sw EXCEPT ![i].pc = "next", ![i].removed = @ \cup {sw[i].seg}]
    BY DEF SweepUnlink
  <2>2. sw \in [Instances -> Sweeps]
    BY DEF TypeInv, TypeOK
  <2> QED BY <2>1, <2>2 DEF Sweeps
<1>5. sw'[i] = r /\ \A j \in Instances \ {i} : sw'[j] = sw[j]
  BY <1>4 DEF TypeInv, TypeOK
<1>6. /\ sw'[i].pc = "next" /\ sw'[i].now = sw[i].now /\ sw'[i].todo = sw[i].todo
      /\ sw'[i].removed = sw[i].removed \cup {d}
  BY <1>5 DEF TypeInv, TypeOK, Sweeps
<1>7. d \in Days /\ sw[i].removed \subseteq Days
  BY <1>1 DEF TypeInv, TypeOK, WorkTyped, Sweeps
<1> HIDE DEF d, r
<1>8. /\ Expired(d, clock)
      /\ \A e \in sw[i].expiring :
            /\ app[i].pc = "write" => e \notin app[i].acc
            /\ \A c \in Days : lines[c][e] > 0 => c = d
  BY <1>1 DEF SparedWorker, SweepsOld, d
<1>9. SparedDisk'
  BY <1>1, <1>2 DEF SparedDisk, OneLine, Frozen
<1>10. Frozen(base[i])'
  BY <1>1, <1>2 DEF SparedWorker, Frozen
<1>11. Indexed(i)'
  BY <1>1, <1>2, <1>3, <1>8 DEF SparedWorker, Indexed
<1>12. WritesNew(i)'
  <2>1. app[i].acc \subseteq Events /\ WritesNew(i)
    BY <1>1 DEF TypeInv, TypeOK, Appends, SparedWorker
  <2>2. \A b \in Bases, e \in Events :
           Unlanded(b, e) => b.plays[e] = 0 /\ \A c \in Days : lines'[c][e] = 0
    BY <1>2 DEF Unlanded
  <2>3. baseDisk \in Bases /\ base[i] \in Bases
    BY DEF TypeInv, TypeOK
  <2> QED BY <1>1, <1>3, <1>8, <2>1, <2>2, <2>3 DEF WritesNew, Unlanded
<1>13. SweepsOld(i)'
  BY <1>1, <1>2, <1>6, <1>7, <1>8 DEF SparedWorker, SweepsOld
<1>14. \A j \in Instances \ {i} : ~Worker(j)'
  BY <1>1, <1>5, OthersRest DEF SparedInv
<1> QED BY <1>9, <1>10, <1>11, <1>12, <1>13, <1>14, SparedSuffices DEF SparedWorker

\* A sweep that ended takes nothing.
LEMMA EndedSweepsOld ==
    ASSUME NEW i \in Instances, clock' \in Nat, sw'[i] = NoSweep
    PROVE  SweepsOld(i)'
BY DEF SweepsOld, NoSweep

LEMMA SparedSweepUnlinkFails ==
    ASSUME TypeInv, SparedInv, NEW i \in Instances, SweepUnlinkFails(i)
    PROVE  SparedInv'
<1>1. Worker(i) /\ SparedWorker(i) /\ UNCHANGED <<clock, disk, cur, mem, app, first>>
  BY DEF SweepUnlinkFails, Worker, Busy, SparedInv
<1>2. sw'[i] = NoSweep /\ \A j \in Instances \ {i} : sw'[j] = sw[j]
  BY DEF SweepUnlinkFails, TypeInv, TypeOK
<1>3. SweepsOld(i)'
  BY <1>1, <1>2, EndedSweepsOld, DayFacts DEF TypeInv, TypeOK
<1>4. Frozen(base[i])'
  BY <1>1 DEF SparedWorker, Frozen, disk, mem
<1> QED BY <1>1, <1>2, <1>3, <1>4, SparedSweepFrame DEF mem

LEMMA SparedSweepSettle ==
    ASSUME TypeInv, SparedInv, NEW i \in Instances, SweepSettle(i)
    PROVE  SparedInv'
<1>1. /\ Worker(i) /\ SparedWorker(i) /\ UNCHANGED <<clock, disk, cur, seen, app, first>>
      /\ clock \in Nat
  BY DayFacts DEF SweepSettle, Worker, Busy, SparedInv, TypeInv, TypeOK
<1>2. /\ \/ sw'[i] = NoSweep
         \/ sw'[i] = [sw[i] EXCEPT !.pc = "settle"]
      /\ \A j \in Instances \ {i} : sw'[j] = sw[j]
  BY SweepGoes DEF SweepSettle, TypeInv, TypeOK
<1>3. /\ base'[i].plays = base[i].plays
      /\ base'[i].folded \subseteq base[i].folded
      /\ base[i].folded \ base'[i].folded \subseteq sw[i].removed
  BY DEF SweepSettle, TypeInv, TypeOK, Bases
<1>4. Frozen(base[i])'
  BY <1>1, <1>3 DEF SparedWorker, Frozen, SweepsOld, disk
<1>5. SweepsOld(i)'
  <2>1. CASE sw'[i] = NoSweep
    BY <1>1, <2>1, EndedSweepsOld
  <2>2. CASE sw'[i] = [sw[i] EXCEPT !.pc = "settle"]
    <3>1. /\ sw'[i].pc = "settle" /\ sw'[i].now = sw[i].now
          /\ sw'[i].todo = sw[i].todo /\ sw'[i].removed = sw[i].removed
      BY <2>2 DEF TypeInv, TypeOK, Sweeps
    <3> QED BY <1>1, <3>1 DEF SparedWorker, SweepsOld, disk
  <2> QED BY <1>2, <2>1, <2>2
<1> QED BY <1>1, <1>2, <1>3, <1>4, <1>5, SparedSweepFrame

LEMMA SparedSweepDone ==
    ASSUME TypeInv, SparedInv, NEW i \in Instances, SweepDone(i)
    PROVE  SparedInv'
<1>1. /\ Worker(i) /\ SparedWorker(i) /\ UNCHANGED <<clock, cur, mem, app, first>>
      /\ WriteBaseline(i) \/ UNCHANGED disk
  BY DEF SweepDone, Worker, Busy, SparedInv
<1>2. sw'[i] = NoSweep /\ \A j \in Instances \ {i} : sw'[j] = sw[j]
  BY DEF SweepDone, TypeInv, TypeOK
<1>3. SweepsOld(i)'
  BY <1>1, <1>2, EndedSweepsOld, DayFacts DEF TypeInv, TypeOK
<1>4. CASE WriteBaseline(i)
  BY <1>1, <1>2, <1>3, <1>4, SparedWriteBaseline
<1>5. CASE UNCHANGED disk
  <2>1. Frozen(base[i])'
    BY <1>1, <1>5 DEF SparedWorker, Frozen, disk, mem
  <2> QED BY <1>1, <1>2, <1>3, <1>5, <2>1, SparedSweepFrame DEF mem
<1> QED BY <1>1, <1>4, <1>5

-----------------------------------------------------------------------------
\* One step per action; a write error that leaves a part does not spare the index.
LEMMA SparedStep ==
    ASSUME InTime, IndexSpared', TypeInv, SparedInv, [Next]_vars
    PROVE  SparedInv'
<1>1. TypeInv'
  BY TypeStep
<1>2. CASE UNCHANGED vars
  <2>1. UNCHANGED <<clock, disk, cur, mem, app, sw, first>>
    BY <1>2 DEF vars
  <2> QED BY <2>1 DEF disk, mem, SparedInv, OneWorker, Worker, Busy, SparedDisk, OneLine,
            Frozen, SparedWorker, Indexed, WritesNew, Unlanded, SweepsOld
<1>3. CASE NextDay
  BY <1>1, <1>3, SparedNextDay
<1>4. CASE Stop
  BY <1>4, SparedStop
<1>5. CASE Crash
  BY <1>5, SparedCrash
<1>6. ASSUME NEW i \in Instances, Start(i) PROVE SparedInv'
  BY <1>6, SparedStart
<1>7. ASSUME NEW i \in Instances, CrashTearing(i) PROVE SparedInv'
  BY <1>1, <1>7, SparedCrashTearing
<1>8. ASSUME NEW i \in Instances, NEW batch \in SUBSET Events, Ingest(i, batch)
      PROVE  SparedInv'
  BY <1>8, SparedIngest
<1>9. ASSUME NEW i \in Instances, Append(i) PROVE SparedInv'
  <2>1. CASE AppendWritten(i)
    BY <1>1, <2>1, SparedAppendWritten
  <2>2. CASE Answer(i) \/ AppendFails(i)
    BY <2>2, SparedAppendEnds
  <2>3. CASE AppendFailsPartly(i)
    <3>1. Strike({"partialError"})
      BY <2>3 DEF AppendFailsPartly
    <3>2. {"partialError"} \cap {"overlap", "partialError"} = {}
      BY <3>1, SparedStrike
    <3> QED BY <3>2
  <2> QED BY <1>9, <2>1, <2>2, <2>3 DEF Append
<1>10. ASSUME NEW i \in Instances, Sweep(i) PROVE SparedInv'
  <2>1. CASE SweepList(i)
    BY <2>1, SparedSweepList
  <2>2. CASE SweepFold(i)
    BY <1>1, <2>2, SparedSweepFold
  <2>3. CASE SweepPersist(i)
    BY <2>3, SparedSweepPersist
  <2>4. CASE SweepPersistFails(i)
    BY <2>4, SparedSweepPersistFails
  <2>5. CASE SweepUnlink(i)
    BY <1>1, <2>5, SparedSweepUnlink
  <2>6. CASE SweepUnlinkFails(i)
    BY <2>6, SparedSweepUnlinkFails
  <2>7. CASE SweepSettle(i)
    BY <2>7, SparedSweepSettle
  <2>8. CASE SweepDone(i)
    BY <2>8, SparedSweepDone
  <2> QED BY <1>10, <2>1, <2>2, <2>3, <2>4, <2>5, <2>6, <2>7, <2>8 DEF Sweep
<1> QED BY <1>2, <1>3, <1>4, <1>5, <1>6, <1>7, <1>8, <1>9, <1>10 DEF Next

\* What has struck is not taken back.
LEMMA StruckStays ==
    ASSUME [Next]_vars
    PROVE  struck \subseteq struck'
BY StepStrikes DEF Strike, vars

LEMMA SparedStays == ASSUME InTime PROVE Spec => []SparedUntil
<1>1. Init => SparedUntil
  BY TypeInit, SparedInit DEF SparedUntil
<1>2. SparedUntil /\ [Next]_vars => SparedUntil'
  <2> SUFFICES ASSUME SparedUntil, [Next]_vars PROVE SparedUntil'
    OBVIOUS
  <2>1. TypeInv /\ TypeInv'
    BY TypeStep DEF SparedUntil
  <2>2. ASSUME IndexSpared' PROVE SparedInv'
    <3>1. SparedInv
      BY <2>2, StruckStays DEF SparedUntil, IndexSpared
    <3> QED BY <2>1, <2>2, <3>1, SparedStep
  <2> QED BY <2>1, <2>2 DEF SparedUntil
<1> QED BY <1>1, <1>2, PTL DEF Spec

\* What a baseline has frozen is on no line outside of it, and on one at most otherwise.
LEMMA OneOfBoth ==
    ASSUME TypeInv, OneLine, NEW b \in Bases, Frozen(b), NEW e \in Events
    PROVE  \/ b.plays[e] = 1 /\ LiveLines(b, e) = {}
           \/ /\ b.plays[e] = 0
              /\ LiveLines(b, e) = {} \/ \E d \in Days : LiveLines(b, e) = {<<d, 1>>}
<1>1. segs \subseteq Days /\ \A d \in Days : lines[d][e] \in Nat
  BY DEF TypeInv, TypeOK
<1>2. ASSUME \A d \in segs \ b.folded : lines[d][e] = 0
      PROVE  LiveLines(b, e) = {}
  BY <1>2 DEF LiveLines
<1>3. CASE b.plays[e] # 0
  <2>1. b.plays[e] = 1 /\ \A d \in Days : lines[d][e] > 0 => d \in b.folded
    BY <1>3 DEF Frozen
  <2> QED BY <1>1, <1>2, <2>1
<1>4. CASE b.plays[e] = 0 /\ \A d \in segs \ b.folded : lines[d][e] = 0
  BY <1>2, <1>4
<1>5. ASSUME b.plays[e] = 0, NEW d \in segs \ b.folded, lines[d][e] # 0
      PROVE  LiveLines(b, e) = {<<d, 1>>}
  <2>1. lines[d][e] = 1 /\ \A c \in segs \ b.folded : c # d => lines[c][e] = 0
    BY <1>1, <1>5 DEF OneLine
  <2>2. <<d, 1>> \in LiveLines(b, e)
    BY <2>1 DEF LiveLines
  <2>3. ASSUME NEW c \in segs \ b.folded, NEW k \in 1 .. lines[c][e]
        PROVE  c = d /\ k = 1
    BY <2>1, <2>3
  <2>4. LiveLines(b, e) \subseteq {<<d, 1>>}
    BY <2>3 DEF LiveLines
  <2> QED BY <2>2, <2>4
<1> QED BY <1>1, <1>3, <1>4, <1>5

(***************************************************************************)
(* No play counts twice, for any number of events, instances and days, and *)
(* also after an append was torn, aggregates.json or a segment could not   *)
(* be read, or the aggregates did not open: the dedupe index of            *)
(* eventStore.ts and foldedSegments of aggregates.ts suffice as long as a  *)
(* guest re-sends within the retention period.                             *)
(***************************************************************************)
THEOREM CountedAtMostOnce == ASSUME InTime PROVE Spec => []AtMostOnce
<1>1. SparedUntil => AtMostOnce
  <2> SUFFICES ASSUME TypeInv, SparedInv, NEW e \in Events
               PROVE  \A g, h \in Homes(e) : g = h
    BY DEF SparedUntil, AtMostOnce
  <2>1. OneLine /\ Frozen(baseDisk) /\ baseDisk \in Bases
    BY DEF SparedInv, SparedDisk, TypeInv, TypeOK
  <2> QED BY <2>1, OneOfBoth DEF Homes
<1> QED BY <1>1, SparedStays, PTL

(***************************************************************************)
(* The dedupe index covers everything the log can give back, whatever an   *)
(* append left of itself in a segment or a sweep could not read.           *)
(***************************************************************************)
THEOREM IndexIsComplete == ASSUME InTime PROVE Spec => []IndexCoversLog
<1>1. SparedUntil => IndexCoversLog
  <2> SUFFICES ASSUME TypeInv, SparedInv, cur # NoInstance, NEW d \in segs,
                      NEW e \in Readable(d)
               PROVE  e \in seen[cur]
    BY DEF SparedUntil, IndexCoversLog
  <2>1. cur \in Instances /\ Worker(cur) /\ d \in Days
    BY DEF TypeInv, TypeOK, Worker
  <2>2. Indexed(cur)
    BY <2>1 DEF SparedInv, SparedWorker
  <2> QED BY <2>1, <2>2 DEF Indexed, Readable
<1> QED BY <1>1, SparedStays, PTL

-----------------------------------------------------------------------------
(***************************************************************************)
(* Runs without aggregates.  Such a run unlinks segments it did not fold;  *)
(* the totals of the next one still agree with the disk, because base and  *)
(* aggregates.json count the same events throughout a sweep.               *)
(***************************************************************************)
\* A reader that starts from baseline b counts e.
CountsIt(b, e) == b.plays[e] # 0 \/ \E d \in segs \ b.folded : lines[d][e] > 0

\* e has landed, and the answer that adds it to the totals is still to come.
Pending(i, e) == app[i].pc = "answer" /\ e \in app[i].acc

\* The totals, and what a sweep has folded but not yet persisted or unlinked.
TallyOk(i) ==
    /\ \A e \in Events : CountsIt(base[i], e) <=> CountsIt(baseDisk, e)
    /\ \A e \in Events :
          /\ rollup[i][e] = IF CountsIt(baseDisk, e) /\ ~Pending(i, e) THEN 1 ELSE 0
          /\ Pending(i, e) => CountsIt(baseDisk, e)
    /\ sw[i].pc = "list" => base[i] = baseDisk
    /\ \A d \in sw[i].todo : d \in base[i].folded => d \in baseDisk.folded
    /\ sw[i].pc \in {"persist", "unlink"} => sw[i].seg \in base[i].folded
    /\ sw[i].pc = "unlink" => sw[i].seg \in baseDisk.folded

TallyInv == Untorn /\ \A i \in Instances : Worker(i) /\ hasAgg[i] => TallyOk(i)

\* No fault but the one that leaves a run without aggregates.
Countable == struck \subseteq {"noAggregates"}

TallyUntil == TypeInv /\ (Countable => SparedInv /\ TallyInv)

LEMMA CountableStrike ==
    ASSUME Countable', NEW K, Strike(K)
    PROVE  Countable /\ K \subseteq {"noAggregates"}
BY DEF Countable, Strike

LEMMA TallySuffices ==
    ASSUME Untorn', NEW i \in Instances, \A j \in Instances \ {i} : ~Worker(j)',
           hasAgg'[i] => TallyOk(i)'
    PROVE  TallyInv'
BY DEF TallyInv

\* A step of instance i that writes no segment.
LEMMA TallyFrame ==
    ASSUME TypeInv, SparedInv, TallyInv, NEW i \in Instances, Worker(i),
           UNCHANGED <<segs, lines, torn, openLine, cur, hasAgg>>,
           \A j \in Instances \ {i} : app'[j] = app[j] /\ sw'[j] = sw[j],
           hasAgg[i] /\ TallyOk(i) => TallyOk(i)'
    PROVE  TallyInv'
<1>1. hasAgg[i] => TallyOk(i)
  BY DEF TallyInv
<1>2. \A j \in Instances \ {i} : ~Worker(j)'
  BY OthersRest DEF SparedInv
<1>3. Untorn'
  BY DEF TallyInv, Untorn
<1> QED BY <1>1, <1>2, <1>3, TallySuffices

\* The plays a start derives are one for each event the baseline counts.
LEMMA DerivedCount ==
    ASSUME TypeInv, OneLine, NEW b \in Bases, Frozen(b), NEW e \in Events
    PROVE  /\ b.plays[e] + Cardinality(LiveLines(b, e)) = IF CountsIt(b, e) THEN 1 ELSE 0
           /\ b.plays[e] = 0 \/ LiveLines(b, e) = {}
<1>1. Cardinality({}) = 0 /\ \A d \in Days : Cardinality({<<d, 1>>}) = 1
  BY FS_EmptySet, FS_Singleton
<1>2. CASE b.plays[e] = 1 /\ LiveLines(b, e) = {}
  BY <1>1, <1>2 DEF CountsIt
<1>3. CASE b.plays[e] = 0 /\ LiveLines(b, e) = {}
  <2>1. ASSUME NEW d \in segs \ b.folded, lines[d][e] > 0 PROVE FALSE
    <3>1. lines[d][e] \in Nat
      BY DEF TypeInv, TypeOK
    <3>2. <<d, 1>> \in LiveLines(b, e)
      BY <2>1, <3>1 DEF LiveLines
    <3> QED BY <1>3, <3>2
  <2> QED BY <1>1, <1>3, <2>1 DEF CountsIt
<1>4. ASSUME b.plays[e] = 0, NEW d \in Days, LiveLines(b, e) = {<<d, 1>>}
      PROVE  b.plays[e] + Cardinality(LiveLines(b, e)) = IF CountsIt(b, e) THEN 1 ELSE 0
  <2>1. PICK c \in segs \ b.folded : \E k \in 1 .. lines[c][e] : <<d, 1>> = <<c, k>>
    <3>1. <<d, 1>> \in LiveLines(b, e)
      BY <1>4
    <3> QED BY <3>1 DEF LiveLines
  <2>2. lines[c][e] > 0
    <3>1. lines[c][e] \in Nat
      BY DEF TypeInv, TypeOK
    <3> QED BY <2>1, <3>1
  <2>3. Cardinality(LiveLines(b, e)) = 1
    BY <1>1, <1>4
  <2> QED BY <1>4, <2>2, <2>3 DEF CountsIt
<1> QED BY <1>2, <1>3, <1>4, OneOfBoth

LEMMA TallyStart ==
    ASSUME TypeInv, SparedInv, SparedInv', TallyInv, Countable',
           NEW i \in Instances, Start(i)
    PROVE  TallyInv'
<1>1. UNCHANGED <<disk, app>> /\ Worker(i)'
  BY DEF Start, Worker
<1>2. \A j \in Instances \ {i} : ~Worker(j)'
  BY <1>1 DEF SparedInv, OneWorker
<1>3. Untorn'
  BY <1>1 DEF TallyInv, Untorn, disk
<1>4. ASSUME hasAgg'[i] PROVE TallyOk(i)'
  <2>1. OpenAggregates(i, baseDisk)
    <3>1. ~Strike(Overlap \cup {"noBaseline"})
      BY CountableStrike
    <3>2. hasAgg' # [hasAgg EXCEPT ![i] = FALSE]
      BY <1>4 DEF TypeInv, TypeOK
    <3> QED BY <3>1, <3>2 DEF Start
  <2>2. base'[i] = baseDisk /\ rollup'[i] = DerivedPlays(baseDisk)
    BY <2>1 DEF OpenAggregates, TypeInv, TypeOK
  <2>3. baseDisk \in Bases /\ Frozen(baseDisk) /\ OneLine
    BY DEF TypeInv, TypeOK, SparedInv, SparedDisk
  <2>4. \A e \in Events : rollup'[i][e] = IF CountsIt(baseDisk, e) THEN 1 ELSE 0
    BY <2>2, <2>3, DerivedCount DEF DerivedPlays
  <2>5. sw'[i] = [NoSweep EXCEPT !.pc = "list", !.now = clock]
    BY DEF Start, TypeInv, TypeOK
  <2>6. sw'[i].pc = "list" /\ sw'[i].todo = {}
    BY <2>5 DEF NoSweep
  <2>7. \A e \in Events : ~Pending(i, e)'
    BY <1>1 DEF Start, Busy, Pending
  <2> QED BY <1>1, <2>2, <2>4, <2>6, <2>7 DEF TallyOk, CountsIt, disk
<1> QED BY <1>2, <1>3, <1>4, TallySuffices

LEMMA TallyAppendWritten ==
    ASSUME TypeInv, TypeInv', SparedInv, TallyInv, NEW i \in Instances, AppendWritten(i)
    PROVE  TallyInv'
<1> DEFINE d == app[i].day
           acc == app[i].acc
<1>1. /\ app[i].pc = "write" /\ Worker(i) /\ SparedWorker(i)
      /\ UNCHANGED <<clock, cur, mem, sw>>
  BY DEF AppendWritten, Worker, Busy, SparedInv
<1>2. d \in Days /\ acc \in SUBSET Events /\ clock \in Nat /\ d \in Nat
  BY <1>1, DayFacts DEF TypeInv, TypeOK, WorkTyped, Appends
<1>3. PICK w \in WholeWrites(d, acc) : Land(d, w)
  BY DEF AppendWritten
<1>4. /\ Untorn'
      /\ segs' = segs \cup {d}
      /\ baseDisk' = baseDisk
      /\ \A c \in Days, e \in Events :
            lines'[c][e] = IF c = d /\ e \in acc THEN lines[c][e] + 1 ELSE lines[c][e]
  BY <1>2, <1>3, WholeLand DEF TallyInv
<1>5. /\ app'[i].pc = "answer" /\ app'[i].acc = acc
      /\ \A j \in Instances \ {i} : app'[j] = app[j]
  BY AppendGoes DEF AppendWritten, TypeInv, TypeOK, Appends
<1>6. \A j \in Instances \ {i} : ~Worker(j)'
  BY <1>1, <1>5, OthersRest DEF SparedInv
<1>7. ~Expired(d, clock)
  BY <1>1, <1>2, WritingNotExpired DEF SparedWorker, WritesNew
<1>a. segs \subseteq Days /\ \A c \in Days, e \in Events : lines[c][e] \in Nat
  BY DEF TypeInv, TypeOK
<1> HIDE DEF d, acc
<1>8. ASSUME NEW b \in Bases, Frozen(b), NEW e \in Events
      PROVE  /\ e \in acc => \E c \in segs' \ b.folded : lines'[c][e] > 0
             /\ e \notin acc => (CountsIt(b, e) <=>
                   b.plays[e] # 0 \/ \E c \in segs' \ b.folded : lines'[c][e] > 0)
  <2>1. d \notin b.folded
    BY <1>7, <1>8 DEF Frozen
  <2>2. CASE e \in acc
    BY <1>2, <1>4, <1>a, <2>1, <2>2
  <2>3. CASE e \notin acc
    <3>1. \A c \in Days : lines'[c][e] = lines[c][e]
      BY <1>4, <2>3
    <3>2. \A c \in Days : lines[c][e] > 0 => c \in segs
      BY DEF SparedInv, SparedDisk, OneLine
    <3> QED BY <1>2, <1>4, <1>a, <2>3, <3>1, <3>2 DEF CountsIt
  <2> QED BY <2>2, <2>3
<1>9. ASSUME hasAgg'[i] PROVE TallyOk(i)'
  <2>1. TallyOk(i)
    BY <1>1, <1>9 DEF TallyInv, mem
  <2>2. /\ base[i] \in Bases /\ Frozen(base[i]) /\ baseDisk \in Bases /\ Frozen(baseDisk)
        /\ base' = base /\ rollup' = rollup
    BY <1>1 DEF TypeInv, TypeOK, SparedWorker, SparedInv, SparedDisk, mem
  <2>3. \A e \in acc : ~CountsIt(baseDisk, e)
    BY <1>1, <1>2, <1>a DEF SparedWorker, WritesNew, Unlanded, CountsIt, acc
  <2>4. \A e \in Events : /\ CountsIt(base[i], e)' <=> e \in acc \/ CountsIt(base[i], e)
                          /\ CountsIt(baseDisk, e)' <=> e \in acc \/ CountsIt(baseDisk, e)
    BY <1>4, <1>8, <2>2 DEF CountsIt
  <2>5. \A e \in Events : ~Pending(i, e) /\ (Pending(i, e)' <=> e \in acc)
    BY <1>1, <1>5 DEF Pending
  <2> QED BY <1>1, <1>4, <2>1, <2>2, <2>3, <2>4, <2>5 DEF TallyOk
<1> QED BY <1>4, <1>6, <1>9, TallySuffices

\* An append that starts or ends: the totals follow its answer.
LEMMA TallyAppend ==
    ASSUME TypeInv, SparedInv, TallyInv, NEW i \in Instances,
           Answer(i) \/ AppendFails(i) \/ \E batch \in SUBSET Events : Ingest(i, batch)
    PROVE  TallyInv'
<1>1. Worker(i) /\ UNCHANGED <<disk, cur, base, hasAgg, sw>>
  BY DEF Answer, AppendFails, ForgetAppend, Ingest, Worker, Busy
<1>2. \A j \in Instances \ {i} : app'[j] = app[j]
  BY DEF Answer, AppendFails, ForgetAppend, Ingest, TypeInv, TypeOK
<1>3. \A e \in Events : ~Pending(i, e)'
  BY DEF Answer, AppendFails, ForgetAppend, Ingest, Pending, Idle, TypeInv, TypeOK
<1>4. ASSUME hasAgg[i], TallyOk(i) PROVE TallyOk(i)'
  <2>1. \A e \in Events : rollup'[i][e] = rollup[i][e] + (IF Pending(i, e) THEN 1 ELSE 0)
    <3>1. CASE Answer(i)
      <4>1. rollup' = [rollup EXCEPT ![i] = [e \in Events |->
                         rollup[i][e] + (IF e \in app[i].acc THEN 1 ELSE 0)]]
        BY <1>4, <3>1 DEF Answer
      <4>2. app[i].pc = "answer"
        BY <3>1 DEF Answer
      <4> QED BY <4>1, <4>2 DEF Pending, TypeInv, TypeOK
    <3>2. CASE ~Answer(i)
      <4>1. rollup' = rollup /\ app[i].pc # "answer"
        BY <3>2 DEF AppendFails, ForgetAppend, Ingest
      <4>2. \A e \in Events : rollup[i][e] \in Nat
        BY DEF TypeInv, TypeOK
      <4> QED BY <4>1, <4>2 DEF Pending
    <3> QED BY <3>1, <3>2
  <2>2. \A e \in Events : /\ CountsIt(base[i], e)' <=> CountsIt(base[i], e)
                          /\ CountsIt(baseDisk, e)' <=> CountsIt(baseDisk, e)
    BY <1>1 DEF CountsIt, disk
  <2>3. \A e \in Events : rollup'[i][e] = IF CountsIt(baseDisk, e) THEN 1 ELSE 0
    BY <1>4, <2>1 DEF TallyOk
  <2> QED BY <1>1, <1>3, <1>4, <2>2, <2>3 DEF TallyOk, disk
<1> QED BY <1>1, <1>2, <1>4, TallyFrame DEF disk

LEMMA TallySweepFold ==
    ASSUME TypeInv, SparedInv, TallyInv, Countable', NEW i \in Instances, SweepFold(i)
    PROVE  TallyInv'
<1>1. Worker(i) /\ UNCHANGED <<disk, cur, rollup, hasAgg, app>>
  BY DEF SweepFold, Worker, Busy
<1>2. PICK d \in sw[i].todo :
         /\ base' = IF hasAgg[i] /\ d \notin base[i].folded
              THEN [base EXCEPT ![i] = [plays  |-> Plus(base[i].plays, LinesOf(d, Readable(d))),
                                        folded |-> base[i].folded \cup {d}]]
              ELSE base
         /\ sw' = [sw EXCEPT ![i].pc = IF hasAgg[i] /\ d \notin base[i].folded
                                          THEN "persist" ELSE "unlink",
                             ![i].todo = @ \ {d}, ![i].seg = d,
                             ![i].expiring = Readable(d)]
  <2>1. PICK d \in sw[i].todo : \E read \in SUBSET Readable(d) :
           /\ Strike(IF read = Readable(d) THEN {} ELSE {"noSegment"})
           /\ base' = IF hasAgg[i] /\ d \notin base[i].folded
                THEN [base EXCEPT ![i] = [plays  |-> Plus(base[i].plays, LinesOf(d, read)),
                                          folded |-> base[i].folded \cup {d}]]
                ELSE base
           /\ sw' = [sw EXCEPT ![i].pc = IF hasAgg[i] /\ d \notin base[i].folded
                                            THEN "persist" ELSE "unlink",
                               ![i].todo = @ \ {d}, ![i].seg = d, ![i].expiring = read]
    BY DEF SweepFold
  <2>2. \A read : Strike(IF read = Readable(d) THEN {} ELSE {"noSegment"}) => read = Readable(d)
    <3> SUFFICES ASSUME NEW read, read # Readable(d), Strike({"noSegment"}) PROVE FALSE
      OBVIOUS
    <3>1. {"noSegment"} \subseteq {"noAggregates"}
      BY CountableStrike
    <3> QED BY <3>1
  <2> QED BY <2>1, <2>2
<1> DEFINE pc == IF hasAgg[i] /\ d \notin base[i].folded THEN "persist" ELSE "unlink"
           r == [sw[i] EXCEPT !.pc = pc, !.todo = @ \ {d}, !.seg = d,
                              !.expiring = Readable(d)]
<1>3. sw' = [sw EXCEPT ![i] = r]
  BY <1>2 DEF TypeInv, TypeOK, Sweeps
<1>4. sw'[i] = r /\ \A j \in Instances \ {i} : sw'[j] = sw[j]
  BY <1>3 DEF TypeInv, TypeOK
<1>5. sw'[i].pc = pc /\ sw'[i].todo = sw[i].todo \ {d} /\ sw'[i].seg = d
  BY <1>4 DEF TypeInv, TypeOK, Sweeps
<1>6. d \in Days
  BY DEF TypeInv, TypeOK, Sweeps
<1>a. base[i].plays \in [Events -> Nat] /\ \A c \in Days, e \in Events : lines[c][e] \in Nat
  BY DEF TypeInv, TypeOK, Bases
<1>7. ASSUME hasAgg[i], TallyOk(i) PROVE TallyOk(i)'
  <2>1. base'[i].folded = base[i].folded \cup {d}
    BY <1>2, <1>7 DEF TypeInv, TypeOK
  <2>2. \A e \in Events : CountsIt(base[i], e)' <=> CountsIt(base[i], e)
    <3>1. CASE d \in base[i].folded
      <4>1. base'[i] = base[i]
        BY <1>2, <3>1
      <4> QED BY <1>1, <4>1 DEF CountsIt, disk
    <3>2. CASE d \notin base[i].folded
      <4>1. base'[i] = [plays  |-> Plus(base[i].plays, LinesOf(d, Readable(d))),
                        folded |-> base[i].folded \cup {d}]
        BY <1>2, <1>7, <3>2 DEF TypeInv, TypeOK
      <4>2. \A e \in Events : LinesOf(d, Readable(d))[e] = lines[d][e]
        BY <1>6, <1>a DEF LinesOf, Readable
      <4>3. \A e \in Events : base'[i].plays[e] = base[i].plays[e] + lines[d][e]
        BY <4>1, <4>2 DEF Plus
      <4>4. \A e \in Events : lines[d][e] > 0 => d \in segs
        BY <1>6 DEF SparedInv, SparedDisk, OneLine
      <4>5. \A e \in Events : base'[i].plays[e] # 0 <=> base[i].plays[e] # 0 \/ lines[d][e] > 0
        BY <1>6, <1>a, <4>3
      <4>6. segs' = segs /\ lines' = lines
        BY <1>1 DEF disk
      <4> QED BY <2>1, <3>2, <4>4, <4>5, <4>6 DEF CountsIt
    <3> QED BY <3>1, <3>2
  <2>3. \A e \in Events : /\ CountsIt(baseDisk, e)' <=> CountsIt(baseDisk, e)
                          /\ Pending(i, e)' <=> Pending(i, e)
    BY <1>1 DEF CountsIt, Pending, disk
  <2>4. pc = "unlink" => d \in baseDisk.folded
    BY <1>7 DEF TallyOk
  <2>5. pc # "list" /\ \A c \in sw'[i].todo : c \in base'[i].folded => c \in baseDisk.folded
    BY <1>5, <1>7, <2>1 DEF TallyOk
  <2> HIDE DEF pc
  <2> QED BY <1>1, <1>5, <1>7, <2>1, <2>2, <2>3, <2>4, <2>5 DEF TallyOk, disk
<1> QED BY <1>1, <1>4, <1>7, TallyFrame DEF disk

\* A step of a sweep that leaves the lines and the totals alone.
LEMMA TallySweepFrame ==
    ASSUME TypeInv, SparedInv, TallyInv, NEW i \in Instances, Worker(i),
           UNCHANGED <<segs, lines, torn, openLine, cur, rollup, hasAgg, app>>,
           \A j \in Instances \ {i} : sw'[j] = sw[j],
           baseDisk' \in {baseDisk, base[i]},
           \A e \in Events : CountsIt(base[i], e)' <=> CountsIt(base[i], e),
           hasAgg[i] /\ TallyOk(i) =>
              /\ sw'[i].pc = "list" => base'[i] = baseDisk'
              /\ \A d \in sw'[i].todo : d \in base'[i].folded => d \in baseDisk'.folded
              /\ sw'[i].pc \in {"persist", "unlink"} => sw'[i].seg \in base'[i].folded
              /\ sw'[i].pc = "unlink" => sw'[i].seg \in baseDisk'.folded
    PROVE  TallyInv'
<1>1. ASSUME hasAgg[i], TallyOk(i) PROVE TallyOk(i)'
  <2>1. \A e \in Events : CountsIt(baseDisk, e)' <=> CountsIt(baseDisk, e)
    <3>1. CASE baseDisk' = baseDisk
      BY <3>1 DEF CountsIt
    <3>2. CASE baseDisk' = base[i]
      BY <1>1, <3>2 DEF CountsIt, TallyOk
    <3> QED BY <3>1, <3>2
  <2>2. \A e \in Events : Pending(i, e)' <=> Pending(i, e)
    BY DEF Pending
  <2> QED BY <1>1, <2>1, <2>2 DEF TallyOk
<1> QED BY <1>1, TallyFrame

LEMMA TallySweepGoes ==
    ASSUME TypeInv, SparedInv, TallyInv, NEW i \in Instances,
           SweepList(i) \/ SweepPersist(i) \/ SweepPersistFails(i) \/ SweepUnlinkFails(i)
    PROVE  TallyInv'
<1>1. /\ Worker(i) /\ UNCHANGED <<segs, lines, torn, openLine, cur, mem, app>>
      /\ \A j \in Instances \ {i} : sw'[j] = sw[j]
  BY DEF SweepList, SweepPersist, WriteBaseline, SweepPersistFails, SweepUnlinkFails,
         Worker, Busy, disk, TypeInv, TypeOK
<1>2. \A e \in Events : CountsIt(base[i], e)' <=> CountsIt(base[i], e)
  BY <1>1 DEF CountsIt, mem
<1>3. CASE SweepList(i)
  <2>1. baseDisk' = baseDisk /\ sw[i].pc = "list"
    BY <1>3 DEF SweepList, disk
  <2>2. sw'[i].pc = "next"
    BY <1>3 DEF SweepList, TypeInv, TypeOK, Sweeps
  <2>3. TallyOk(i) => base'[i] = baseDisk'
    BY <1>1, <2>1 DEF TallyOk, mem
  <2> QED BY <1>1, <1>2, <2>1, <2>2, <2>3, TallySweepFrame DEF mem
<1>4. CASE SweepPersist(i)
  <2>1. baseDisk' = base[i] /\ sw[i].pc = "persist"
    BY <1>4 DEF SweepPersist, WriteBaseline
  <2>2. sw'[i] = [sw[i] EXCEPT !.pc = "unlink"]
    BY <1>4, SweepGoes DEF SweepPersist, TypeInv, TypeOK
  <2>3. sw'[i].pc = "unlink" /\ sw'[i].seg = sw[i].seg
    BY <2>2 DEF TypeInv, TypeOK, Sweeps
  <2>4. TallyOk(i) => sw'[i].seg \in base'[i].folded /\ base'[i] = baseDisk'
    BY <1>1, <2>1, <2>3 DEF TallyOk, mem
  <2> QED BY <1>1, <1>2, <2>1, <2>3, <2>4, TallySweepFrame DEF mem
<1>5. CASE SweepPersistFails(i)
  <2>1. baseDisk' = baseDisk
    BY <1>5 DEF SweepPersistFails, disk
  <2>2. sw'[i] = [sw[i] EXCEPT !.pc = "next"]
    BY <1>5, SweepGoes DEF SweepPersistFails, TypeInv, TypeOK
  <2>3. sw'[i].pc = "next" /\ sw'[i].todo = sw[i].todo
    BY <2>2 DEF TypeInv, TypeOK, Sweeps
  <2>4. TallyOk(i) => \A d \in sw'[i].todo : d \in base'[i].folded => d \in baseDisk'.folded
    BY <1>1, <2>1, <2>3 DEF TallyOk, mem
  <2> QED BY <1>1, <1>2, <2>1, <2>3, <2>4, TallySweepFrame DEF mem
<1>6. CASE SweepUnlinkFails(i)
  <2>1. baseDisk' = baseDisk /\ sw'[i] = NoSweep
    BY <1>6 DEF SweepUnlinkFails, disk, TypeInv, TypeOK
  <2>2. sw'[i].pc = "off" /\ sw'[i].todo = {}
    BY <2>1 DEF NoSweep
  <2> QED BY <1>1, <1>2, <2>1, <2>2, TallySweepFrame DEF mem
<1> QED BY <1>3, <1>4, <1>5, <1>6

LEMMA TallySweepUnlink ==
    ASSUME TypeInv, SparedInv, TallyInv, NEW i \in Instances, SweepUnlink(i)
    PROVE  TallyInv'
<1> DEFINE d == sw[i].seg
<1>1. /\ sw[i].pc = "unlink" /\ Worker(i) /\ UNCHANGED <<baseDisk, cur, base, rollup, hasAgg, app>>
      /\ segs' = segs \ {d} /\ \A j \in Instances \ {i} : sw'[j] = sw[j]
  BY DEF SweepUnlink, Worker, Busy, TypeInv, TypeOK
<1>2. \A c \in Days, e \in Events : lines'[c][e] = IF c = d THEN 0 ELSE lines[c][e]
  BY DEF SweepUnlink, NoLines, TypeInv, TypeOK
<1>3. sw'[i].pc = "next" /\ sw'[i].todo = sw[i].todo
  BY DEF SweepUnlink, TypeInv, TypeOK, Sweeps
<1>4. Untorn'
  BY DEF SweepUnlink, Untorn, TallyInv, TypeInv, TypeOK
<1>5. \A j \in Instances \ {i} : ~Worker(j)'
  BY <1>1, OthersRest DEF SparedInv
<1>6. segs \subseteq Days
  BY DEF TypeInv, TypeOK
<1> HIDE DEF d
<1>7. ASSUME hasAgg'[i] PROVE TallyOk(i)'
  <2>1. TallyOk(i)
    BY <1>1, <1>7 DEF TallyInv
  <2>2. d \in base[i].folded /\ d \in baseDisk.folded
    BY <1>1, <2>1 DEF TallyOk, d
  <2>3. \A e \in Events : /\ CountsIt(base[i], e)' <=> CountsIt(base[i], e)
                          /\ CountsIt(baseDisk, e)' <=> CountsIt(baseDisk, e)
                          /\ Pending(i, e)' <=> Pending(i, e)
    BY <1>1, <1>2, <1>6, <2>2 DEF CountsIt, Pending
  <2> QED BY <1>1, <1>3, <2>1, <2>3 DEF TallyOk
<1> QED BY <1>4, <1>5, <1>7, TallySuffices

LEMMA TallySweepEnds ==
    ASSUME TypeInv, SparedInv, TallyInv, NEW i \in Instances, SweepSettle(i) \/ SweepDone(i)
    PROVE  TallyInv'
<1>1. /\ Worker(i) /\ UNCHANGED <<segs, lines, torn, openLine, cur, rollup, hasAgg, app>>
      /\ baseDisk' \in {baseDisk, base[i]} /\ \A j \in Instances \ {i} : sw'[j] = sw[j]
  BY DEF SweepSettle, SweepDone, WriteBaseline, Worker, Busy, disk, mem, TypeInv, TypeOK
<1>2. /\ base'[i].plays = base[i].plays
      /\ base'[i].folded \subseteq base[i].folded
      /\ base[i].folded \ base'[i].folded \subseteq sw[i].removed
  BY DEF SweepSettle, SweepDone, mem, TypeInv, TypeOK, Bases
<1>3. SweepsOld(i)
  BY <1>1 DEF SparedInv, SparedWorker
<1>4. \A e \in Events : CountsIt(base[i], e)' <=> CountsIt(base[i], e)
  BY <1>1, <1>2, <1>3 DEF CountsIt, SweepsOld
<1>5. sw'[i].pc \in {"off", "settle"} /\ sw'[i].todo = {}
  <2>1. CASE SweepDone(i)
    BY <2>1 DEF SweepDone, NoSweep, TypeInv, TypeOK
  <2>2. CASE SweepSettle(i)
    <3>1. sw[i].todo = {} /\ (sw'[i] = NoSweep \/ sw'[i] = [sw[i] EXCEPT !.pc = "settle"])
      BY <2>2, SweepGoes DEF SweepSettle, TypeInv, TypeOK
    <3> QED BY <3>1 DEF NoSweep, TypeInv, TypeOK, Sweeps
  <2> QED BY <2>1, <2>2
<1> QED BY <1>1, <1>4, <1>5, TallySweepFrame

-----------------------------------------------------------------------------
LEMMA TallyStep ==
    ASSUME Countable', TypeInv, TypeInv', SparedInv, SparedInv', TallyInv, [Next]_vars
    PROVE  TallyInv'
<1>1. ASSUME UNCHANGED <<segs, lines, torn, openLine, baseDisk, base, rollup, hasAgg, app, sw>>,
             \A i \in Instances : Worker(i)' => Worker(i)
      PROVE  TallyInv'
  BY <1>1 DEF TallyInv, Untorn, TallyOk, CountsIt, Pending
<1>2. CASE UNCHANGED vars
  BY <1>1, <1>2 DEF vars, disk, mem, Worker, Busy
<1>3. CASE NextDay
  BY <1>1, <1>3 DEF NextDay, disk, mem, Worker, Busy
<1>4. CASE Stop
  <2>1. \A i \in Instances : Worker(i)' => Worker(i)
    BY <1>4, ConstantsAssumption DEF Stop, Worker, Busy
  <2> QED BY <1>1, <1>4, <2>1 DEF Stop, disk, mem
<1>5. CASE Crash
  <2>1. Untorn'
    BY <1>5 DEF Crash, TallyInv, Untorn, disk
  <2> QED BY <1>5, <2>1, NobodyWorks DEF Crash, TallyInv
<1>6. ASSUME NEW i \in Instances, Start(i) PROVE TallyInv'
  BY <1>6, TallyStart
<1>7. ASSUME NEW i \in Instances, CrashTearing(i) PROVE TallyInv'
  BY <1>7, CountableStrike DEF CrashTearing
<1>8. ASSUME NEW i \in Instances, NEW batch \in SUBSET Events, Ingest(i, batch)
      PROVE  TallyInv'
  BY <1>8, TallyAppend
<1>9. ASSUME NEW i \in Instances, Append(i) PROVE TallyInv'
  <2>1. CASE AppendWritten(i)
    BY <2>1, TallyAppendWritten
  <2>2. CASE Answer(i) \/ AppendFails(i)
    BY <2>2, TallyAppend
  <2>3. CASE AppendFailsPartly(i)
    BY <2>3, CountableStrike DEF AppendFailsPartly
  <2> QED BY <1>9, <2>1, <2>2, <2>3 DEF Append
<1>10. ASSUME NEW i \in Instances, Sweep(i) PROVE TallyInv'
  BY <1>10, TallySweepGoes, TallySweepFold, TallySweepUnlink, TallySweepEnds DEF Sweep
<1> QED BY <1>2, <1>3, <1>4, <1>5, <1>6, <1>7, <1>8, <1>9, <1>10 DEF Next

LEMMA TallyStays == ASSUME InTime PROVE Spec => []TallyUntil
<1>1. Init => TallyUntil
  BY TypeInit, SparedInit, ConstantsAssumption
     DEF Init, TallyUntil, TallyInv, Untorn, Worker, Busy, Idle, NoSweep
<1>2. SparedUntil' /\ TallyUntil /\ [Next]_vars => TallyUntil'
  <2> SUFFICES ASSUME SparedUntil', TallyUntil, [Next]_vars PROVE TallyUntil'
    OBVIOUS
  <2>1. TypeInv /\ TypeInv'
    BY DEF SparedUntil, TallyUntil
  <2>2. ASSUME Countable' PROVE SparedInv' /\ TallyInv'
    <3>1. SparedInv /\ TallyInv
      BY <2>2, StruckStays DEF TallyUntil, Countable
    <3>2. SparedInv'
      BY <2>2 DEF SparedUntil, Countable, IndexSpared
    <3> QED BY <2>1, <2>2, <3>1, <3>2, TallyStep
  <2> QED BY <2>1, <2>2 DEF TallyUntil
<1> QED BY <1>1, <1>2, SparedStays, PTL DEF Spec

(***************************************************************************)
(* The totals in memory agree with the disk at every step of a sweep, also *)
(* after a run that could not open the aggregates.                         *)
(***************************************************************************)
THEOREM RollupIsDerived == ASSUME InTime PROVE Spec => []RollupMatchesDisk
<1>1. TallyUntil => RollupMatchesDisk
  <2> SUFFICES ASSUME TypeInv, SparedInv, TallyInv, cur # NoInstance, hasAgg[cur],
                      app[cur].pc # "answer", NEW e \in Events
               PROVE  rollup[cur][e] = Cardinality(Homes(e))
    BY DEF TallyUntil, Countable, RollupMatchesDisk
  <2>1. cur \in Instances /\ Worker(cur)
    BY DEF TypeInv, TypeOK, Worker
  <2>2. rollup[cur][e] = IF CountsIt(baseDisk, e) THEN 1 ELSE 0
    BY <2>1 DEF TallyInv, TallyOk, Pending
  <2>3. OneLine /\ Frozen(baseDisk) /\ baseDisk \in Bases
    BY DEF SparedInv, SparedDisk, TypeInv, TypeOK
  <2>4. Cardinality(Homes(e)) = IF CountsIt(baseDisk, e) THEN 1 ELSE 0
    <3>1. /\ baseDisk.plays[e] + Cardinality(LiveLines(baseDisk, e))
                = IF CountsIt(baseDisk, e) THEN 1 ELSE 0
          /\ baseDisk.plays[e] = 0 \/ LiveLines(baseDisk, e) = {}
      BY <2>3, DerivedCount
    <3>2. CASE baseDisk.plays[e] = 1 /\ LiveLines(baseDisk, e) = {}
      <4>1. Homes(e) = {<<0, 1>>}
        BY <3>2 DEF Homes
      <4> QED BY <3>2, <4>1, FS_Singleton DEF CountsIt
    <3>3. CASE baseDisk.plays[e] = 0
      <4>1. Homes(e) = LiveLines(baseDisk, e)
        BY <3>3 DEF Homes
      <4>2. Cardinality(LiveLines(baseDisk, e)) \in Nat
        <5>1. Cardinality({}) = 0 /\ \A d \in Days : Cardinality({<<d, 1>>}) = 1
          BY FS_EmptySet, FS_Singleton
        <5>2. \/ LiveLines(baseDisk, e) = {}
              \/ \E d \in Days : LiveLines(baseDisk, e) = {<<d, 1>>}
          BY <2>3, <3>3, OneOfBoth
        <5> QED BY <5>1, <5>2
      <4> QED BY <3>1, <3>3, <4>1, <4>2
    <3> QED BY <2>3, <3>2, <3>3, OneOfBoth
  <2> QED BY <2>2, <2>4
<1> QED BY <1>1, TallyStays, PTL

-----------------------------------------------------------------------------
(***************************************************************************)
(* The frozen baseline, under every fault but those that have a sweep      *)
(* start from less than what is frozen.                                    *)
(***************************************************************************)
\* No fault that has a sweep start from less than what is frozen.
BaselineRead == struck \cap {"noBaseline", "overlap"} = {}

\* An instance with aggregates has all of the baseline, and one without writes none.
HoldsBaseline(i) ==
    /\ hasAgg[i] => \A e \in Events : baseDisk.plays[e] <= base[i].plays[e]
    /\ ~hasAgg[i] => base[i].folded = {} /\ sw[i].pc \notin {"persist", "settle"}

BaselineInv == OneWorker /\ \A i \in Instances : Worker(i) => HoldsBaseline(i)

BaselineUntil == TypeInv /\ (BaselineRead => BaselineInv)

\* A step of an instance that writes no baseline and forgets none.
LEMMA BaselineFrame ==
    ASSUME BaselineInv, NEW i \in Instances, Worker(i), cur' \in {cur, NoInstance},
           \A j \in Instances \ {i} : app'[j] = app[j] /\ sw'[j] = sw[j],
           HoldsBaseline(i) => HoldsBaseline(i)'
    PROVE  BaselineInv'
<1>1. \A j \in Instances \ {i} : ~Worker(j)'
  BY OthersRest DEF BaselineInv
<1> QED BY <1>1 DEF BaselineInv, OneWorker

LEMMA BaselineSweep ==
    ASSUME TypeInv, BaselineInv, NEW i \in Instances, Sweep(i)
    PROVE  BaselineInv' /\ \A e \in Events : baseDisk.plays[e] <= baseDisk'.plays[e]
<1>1. /\ Worker(i) /\ UNCHANGED <<cur, app, hasAgg>>
      /\ \A j \in Instances \ {i} : sw'[j] = sw[j]
  BY DEF Sweep, SweepList, SweepFold, SweepPersist, SweepPersistFails, SweepUnlink,
         SweepUnlinkFails, SweepSettle, SweepDone, Worker, Busy, mem, TypeInv, TypeOK
<1>2. /\ \A e \in Events : baseDisk.plays[e] \in Nat /\ base[i].plays[e] \in Nat
      /\ sw[i] \in Sweeps
  BY DEF TypeInv, TypeOK, Bases
<1>3. HoldsBaseline(i)
  BY <1>1 DEF BaselineInv
<1>4. \/ baseDisk' = baseDisk
      \/ baseDisk' = base[i] /\ base' = base /\ hasAgg[i]
  BY <1>3 DEF Sweep, SweepList, SweepFold, SweepPersist, SweepPersistFails, SweepUnlink,
         SweepUnlinkFails, SweepSettle, SweepDone, WriteBaseline, HoldsBaseline, disk, mem
<1>5. \A e \in Events : baseDisk.plays[e] <= baseDisk'.plays[e]
  BY <1>2, <1>3, <1>4 DEF HoldsBaseline
<1>6. \/ base'[i].plays = base[i].plays
      \/ /\ hasAgg[i]
         /\ \A e \in Events : base'[i].plays[e] \in Nat
                              /\ base[i].plays[e] <= base'[i].plays[e]
  <2>1. CASE SweepFold(i)
    <3>1. PICK d \in sw[i].todo : \E read \in SUBSET Readable(d) :
             base' = IF hasAgg[i] /\ d \notin base[i].folded
               THEN [base EXCEPT ![i] = [plays  |-> Plus(base[i].plays, LinesOf(d, read)),
                                         folded |-> base[i].folded \cup {d}]]
               ELSE base
      BY <2>1 DEF SweepFold
    <3>2. PICK read \in SUBSET Readable(d) :
             base' = IF hasAgg[i] /\ d \notin base[i].folded
               THEN [base EXCEPT ![i] = [plays  |-> Plus(base[i].plays, LinesOf(d, read)),
                                         folded |-> base[i].folded \cup {d}]]
               ELSE base
      BY <3>1
    <3>3. \A e \in Events : LinesOf(d, read)[e] \in Nat
      BY DEF LinesOf, TypeInv, TypeOK, Sweeps
    <3>4. CASE hasAgg[i] /\ d \notin base[i].folded
      <4>1. base'[i].plays = Plus(base[i].plays, LinesOf(d, read))
        BY <3>2, <3>4 DEF TypeInv, TypeOK
      <4> QED BY <1>2, <3>3, <3>4, <4>1 DEF Plus
    <3> QED BY <3>2, <3>4
  <2>2. CASE ~SweepFold(i)
    BY <1>1, <2>2 DEF Sweep, SweepList, SweepPersist, SweepPersistFails, SweepUnlink,
         SweepUnlinkFails, SweepSettle, SweepDone, mem, TypeInv, TypeOK, Bases
  <2> QED BY <2>1, <2>2
<1>7. ASSUME ~hasAgg[i] PROVE base'[i].folded = {} /\ sw'[i].pc \notin {"persist", "settle"}
  <2>1. base[i].folded = {} /\ sw[i].pc \notin {"persist", "settle"}
    BY <1>3, <1>7 DEF HoldsBaseline
  <2>2. CASE SweepFold(i)
    <3>1. base' = base /\ \E d \in sw[i].todo : \E evs :
             sw' = [sw EXCEPT ![i].pc = "unlink", ![i].todo = @ \ {d}, ![i].seg = d,
                              ![i].expiring = evs]
      BY <1>7, <2>2 DEF SweepFold
    <3> QED BY <2>1, <3>1 DEF TypeInv, TypeOK, Sweeps
  <2>3. CASE SweepSettle(i)
    BY <2>1, <2>3 DEF SweepSettle, NoSweep, TypeInv, TypeOK
  <2>4. CASE ~SweepFold(i) /\ ~SweepSettle(i)
    BY <2>1, <2>4 DEF Sweep, SweepList, SweepPersist, SweepPersistFails, SweepUnlink,
         SweepUnlinkFails, SweepDone, NoSweep, mem, TypeInv, TypeOK, Sweeps
  <2> QED BY <2>2, <2>3, <2>4
<1>8. HoldsBaseline(i)'
  <2>1. ASSUME hasAgg[i], NEW e \in Events PROVE baseDisk'.plays[e] <= base'[i].plays[e]
    <3>1. baseDisk.plays[e] <= base[i].plays[e]
      BY <1>3, <2>1 DEF HoldsBaseline
    <3>2. CASE baseDisk' = baseDisk
      BY <1>2, <1>6, <3>1, <3>2
    <3>3. CASE baseDisk' = base[i] /\ base' = base
      BY <1>2, <3>3
    <3> QED BY <1>4, <3>2, <3>3
  <2> QED BY <1>1, <1>7, <2>1 DEF HoldsBaseline
<1> QED BY <1>1, <1>5, <1>8, BaselineFrame

LEMMA BaselineStep ==
    ASSUME TypeInv, BaselineInv, BaselineRead', [Next]_vars
    PROVE  BaselineInv' /\ \A e \in Events : baseDisk.plays[e] <= baseDisk'.plays[e]
<1>1. \A e \in Events : baseDisk.plays[e] \in Nat
  BY DEF TypeInv, TypeOK, Bases
<1>2. ASSUME baseDisk' = baseDisk, UNCHANGED <<base, hasAgg, app, sw>>, cur' \in {cur, NoInstance}
      PROVE  BaselineInv'
  BY <1>2, ConstantsAssumption DEF BaselineInv, OneWorker, Worker, Busy, HoldsBaseline
<1>3. CASE UNCHANGED vars \/ NextDay \/ Stop
  <2>1. baseDisk' = baseDisk /\ UNCHANGED <<base, hasAgg, app, sw>> /\ cur' \in {cur, NoInstance}
    BY <1>3 DEF vars, disk, mem, NextDay, Stop
  <2> QED BY <1>1, <1>2, <2>1
<1>4. ASSUME LoseMemory, baseDisk' = baseDisk
      PROVE  BaselineInv' /\ \A e \in Events : baseDisk.plays[e] <= baseDisk'.plays[e]
  BY <1>1, <1>4, NobodyWorks DEF BaselineInv, OneWorker
<1>5. ASSUME NEW i \in Instances, Start(i)
      PROVE  BaselineInv' /\ baseDisk' = baseDisk
  <2>1. \A K : Strike(K) => K \cap {"noBaseline", "overlap"} = {}
    BY DEF BaselineRead, Strike
  <2>2. \A j \in Instances : ~Busy(j)
    <3>1. \E K : Overlap \subseteq K /\ Strike(K)
      BY <1>5 DEF Start
    <3>2. "overlap" \notin Overlap
      BY <2>1, <3>1
    <3> QED BY <3>2 DEF Overlap
  <2>3. \A j \in Instances \ {i} : ~Worker(j)'
    BY <1>5, <2>2 DEF Start, Worker, Busy, TypeInv, TypeOK
  <2>4. ~Strike(Overlap \cup {"noBaseline"})
    BY <2>1
  <2>5. baseDisk' = baseDisk /\ sw'[i].pc = "list"
    BY <1>5 DEF Start, NoSweep, disk, TypeInv, TypeOK
  <2>6. \/ hasAgg'[i] /\ base'[i] = baseDisk
        \/ ~hasAgg'[i] /\ base'[i].folded = {}
    BY <1>5, <2>4 DEF Start, OpenAggregates, EmptyBase, TypeInv, TypeOK
  <2>7. HoldsBaseline(i)'
    BY <1>1, <2>5, <2>6 DEF HoldsBaseline
  <2> QED BY <2>3, <2>5, <2>7 DEF BaselineInv, OneWorker
<1>6. ASSUME NEW i \in Instances, NEW batch \in SUBSET Events,
             Ingest(i, batch) \/ Append(i)
      PROVE  BaselineInv' /\ baseDisk' = baseDisk
  <2>1. /\ Worker(i) /\ UNCHANGED <<baseDisk, cur, base, hasAgg, sw>>
        /\ \A j \in Instances \ {i} : app'[j] = app[j]
    BY <1>6 DEF Ingest, Append, AppendWritten, Answer, AppendFails, AppendFailsPartly,
         ForgetAppend, Land, Worker, Busy, disk, mem, TypeInv, TypeOK
  <2>2. HoldsBaseline(i) => HoldsBaseline(i)'
    BY <2>1 DEF HoldsBaseline
  <2> QED BY <2>1, <2>2, BaselineFrame
<1>7. CASE Crash
  BY <1>4, <1>7 DEF Crash, disk
<1>8. ASSUME NEW i \in Instances, CrashTearing(i)
      PROVE  BaselineInv' /\ \A e \in Events : baseDisk.plays[e] <= baseDisk'.plays[e]
  BY <1>4, <1>8 DEF CrashTearing, Land
<1> QED BY <1>1, <1>3, <1>5, <1>6, <1>7, <1>8, BaselineSweep DEF Next

(***************************************************************************)
(* The frozen baseline "is the only analytics file that cannot be          *)
(* recomputed" (aggregates.ts): no total in it goes down, however appends  *)
(* tear or fail midway, segments cannot be read and runs have no           *)
(* aggregates, and whenever a guest re-sends.                              *)
(***************************************************************************)
THEOREM BaselineStays == Spec => BaselineNeverShrinks
<1>1. Init => BaselineUntil
  BY TypeInit, ConstantsAssumption
     DEF Init, BaselineUntil, BaselineInv, OneWorker, Worker, Busy, Idle, NoSweep
<1>2. BaselineUntil /\ [Next]_vars => BaselineUntil'
  <2> SUFFICES ASSUME BaselineUntil, [Next]_vars PROVE BaselineUntil'
    OBVIOUS
  <2>1. TypeInv /\ TypeInv'
    BY TypeStep DEF BaselineUntil
  <2>2. ASSUME BaselineRead' PROVE BaselineInv'
    <3>1. BaselineInv
      BY <2>2, StruckStays DEF BaselineUntil, BaselineRead
    <3> QED BY <2>1, <2>2, <3>1, BaselineStep
  <2> QED BY <2>1, <2>2 DEF BaselineUntil
<1>3. BaselineUntil /\ [Next]_vars =>
        [struck' \cap {"noBaseline", "overlap"} = {} =>
            \A e \in Events : baseDisk.plays[e] <= baseDisk'.plays[e]]_vars
  <2> SUFFICES ASSUME BaselineUntil, [Next]_vars, BaselineRead'
               PROVE  \A e \in Events : baseDisk.plays[e] <= baseDisk'.plays[e]
    BY DEF BaselineRead
  <2>1. TypeInv /\ BaselineInv
    BY StruckStays DEF BaselineUntil, BaselineRead
  <2> QED BY <2>1, BaselineStep
<1> QED BY <1>1, <1>2, <1>3, PTL DEF Spec, BaselineNeverShrinks
=============================================================================
