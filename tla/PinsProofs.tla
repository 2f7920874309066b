------------------------------ MODULE PinsProofs ------------------------------
(***************************************************************************)
(* Theorems about the pins of a device (Pins): on a guest a pin holds its  *)
(* audio unless a delete was pressed on it, an unpin takes nothing from a  *)
(* pin that stood when it was pressed, and the statements of a recording   *)
(* reach another host after what they rest on.                             *)
(***************************************************************************)
EXTENDS Pins, FiniteSetTheorems, SequenceTheorems, WellFoundedInduction, TLAPS

\* A recording is pinned or on its way to it, never both.
OneState == \A r \in Recs : pinning[r].stage # "none" => r \notin pins

\* A delete under way was pressed.
WasAsked == \A r \in Recs : deleting[r].stage # "none" => r \in asked

\* What makes the promise of a guest inductive: from the moment the audio is written
\* until the pin is dropped, the file is whole and no delete of it has been sent.
AudioKept ==
    client = "web" =>
        \A r \in Recs \ asked :
            r \in pins \/ pinning[r].stage = "statements" =>
                kept[r] = "whole" /\ \A e \in evicting : e.now # r

\* What an unpin has still to drop is held by none of the pins it left.
OthersSpared ==
    \A e \in evicting : ({e.now} \cup e.left) \cap heldHashes(e.remaining) = {}

Inv == TypeOK /\ OneState /\ WasAsked /\ AudioKept /\ OthersSpared

-----------------------------------------------------------------------------
(* What is copied. *)

\* Natural numbers are well-founded.
LEMMA LeastNat ==
    ASSUME NEW T \in SUBSET Nat, T # {}
    PROVE  \E x \in T : \A y \in T : x <= y
<1>1. PICK x \in T : \A y \in T : ~(<<y, x>> \in OpToRel(<, Nat))
  BY NatLessThanWellFounded, WFMin
<1>2. \A y \in T : ~(y < x)
  BY <1>1 DEF OpToRel
<1>3. x \in Nat /\ \A y \in T : y \in Nat
  OBVIOUS
<1> QED BY <1>2, <1>3

\* after, as far as position n.
AfterUpTo(sent, failed, n, f) ==
    f = [i \in 0 .. n |->
           IF i = 0 THEN {}
           ELSE f[i - 1] \cup (IF Takes(f[i - 1], sent[i], failed) THEN {sent[i]} ELSE {})]

\* The recursive function of Stored is defined at every length.
LEMMA AfterExists ==
    ASSUME NEW sent, NEW failed, NEW n \in Nat
    PROVE  \E f : AfterUpTo(sent, failed, n, f)
<1> SUFFICES ASSUME ~ \E f : AfterUpTo(sent, failed, n, f) PROVE FALSE
  OBVIOUS
<1> DEFINE T == {k \in Nat : ~ \E f : AfterUpTo(sent, failed, k, f)}
<1>1. PICK k \in T : \A j \in T : k <= j
  <2>1. T \in SUBSET Nat /\ T # {}
    OBVIOUS
  <2> HIDE DEF T
  <2> QED BY <2>1, LeastNat
<1>2. CASE k = 0
  <2>1. AfterUpTo(sent, failed, 0, [i \in 0 .. 0 |-> {}])
    BY DEF AfterUpTo
  <2> QED BY <1>1, <1>2, <2>1
<1>3. CASE k > 0
  <2> DEFINE Grown(p, i) == p \cup (IF Takes(p, sent[i], failed) THEN {sent[i]} ELSE {})
  <2>1. k - 1 \in Nat /\ k - 1 \notin T
    BY <1>1, <1>3
  <2>2. PICK f : AfterUpTo(sent, failed, k - 1, f)
    BY <2>1
  <2>3. f = [i \in 0 .. k - 1 |-> IF i = 0 THEN {} ELSE Grown(f[i - 1], i)]
    BY <2>2 DEF AfterUpTo
  <2> HIDE DEF Grown
  <2> DEFINE g == [i \in 0 .. k |-> IF i < k THEN f[i] ELSE Grown(f[k - 1], k)]
  <2>4. \A i \in 0 .. k : g[i] = IF i = 0 THEN {} ELSE Grown(g[i - 1], i)
    <3> SUFFICES ASSUME NEW i \in 0 .. k PROVE g[i] = IF i = 0 THEN {} ELSE Grown(g[i - 1], i)
      OBVIOUS
    <3>1. CASE i < k
      <4>1. i \in 0 .. k - 1 /\ g[i] = f[i]
        BY <3>1, <1>1
      <4>2. f[i] = IF i = 0 THEN {} ELSE Grown(f[i - 1], i)
        BY <2>3, <4>1
      <4>3. i # 0 => g[i - 1] = f[i - 1]
        BY <3>1, <1>1
      <4> QED BY <4>1, <4>2, <4>3
    <3>2. CASE i = k
      <4>1. g[k - 1] = f[k - 1] /\ k # 0
        BY <1>1, <1>3
      <4> QED BY <3>2, <4>1
    <3> QED BY <3>1, <3>2, <1>1
  <2>5. g = [i \in 0 .. k |-> IF i = 0 THEN {} ELSE Grown(g[i - 1], i)]
    BY <2>4
  <2> HIDE DEF g
  <2>6. AfterUpTo(sent, failed, k, g)
    BY <2>5 DEF AfterUpTo, Grown
  <2> QED BY <1>1, <2>6
<1> QED BY <1>1, <1>2, <1>3

\* Stored, without the recursion: there are sets of what is stored after each
\* statement, each the last one with the statement in it when the host takes it.
LEMMA StoredStepwise ==
    ASSUME NEW sent \in Seq(Statements), NEW failed
    PROVE  \E f : /\ Stored(sent, failed) = f[Len(sent)] /\ f[0] = {}
                  /\ \A i \in 1 .. Len(sent) :
                        f[i] = f[i - 1] \cup
                          (IF Takes(f[i - 1], sent[i], failed) THEN {sent[i]} ELSE {})
<1> DEFINE after == CHOOSE f : AfterUpTo(sent, failed, Len(sent), f)
<1>0. Len(sent) \in Nat
  BY LenProperties
<1>1. AfterUpTo(sent, failed, Len(sent), after)
  <2>1. \E f : AfterUpTo(sent, failed, Len(sent), f)
    BY <1>0, AfterExists
  <2> QED BY <2>1
<1>2. Stored(sent, failed) = after[Len(sent)]
  BY DEF Stored, AfterUpTo
<1> HIDE DEF after
<1>3. after[0] = {}
  BY <1>0, <1>1 DEF AfterUpTo
<1>4. \A i \in 1 .. Len(sent) :
         after[i] = after[i - 1] \cup
           (IF Takes(after[i - 1], sent[i], failed) THEN {sent[i]} ELSE {})
  <2> DEFINE Grown(p, i) == p \cup (IF Takes(p, sent[i], failed) THEN {sent[i]} ELSE {})
  <2>1. after = [i \in 0 .. Len(sent) |-> IF i = 0 THEN {} ELSE Grown(after[i - 1], i)]
    BY <1>1 DEF AfterUpTo
  <2> HIDE DEF Grown
  <2>2. \A i \in 1 .. Len(sent) : after[i] = Grown(after[i - 1], i)
    <3> SUFFICES ASSUME NEW i \in 1 .. Len(sent) PROVE after[i] = Grown(after[i - 1], i)
      OBVIOUS
    <3>1. i \in 0 .. Len(sent) /\ i # 0
      BY <1>0
    <3> DEFINE D == 0 .. Len(sent)
    <3>2. after = [m \in D |-> IF m = 0 THEN {} ELSE Grown(after[m - 1], m)] /\ i \in D
      BY <2>1, <3>1
    <3> HIDE DEF D
    <3> QED BY <3>1, <3>2
  <2> QED BY <2>2 DEF Grown
<1> QED BY <1>2, <1>3, <1>4

\* A chain of sets that grows: what is in a later one is not lost, and what is in the
\* last came in at some place.
Grows(f, n) == f[0] = {} /\ \A i \in 1 .. n : f[i - 1] \subseteq f[i]

LEMMA GrowsOnly ==
    ASSUME NEW n \in Nat, NEW f, Grows(f, n), NEW i \in 0 .. n, NEW j \in i .. n
    PROVE  f[i] \subseteq f[j]
<1> SUFFICES ASSUME ~(f[i] \subseteq f[j]) PROVE FALSE
  OBVIOUS
<1> DEFINE T == {k \in i .. n : ~(f[i] \subseteq f[k])}
<1>1. PICK k \in T : \A m \in T : k <= m
  <2>1. T \in SUBSET Nat /\ T # {}
    OBVIOUS
  <2> HIDE DEF T
  <2> QED BY <2>1, LeastNat
<1>2. k # i /\ k - 1 \in i .. n /\ k \in 1 .. n
  BY <1>1
<1>3. k - 1 \notin T
  BY <1>1, <1>2
<1>4. f[i] \subseteq f[k - 1]
  BY <1>2, <1>3
<1>5. f[k - 1] \subseteq f[k]
  BY <1>2 DEF Grows
<1> QED BY <1>1, <1>4, <1>5

LEMMA CameIn ==
    ASSUME NEW n \in Nat, NEW f, Grows(f, n), NEW x \in f[n]
    PROVE  \E i \in 1 .. n : x \in f[i] /\ x \notin f[i - 1]
<1> DEFINE T == {k \in 0 .. n : x \in f[k]}
<1>1. PICK k \in T : \A m \in T : k <= m
  <2>1. T \in SUBSET Nat /\ T # {}
    OBVIOUS
  <2> HIDE DEF T
  <2> QED BY <2>1, LeastNat
<1>2. k # 0
  BY <1>1 DEF Grows
<1>3. k \in 1 .. n /\ k - 1 \notin T
  BY <1>1, <1>2
<1> QED BY <1>1, <1>3

\* What is stored was sent.
LEMMA StoredWasSent ==
    ASSUME NEW sent \in Seq(Statements), NEW failed
    PROVE  Stored(sent, failed) \subseteq ToSet(sent)
<1> SUFFICES ASSUME NEW x \in Stored(sent, failed) PROVE x \in ToSet(sent)
  OBVIOUS
<1>1. Len(sent) \in Nat /\ DOMAIN sent = 1 .. Len(sent)
  BY LenProperties
<1>2. PICK f : /\ Stored(sent, failed) = f[Len(sent)] /\ f[0] = {}
               /\ \A i \in 1 .. Len(sent) :
                     f[i] = f[i - 1] \cup
                       (IF Takes(f[i - 1], sent[i], failed) THEN {sent[i]} ELSE {})
  BY StoredStepwise
<1>3. Grows(f, Len(sent)) /\ x \in f[Len(sent)]
  BY <1>2 DEF Grows
<1>4. PICK i \in 1 .. Len(sent) : x \in f[i] /\ x \notin f[i - 1]
  BY <1>1, <1>3, CameIn
<1>5. x = sent[i]
  BY <1>2, <1>4
<1> QED BY <1>1, <1>5 DEF ToSet

\* What a statement needs goes before it.
LEMMA NeedsRankLower ==
    ASSUME NEW s \in Statements, NEW t \in Statements, Kind[t] \in Needs(s)
    PROVE  rank(t) < rank(s)
<1>1. Kind[s] \in {"claim", "link", "record", "revocation"}
  BY PinsAssumption
<1>2. CASE Kind[s] = "claim"
  BY <1>2 DEF Needs
<1>3. CASE Kind[s] = "link"
  BY <1>3 DEF Needs, rank
<1>4. CASE Kind[s] = "record"
  BY <1>4 DEF Needs, rank
<1>5. CASE Kind[s] = "revocation"
  BY <1>5 DEF Needs, rank
<1> QED BY <1>1, <1>2, <1>3, <1>4, <1>5

\* The sequences fetched are sequences of statements, in order.
LEMMA FetchedAreStatements ==
    ASSUME NEW r \in Recs, NEW sent \in fetchStatements[r]
    PROVE  sent \in Seq(Statements) /\ InOrder(sent)
<1>1. PICK got \in SUBSET Listed[r] : sent \in SetToSeqs(got) /\ InOrder(sent)
  BY DEF fetchStatements
<1>2. got \subseteq Statements /\ IsFiniteSet(got)
  BY PinsAssumption, FS_Subset
<1>3. Cardinality(got) \in Nat
  BY <1>2, FS_CardinalityType
<1>4. sent \in [1 .. Cardinality(got) -> got]
  BY <1>1 DEF SetToSeqs
<1>5. sent \in Seq(got)
  <2> DEFINE c == Cardinality(got)
  <2>1. c \in Nat /\ sent \in [1 .. c -> got]
    BY <1>3, <1>4
  <2> HIDE DEF c
  <2> QED BY <2>1
<1>6. \A i \in DOMAIN sent : sent[i] \in Statements
  BY <1>2, <1>4
<1>7. sent \in Seq(Statements)
  BY <1>2, <1>5, <1>6
<1> QED BY <1>1, <1>7

\* A host is asked for nothing it cannot take but what rests on a failure.
LEMMA OrderedCopy ==
    ASSUME NEW sent \in Seq(Statements), InOrder(sent), NEW failed,
           NEW s \in ToSet(sent), s \notin Stored(sent, failed), s \notin failed
    PROVE  \E k \in Needs(s) :
              \A t \in ToSet(sent) : Kind[t] = k => t \notin Stored(sent, failed)
<1>1. Len(sent) \in Nat /\ DOMAIN sent = 1 .. Len(sent)
      /\ \A i \in 1 .. Len(sent) : sent[i] \in Statements
  BY LenProperties, ElementOfSeq
<1>2. PICK f : /\ Stored(sent, failed) = f[Len(sent)] /\ f[0] = {}
               /\ \A i \in 1 .. Len(sent) :
                     f[i] = f[i - 1] \cup
                       (IF Takes(f[i - 1], sent[i], failed) THEN {sent[i]} ELSE {})
  BY StoredStepwise
<1>3. Grows(f, Len(sent))
  BY <1>2 DEF Grows
<1>4. PICK j \in 1 .. Len(sent) : s = sent[j]
  BY <1>1 DEF ToSet
<1>5. s \notin f[j]
  <2>1. f[j] \subseteq f[Len(sent)]
    BY <1>1, <1>3, GrowsOnly
  <2> QED BY <1>2, <2>1
<1>6. ~Takes(f[j - 1], s, failed)
  BY <1>2, <1>4, <1>5
<1>7. PICK k \in Needs(s) : k \notin {Kind[t] : t \in f[j - 1]}
  BY <1>6 DEF Takes
<1>8. ASSUME NEW t \in ToSet(sent), Kind[t] = k, t \in Stored(sent, failed) PROVE FALSE
  <2>1. PICK i \in 1 .. Len(sent) : t \in f[i] /\ t \notin f[i - 1]
    BY <1>1, <1>2, <1>3, <1>8, CameIn
  <2>2. t = sent[i]
    BY <1>2, <2>1
  <2>3. rank(t) < rank(s)
    BY <1>1, <1>4, <1>7, <1>8, <2>2, NeedsRankLower
  <2>4. i < j
    BY <1>1, <1>4, <2>2, <2>3 DEF InOrder
  <2>5. f[i] \subseteq f[j - 1]
    <3>1. i \in 0 .. Len(sent) /\ j - 1 \in i .. Len(sent)
      BY <1>1, <2>4
    <3> QED BY <1>1, <1>3, <3>1, GrowsOnly
  <2> QED BY <1>7, <1>8, <2>1, <2>5
<1> QED BY <1>7, <1>8

-----------------------------------------------------------------------------
(* Types. *)

PinningTypes  == [stage : {"none", "fetch", "cache", "failed", "statements"},
                  left : SUBSET Statements]
DeletingTypes == [stage : {"none", "own", "hosts", "unpinned"}, saw : SUBSET Recs,
                  press : 0 .. MaxPresses]
EvictionTypes == [of : Recs, press : 0 .. MaxPresses, now : Hashes,
                  left : SUBSET Statements, remaining : SUBSET Recs]
CopyTypes     == [sent : Seq(Statements), stored : SUBSET Statements,
                  failed : SUBSET Statements]

\* The cases of a step.
LEMMA StepCases ==
    ASSUME Next
    PROVE  \/ \E r \in Recs : fetched(r)
           \/ /\ copy' = NoCopy
              /\ \/ \E r \in Recs : \/ gaveUp(r) \/ cacheBlob(r) \/ pinned(r)
                                    \/ pin(r) \/ unpin(r) \/ delete(r)
                                    \/ deleteRecording(r) \/ deletedEverywhere(r)
                                    \/ onDelete(r)
                 \/ \E e \in evicting : evict(e)
                 \/ \E r \in Recs : \E s \in Statements : keepStatement(r, s)
                 \/ reload
BY DEF Next, Work

\* What is copied has its type.
LEMMA CopyTyped ==
    ASSUME NEW r \in Recs, replicateBlob(r)
    PROVE  copy' \in CopyTypes
<1>1. CASE copy' = NoCopy
  BY <1>1 DEF NoCopy, CopyTypes
<1>2. ASSUME NEW sent \in fetchStatements[r], NEW failed \in SUBSET ToSet(sent),
             copy' = copyBlob(sent, failed)
      PROVE  copy' \in CopyTypes
  <2>1. sent \in Seq(Statements)
    BY FetchedAreStatements
  <2>2. ToSet(sent) \subseteq Statements
    BY <2>1, LenProperties, ElementOfSeq DEF ToSet
  <2>3. Stored(sent, failed) \subseteq Statements
    BY <2>1, <2>2, StoredWasSent
  <2> QED BY <1>2, <2>1, <2>2, <2>3 DEF copyBlob, CopyTypes
<1> QED BY <1>1, <1>2 DEF replicateBlob

\* A write leaves the cache, and what is left open, of their types.
LEMMA WriteTyped ==
    ASSUME TypeOK, NEW h \in Hashes, Wrote(h) \/ FailedToWrite(h)
    PROVE  /\ kept' \in [Hashes -> {"nothing", "whole", "torn"}] /\ locked' \subseteq Hashes
           /\ failures' \in 0 .. MaxFailures
<1>1. MaxFailures \in Nat
  BY PinsAssumption
<1>2. CASE Wrote(h)
  BY <1>2 DEF Wrote, TypeOK
<1>3. CASE FailedToWrite(h)
  BY <1>1, <1>3 DEF FailedToWrite, TypeOK
<1> QED BY <1>2, <1>3

\* An unpin leaves the pins and the evictions of their types.
LEMMA UnpinTyped ==
    ASSUME TypeOK, NEW r \in Recs, NEW saw \in SUBSET Recs, NEW press \in 0 .. MaxPresses,
           unpins(r, saw, press)
    PROVE  pins' \subseteq Recs /\ evicting' \subseteq EvictionTypes
<1>1. toEvict(r, saw) \ {r} \subseteq Statements
  BY PinsAssumption DEF toEvict
<1>2. r \in Hashes
  BY DEF Hashes
<1>3. evicting \subseteq EvictionTypes /\ pins \subseteq Recs
  BY DEF TypeOK, EvictionTypes
<1> DEFINE e == [of |-> r, press |-> press, now |-> r, left |-> toEvict(r, saw) \ {r},
                 remaining |-> saw \ {r}]
<1>4. e \in EvictionTypes
  BY <1>1, <1>2 DEF EvictionTypes
<1>5. pins' = pins \ {r} /\ (evicting' = evicting \/ evicting' = evicting \cup {e})
  BY DEF unpins
<1> HIDE DEF e
<1> QED BY <1>3, <1>4, <1>5

\* Every step keeps every variable of its type.
LEMMA TypeStep ==
    ASSUME TypeOK, [Next]_vars
    PROVE  TypeOK'
<1>0. /\ client \in Clients /\ library \subseteq Recs /\ pins \subseteq Recs
      /\ kept \in [Hashes -> {"nothing", "whole", "torn"}] /\ locked \subseteq Hashes
      /\ pinning \in [Recs -> PinningTypes] /\ evicting \subseteq EvictionTypes
      /\ deleting \in [Recs -> DeletingTypes] /\ copy \in CopyTypes /\ asked \subseteq Recs
      /\ presses \in 0 .. MaxPresses /\ failures \in 0 .. MaxFailures
      /\ reloads \in 0 .. MaxReloads
  BY DEF TypeOK, PinningTypes, EvictionTypes, DeletingTypes, CopyTypes
<1>n. {MaxPresses, MaxFailures, MaxReloads} \subseteq Nat /\ Recs \cup Statements = Hashes
      /\ \A r \in Recs : Listed[r] \subseteq Statements
  BY PinsAssumption DEF Hashes
<1>no. /\ NotPinning \in PinningTypes /\ NotDeleting \in DeletingTypes /\ NoCopy \in CopyTypes
  BY <1>n DEF NotPinning, NotDeleting, NoCopy, PinningTypes, DeletingTypes, CopyTypes
<1> SUFFICES
      /\ client' \in Clients /\ library' \subseteq Recs /\ pins' \subseteq Recs
      /\ kept' \in [Hashes -> {"nothing", "whole", "torn"}] /\ locked' \subseteq Hashes
      /\ pinning' \in [Recs -> PinningTypes] /\ evicting' \subseteq EvictionTypes
      /\ deleting' \in [Recs -> DeletingTypes] /\ copy' \in CopyTypes /\ asked' \subseteq Recs
      /\ presses' \in 0 .. MaxPresses /\ failures' \in 0 .. MaxFailures
      /\ reloads' \in 0 .. MaxReloads
  BY DEF TypeOK, PinningTypes, EvictionTypes, DeletingTypes, CopyTypes
<1>1. CASE UNCHANGED vars
  BY <1>0, <1>1 DEF vars
<1>2. ASSUME NEW r \in Recs, fetched(r)
      PROVE  /\ copy' \in CopyTypes /\ pinning' \in [Recs -> PinningTypes]
             /\ UNCHANGED <<client, library, pins, kept, locked, evicting, deleting, asked,
                            presses, failures, reloads>>
  <2>1. copy' \in CopyTypes
    BY <1>2, CopyTyped DEF fetched
  <2>2. pinning' \in [Recs -> PinningTypes]
    <3>1. [pinning[r] EXCEPT !.stage = "cache"] \in PinningTypes
      BY <1>0 DEF PinningTypes
    <3> QED BY <1>0, <1>2, <3>1 DEF fetched
  <2> QED BY <1>2, <2>1, <2>2 DEF fetched
<1>3. ASSUME copy' = NoCopy, NEW r \in Recs,
             \/ gaveUp(r) \/ cacheBlob(r) \/ pinned(r) \/ pin(r)
             \/ \E s \in Statements : keepStatement(r, s)
      PROVE  /\ pinning' \in [Recs -> PinningTypes]
             /\ kept' \in [Hashes -> {"nothing", "whole", "torn"}] /\ locked' \subseteq Hashes
             /\ failures' \in 0 .. MaxFailures /\ pins' \subseteq Recs
             /\ presses' \in 0 .. MaxPresses
             /\ UNCHANGED <<client, library, evicting, deleting, asked, reloads>>
  <2>1. CASE gaveUp(r)
    BY <1>0, <1>no, <2>1 DEF gaveUp, released
  <2>2. CASE cacheBlob(r)
    <3>1. [pinning[r] EXCEPT !.stage = "statements"] \in PinningTypes
          /\ [pinning[r] EXCEPT !.stage = "failed"] \in PinningTypes
      BY <1>0 DEF PinningTypes
    <3>2. pinning' \in [Recs -> PinningTypes]
      BY <1>0, <2>2, <3>1 DEF cacheBlob
    <3>3. Wrote(r) \/ FailedToWrite(r)
      BY <2>2 DEF cacheBlob
    <3> QED BY <1>0, <1>n, <2>2, <3>2, <3>3, WriteTyped DEF cacheBlob
  <2>3. CASE pinned(r)
    BY <1>0, <1>no, <2>3 DEF pinned, released
  <2>4. CASE pin(r)
    <3>1. [stage |-> "fetch", left |-> Listed[r]] \in PinningTypes
      BY <1>n DEF PinningTypes
    <3> QED BY <1>0, <1>n, <2>4, <3>1 DEF pin, Press
  <2>5. ASSUME NEW s \in Statements, keepStatement(r, s)
        PROVE  /\ pinning' \in [Recs -> PinningTypes]
               /\ kept' \in [Hashes -> {"nothing", "whole", "torn"}] /\ locked' \subseteq Hashes
               /\ failures' \in 0 .. MaxFailures
               /\ UNCHANGED <<client, library, pins, evicting, deleting, asked, presses,
                              reloads>>
    <3>1. [pinning[r] EXCEPT !.left = @ \ {s}] \in PinningTypes
      BY <1>0 DEF PinningTypes
    <3>2. pinning' \in [Recs -> PinningTypes]
      BY <1>0, <2>5, <3>1 DEF keepStatement
    <3>3. UNCHANGED <<kept, locked, failures>> \/ Wrote(s) \/ FailedToWrite(s)
      BY <2>5 DEF keepStatement
    <3>4. s \in Hashes
      BY <1>n
    <3>5. /\ kept' \in [Hashes -> {"nothing", "whole", "torn"}] /\ locked' \subseteq Hashes
          /\ failures' \in 0 .. MaxFailures
      BY <1>0, <3>3, <3>4, WriteTyped
    <3> QED BY <2>5, <3>2, <3>5 DEF keepStatement
  <2> QED BY <1>0, <1>3, <2>1, <2>2, <2>3, <2>4, <2>5
<1>4. ASSUME copy' = NoCopy, NEW r \in Recs,
             \/ unpin(r) \/ delete(r) \/ deleteRecording(r) \/ deletedEverywhere(r)
             \/ onDelete(r)
      PROVE  /\ library' \subseteq Recs /\ pins' \subseteq Recs
             /\ evicting' \subseteq EvictionTypes /\ deleting' \in [Recs -> DeletingTypes]
             /\ asked' \subseteq Recs /\ presses' \in 0 .. MaxPresses
             /\ UNCHANGED <<client, kept, locked, pinning, failures, reloads>>
  <2>p. \A st \in {"none", "own", "hosts", "unpinned"} :
           [deleting[r] EXCEPT !.stage = st] \in DeletingTypes
    BY <1>0 DEF DeletingTypes
  <2>1. CASE unpin(r)
    <3>1. presses' \in 0 .. MaxPresses /\ unpins(r, pins, presses')
      BY <1>0, <1>n, <2>1 DEF unpin, Press
    <3> DEFINE p == presses'
    <3>2. p \in 0 .. MaxPresses /\ unpins(r, pins, p)
      BY <3>1
    <3> HIDE DEF p
    <3>3. pins' \subseteq Recs /\ evicting' \subseteq EvictionTypes
      BY <1>0, <3>2, UnpinTyped
    <3> QED BY <1>0, <2>1, <3>1, <3>3 DEF unpin
  <2>2. CASE delete(r)
    <3>1. presses' \in 0 .. MaxPresses
      BY <1>0, <1>n, <2>2 DEF delete, Press
    <3>2. [stage |-> IF client = "electron" THEN "own" ELSE "hosts", saw |-> pins,
           press |-> presses'] \in DeletingTypes
      BY <1>0, <3>1 DEF DeletingTypes
    <3> QED BY <1>0, <2>2, <3>1, <3>2 DEF delete
  <2>3. CASE deleteRecording(r)
    BY <1>0, <1>no, <2>3, <2>p DEF deleteRecording
  <2>4. CASE deletedEverywhere(r)
    <3>1. deleting[r].saw \in SUBSET Recs /\ deleting[r].press \in 0 .. MaxPresses
      BY <1>0 DEF DeletingTypes
    <3>2. unpins(r, deleting[r].saw, deleting[r].press)
      BY <2>4 DEF deletedEverywhere
    <3>3. pins' \subseteq Recs /\ evicting' \subseteq EvictionTypes
      BY <3>1, <3>2, UnpinTyped
    <3> QED BY <1>0, <2>4, <2>p, <3>3 DEF deletedEverywhere
  <2>5. CASE onDelete(r)
    BY <1>0, <1>no, <2>5 DEF onDelete
  <2> QED BY <1>4, <2>1, <2>2, <2>3, <2>4, <2>5
<1>5. ASSUME copy' = NoCopy, NEW e \in evicting, evict(e)
      PROVE  /\ kept' \in [Hashes -> {"nothing", "whole", "torn"}]
             /\ evicting' \subseteq EvictionTypes
             /\ UNCHANGED <<client, library, pins, locked, pinning, deleting, asked, presses,
                            failures, reloads>>
  <2>1. kept' \in [Hashes -> {"nothing", "whole", "torn"}]
    BY <1>0, <1>5 DEF evict, evictCachedBlob
  <2>2. \A h \in e.left : [e EXCEPT !.now = h, !.left = @ \ {h}] \in EvictionTypes
    BY <1>0, <1>n DEF EvictionTypes
  <2>3. evicting' \subseteq EvictionTypes
    BY <1>0, <1>5, <2>2 DEF evict
  <2> QED BY <1>5, <2>1, <2>3 DEF evict
<1>6. ASSUME copy' = NoCopy, reload
      PROVE  /\ pinning' \in [Recs -> PinningTypes] /\ evicting' = {}
             /\ deleting' \in [Recs -> DeletingTypes] /\ locked' = {}
             /\ reloads' \in 0 .. MaxReloads
             /\ UNCHANGED <<client, library, pins, kept, asked, presses, failures>>
  <2>1. pinning' \in [Recs -> PinningTypes] /\ deleting' \in [Recs -> DeletingTypes]
    BY <1>6, <1>no DEF reload
  <2>2. reloads' \in 0 .. MaxReloads
    BY <1>0, <1>n, <1>6 DEF reload
  <2> QED BY <1>6, <2>1, <2>2 DEF reload
<1> QED BY <1>0, <1>no, <1>1, <1>2, <1>3, <1>4, <1>5, <1>6, StepCases

-----------------------------------------------------------------------------
(* The invariant. *)

\* The first state.
LEMMA InvInit ==
    ASSUME Init
    PROVE  Inv
<1>1. {MaxPresses, MaxFailures, MaxReloads} \subseteq Nat
  BY PinsAssumption
<1>2. \A r \in Recs : /\ pinning[r].stage = "none" /\ deleting[r].stage = "none"
                      /\ r \notin pins
  BY DEF Init, NotPinning, NotDeleting
<1>3. TypeOK
  BY <1>1 DEF Init, TypeOK, NotPinning, NotDeleting, NoCopy
<1>4. OneState /\ WasAsked /\ AudioKept
  BY <1>2 DEF OneState, WasAsked, AudioKept
<1>5. OthersSpared
  BY DEF Init, OthersSpared
<1> QED BY <1>3, <1>4, <1>5 DEF Inv

\* A recording is not pinned while it is being pinned: only the last step of a pin
\* makes it pinned, and the button starts one only where it is not.
LEMMA OneStateStep ==
    ASSUME Inv, [Next]_vars
    PROVE  OneState'
<1>0. pinning \in [Recs -> PinningTypes] /\ OneState
  BY DEF Inv, TypeOK, PinningTypes
<1> SUFFICES ASSUME NEW q \in Recs, pinning'[q].stage # "none" PROVE q \notin pins'
  BY DEF OneState
<1>1. CASE UNCHANGED vars
  BY <1>0, <1>1 DEF vars, OneState
<1>2. ASSUME NEW r \in Recs,
             \/ fetched(r) \/ cacheBlob(r) \/ \E s \in Statements : keepStatement(r, s)
      PROVE  q \notin pins'
  <2>1. pinning[r].stage # "none" /\ pins' = pins
    BY <1>2 DEF fetched, cacheBlob, keepStatement
  <2>2. q # r => pinning'[q] = pinning[q]
    BY <1>0, <1>2 DEF fetched, cacheBlob, keepStatement
  <2> QED BY <1>0, <2>1, <2>2 DEF OneState
<1>3. ASSUME NEW r \in Recs, gaveUp(r) \/ pinned(r) PROVE q \notin pins'
  <2>1. pinning' = [pinning EXCEPT ![r] = NotPinning]
    BY <1>3 DEF gaveUp, pinned, released
  <2>2. q # r /\ pinning'[q] = pinning[q]
    BY <1>0, <2>1 DEF NotPinning
  <2>3. pins' \subseteq pins \cup {r}
    BY <1>3 DEF gaveUp, pinned
  <2> QED BY <1>0, <2>2, <2>3 DEF OneState
<1>4. ASSUME NEW r \in Recs, pin(r) PROVE q \notin pins'
  <2>1. r \notin pins /\ pins' = pins
    BY <1>4 DEF pin, pinState
  <2>2. q # r => pinning'[q] = pinning[q]
    BY <1>0, <1>4 DEF pin
  <2> QED BY <1>0, <2>1, <2>2 DEF OneState
<1>5. ASSUME NEW r \in Recs,
             unpin(r) \/ delete(r) \/ deleteRecording(r) \/ deletedEverywhere(r) \/ onDelete(r)
      PROVE  q \notin pins'
  <2>1. pinning' = pinning /\ pins' \subseteq pins
    BY <1>5 DEF unpin, unpins, delete, deleteRecording, deletedEverywhere, onDelete
  <2> QED BY <1>0, <2>1 DEF OneState
<1>6. ASSUME NEW e \in evicting, evict(e) PROVE q \notin pins'
  BY <1>0, <1>6 DEF evict, OneState
<1>7. CASE reload
  BY <1>7 DEF reload, NotPinning
<1> QED BY <1>1, <1>2, <1>3, <1>4, <1>5, <1>6, <1>7, StepCases

\* A delete is under way only where one was pressed.
LEMMA WasAskedStep ==
    ASSUME Inv, [Next]_vars
    PROVE  WasAsked'
<1>0. deleting \in [Recs -> DeletingTypes] /\ WasAsked
  BY DEF Inv, TypeOK, DeletingTypes
<1> SUFFICES ASSUME NEW q \in Recs, deleting'[q].stage # "none" PROVE q \in asked'
  BY DEF WasAsked
<1>1. CASE deleting' = deleting /\ asked' = asked
  BY <1>0, <1>1 DEF WasAsked
<1>2. ASSUME NEW r \in Recs, delete(r) PROVE q \in asked'
  <2>1. q # r => deleting'[q] = deleting[q]
    BY <1>0, <1>2 DEF delete
  <2> QED BY <1>0, <1>2, <2>1 DEF delete, WasAsked
<1>3. ASSUME NEW r \in Recs, deleteRecording(r) \/ deletedEverywhere(r) \/ onDelete(r)
      PROVE  q \in asked'
  <2>1. deleting[r].stage # "none" /\ asked' = asked
    BY <1>3 DEF deleteRecording, deletedEverywhere, onDelete
  <2>2. q # r => deleting'[q] = deleting[q]
    BY <1>0, <1>3 DEF deleteRecording, deletedEverywhere, onDelete
  <2> QED BY <1>0, <2>1, <2>2 DEF WasAsked
<1>4. CASE reload
  BY <1>4 DEF reload, NotDeleting
<1>5. ASSUME NEW r \in Recs,
             \/ fetched(r) \/ gaveUp(r) \/ cacheBlob(r) \/ pinned(r) \/ pin(r) \/ unpin(r)
             \/ \E s \in Statements : keepStatement(r, s)
      PROVE  deleting' = deleting /\ asked' = asked
  BY <1>5 DEF fetched, gaveUp, cacheBlob, pinned, pin, unpin, keepStatement
<1>6. ASSUME NEW e \in evicting, evict(e) PROVE deleting' = deleting /\ asked' = asked
  BY <1>6 DEF evict
<1>7. CASE UNCHANGED vars
  BY <1>1, <1>7 DEF vars
<1> QED BY <1>1, <1>2, <1>3, <1>4, <1>5, <1>6, <1>7, StepCases

\* An eviction never holds what a pin it left holds: it is decided once, at the
\* press, and it only shrinks.
LEMMA OthersSparedStep ==
    ASSUME Inv, [Next]_vars
    PROVE  OthersSpared'
<1>0. evicting \subseteq EvictionTypes /\ OthersSpared
  BY DEF Inv, TypeOK, EvictionTypes
<1> DEFINE Spares(e) == ({e.now} \cup e.left) \cap heldHashes(e.remaining) = {}
<1>a. \A e \in evicting : Spares(e)
  BY <1>0 DEF OthersSpared
<1>b. (\A e \in evicting' : Spares(e)) => OthersSpared'
  BY DEF OthersSpared, heldHashes
<1>1. ASSUME evicting' \subseteq evicting PROVE OthersSpared'
  BY <1>a, <1>b, <1>1
<1>2. ASSUME NEW r \in Recs, NEW saw, NEW press, unpins(r, saw, press) PROVE OthersSpared'
  <2> DEFINE e == [of |-> r, press |-> press, now |-> r, left |-> toEvict(r, saw) \ {r},
                   remaining |-> saw \ {r}]
  <2>1. CASE r \in toEvict(r, saw)
    <3>1. toEvict(r, saw) \cap heldHashes(saw \ {r}) = {}
      BY DEF toEvict
    <3>2. Spares(e)
      BY <2>1, <3>1
    <3>3. evicting' = evicting \cup {e}
      BY <1>2, <2>1 DEF unpins
    <3> HIDE DEF e, Spares
    <3> QED BY <1>a, <1>b, <3>2, <3>3
  <2>2. CASE r \notin toEvict(r, saw)
    BY <1>1, <1>2, <2>2 DEF unpins
  <2> QED BY <2>1, <2>2
<1>3. ASSUME NEW e \in evicting, evict(e) PROVE OthersSpared'
  <2>1. CASE evicting' = evicting \ {e}
    BY <1>1, <2>1
  <2>2. ASSUME NEW h \in e.left,
               evicting' = (evicting \ {e}) \cup {[e EXCEPT !.now = h, !.left = @ \ {h}]}
        PROVE  OthersSpared'
    <3> DEFINE f == [e EXCEPT !.now = h, !.left = @ \ {h}]
    <3>1. e \in EvictionTypes
      BY <1>0
    <3>2. f.now = h /\ f.left = e.left \ {h} /\ f.remaining = e.remaining
      BY ONLY <3>1 DEF EvictionTypes
    <3>3. Spares(e)
      BY <1>a
    <3>4. Spares(f)
      <4> HIDE DEF f
      <4> QED BY <3>2, <3>3
    <3> HIDE DEF f, Spares
    <3>5. evicting' = (evicting \ {e}) \cup {f}
      BY <2>2 DEF f
    <3> QED BY <1>a, <1>b, <3>4, <3>5
  <2> QED BY <1>3, <2>1, <2>2 DEF evict
<1>4. ASSUME NEW r \in Recs,
             \/ fetched(r) \/ gaveUp(r) \/ cacheBlob(r) \/ pinned(r) \/ pin(r)
             \/ delete(r) \/ deleteRecording(r) \/ onDelete(r)
             \/ \E s \in Statements : keepStatement(r, s)
      PROVE  evicting' = evicting
  BY <1>4 DEF fetched, gaveUp, cacheBlob, pinned, pin, delete, deleteRecording, onDelete,
              keepStatement
<1>5. ASSUME NEW r \in Recs, unpin(r) \/ deletedEverywhere(r) PROVE OthersSpared'
  <2>1. CASE unpin(r)
    <3> DEFINE p == presses'
    <3>1. unpins(r, pins, p)
      BY <2>1 DEF unpin
    <3> HIDE DEF p
    <3> QED BY <1>2, <3>1
  <2>2. CASE deletedEverywhere(r)
    BY <1>2, <2>2 DEF deletedEverywhere
  <2> QED BY <1>5, <2>1, <2>2
<1>6. reload => evicting' = {}
  BY DEF reload
<1>7. CASE UNCHANGED vars
  BY <1>1, <1>7 DEF vars
<1> QED BY <1>1, <1>3, <1>4, <1>5, <1>6, <1>7, StepCases

\* A write of one file does nothing to another.
LEMMA WriteLeavesOthers ==
    ASSUME TypeOK, NEW h \in Hashes, Wrote(h) \/ FailedToWrite(h), NEW g \in Hashes, g # h
    PROVE  kept'[g] = kept[g]
BY DEF Wrote, FailedToWrite, TypeOK

\* The audio of a pin is written before it is pinned, with no delete before it in the
\* queue; from then on nothing writes it, and only what drops the pin deletes it.
LEMMA AudioKeptStep ==
    ASSUME Inv, [Next]_vars
    PROVE  AudioKept'
<1>0. /\ pinning \in [Recs -> PinningTypes] /\ evicting \subseteq EvictionTypes /\ TypeOK
      /\ kept \in [Hashes -> {"nothing", "whole", "torn"}] /\ OneState /\ WasAsked
  BY DEF Inv, TypeOK, PinningTypes, EvictionTypes
<1>s. Recs \subseteq Hashes /\ Statements \subseteq Hashes /\ Recs \cap Statements = {}
  BY PinsAssumption DEF Hashes
<1> DEFINE Promised(q) == q \in pins \/ pinning[q].stage = "statements"
           Safe(q) == kept[q] = "whole" /\ \A e \in evicting : e.now # q
<1>c. client' = client /\ asked \subseteq asked'
  <2>1. ASSUME NEW r \in Recs,
               \/ fetched(r) \/ gaveUp(r) \/ cacheBlob(r) \/ pinned(r) \/ pin(r) \/ unpin(r)
               \/ delete(r) \/ deleteRecording(r) \/ deletedEverywhere(r) \/ onDelete(r)
               \/ \E s \in Statements : keepStatement(r, s)
        PROVE  client' = client /\ asked \subseteq asked'
    BY <2>1 DEF fetched, gaveUp, cacheBlob, pinned, pin, unpin, delete, deleteRecording,
                deletedEverywhere, onDelete, keepStatement
  <2>2. (\E e \in evicting : evict(e)) \/ reload \/ UNCHANGED vars
          => client' = client /\ asked \subseteq asked'
    BY DEF evict, reload, vars
  <2> QED BY <2>1, <2>2, StepCases
<1> SUFFICES ASSUME client = "web", NEW q \in Recs, q \notin asked, q \notin asked',
                    q \in pins' \/ pinning'[q].stage = "statements"
             PROVE  kept'[q] = "whole" /\ \A e \in evicting' : e.now # q
  BY <1>c DEF AudioKept
<1>a. Promised(q) => Safe(q)
  BY DEF Inv, AudioKept
<1>1. ASSUME Promised(q), kept'[q] = kept[q], evicting' = evicting
      PROVE  kept'[q] = "whole" /\ \A e \in evicting' : e.now # q
  BY <1>a, <1>1
<1>2. ASSUME NEW r \in Recs,
             \/ fetched(r) \/ gaveUp(r) \/ pinned(r) \/ pin(r) \/ delete(r)
             \/ deleteRecording(r) \/ onDelete(r)
      PROVE  Promised(q) /\ kept'[q] = kept[q] /\ evicting' = evicting
  <2>1. kept' = kept /\ evicting' = evicting
    BY <1>2 DEF fetched, gaveUp, pinned, pin, delete, deleteRecording, onDelete
  <2>2. CASE fetched(r)
    BY <1>0, <2>2 DEF fetched
  <2>3. CASE gaveUp(r)
    BY <1>0, <2>3 DEF gaveUp, released, NotPinning
  <2>4. CASE pinned(r)
    BY <1>0, <2>4 DEF pinned, released, NotPinning
  <2>5. CASE pin(r)
    BY <1>0, <2>5 DEF pin
  <2>6. CASE delete(r) \/ deleteRecording(r) \/ onDelete(r)
    BY <2>6 DEF delete, deleteRecording, onDelete
  <2> QED BY <1>2, <2>1, <2>2, <2>3, <2>4, <2>5, <2>6
<1>3. ASSUME NEW r \in Recs, cacheBlob(r)
      PROVE  kept'[q] = "whole" /\ \A e \in evicting' : e.now # q
  <2>1. evicting' = evicting /\ pins' = pins /\ pinning[r].stage = "cache"
    BY <1>3 DEF cacheBlob
  <2>2. CASE q # r
    <3>1. Promised(q)
      BY <1>0, <1>3, <2>2 DEF cacheBlob
    <3>2. Wrote(r) \/ FailedToWrite(r)
      BY <1>3 DEF cacheBlob
    <3>3. kept'[q] = kept[q]
      BY <1>0, <1>s, <2>2, <3>2, WriteLeavesOthers
    <3> QED BY <1>1, <2>1, <3>1, <3>3
  <2>3. CASE q = r
    <3>1. q \notin pins'
      BY <1>0, <2>1, <2>3 DEF OneState
    <3>2. pinning'[q].stage = "statements"
      BY <3>1
    <3>3. Wrote(q)
      <4>1. CASE FailedToWrite(r) /\ pinning' = [pinning EXCEPT ![r].stage = "failed"]
        BY <1>0, <2>3, <3>2, <4>1 DEF PinningTypes
      <4> QED BY <1>3, <2>3, <4>1 DEF cacheBlob, notices
    <3>4. kept'[q] = "whole" /\ \A e \in evicting : e.now # q
      BY <1>0, <1>s, <3>3 DEF Wrote, InTurn
    <3> QED BY <2>1, <3>4
  <2> QED BY <2>2, <2>3
<1>4. ASSUME NEW r \in Recs, NEW s \in Statements, keepStatement(r, s)
      PROVE  Promised(q) /\ kept'[q] = kept[q] /\ evicting' = evicting
  <2>1. Promised(q)
    BY <1>0, <1>4 DEF keepStatement, PinningTypes
  <2>2. UNCHANGED <<kept, locked, failures>> \/ Wrote(s) \/ FailedToWrite(s)
    BY <1>4 DEF keepStatement
  <2>3. kept'[q] = kept[q]
    BY <1>0, <1>s, <2>2, WriteLeavesOthers
  <2> QED BY <1>4, <2>1, <2>3 DEF keepStatement
<1>5. ASSUME NEW r \in Recs, NEW saw, NEW press, unpins(r, saw, press), q # r,
             kept' = kept, pinning' = pinning
      PROVE  kept'[q] = "whole" /\ \A e \in evicting' : e.now # q
  <2>1. Promised(q)
    BY <1>5 DEF unpins
  <2> DEFINE e == [of |-> r, press |-> press, now |-> r, left |-> toEvict(r, saw) \ {r},
                   remaining |-> saw \ {r}]
  <2>2. evicting' = evicting \/ evicting' = evicting \cup {e}
    BY <1>5 DEF unpins
  <2>3. e.now # q
    BY <1>5
  <2> HIDE DEF e
  <2> QED BY <1>5, <1>a, <2>1, <2>2, <2>3
<1>6. ASSUME NEW r \in Recs, unpin(r)
      PROVE  kept'[q] = "whole" /\ \A e \in evicting' : e.now # q
  <2> DEFINE p == presses'
  <2>1. unpins(r, pins, p) /\ kept' = kept /\ pinning' = pinning
    BY <1>6 DEF unpin
  <2>2. pinning[r].stage = "none" /\ r \notin pins'
    BY <1>6 DEF unpin, unpins, pinState
  <2> HIDE DEF p
  <2> QED BY <1>5, <2>1, <2>2
<1>7. ASSUME NEW r \in Recs, deletedEverywhere(r)
      PROVE  kept'[q] = "whole" /\ \A e \in evicting' : e.now # q
  <2>1. r \in asked
    BY <1>0, <1>7 DEF deletedEverywhere, WasAsked
  <2> QED BY <1>5, <1>7, <2>1 DEF deletedEverywhere
<1>8. ASSUME NEW e \in evicting, evict(e)
      PROVE  kept'[q] = "whole" /\ \A f \in evicting' : f.now # q
  <2>1. pins' = pins /\ pinning' = pinning
    BY <1>8 DEF evict
  <2>2. Promised(q) /\ e.now # q
    BY <1>a, <2>1
  <2>3. kept'[q] = kept[q]
    BY <1>0, <1>s, <1>8, <2>2 DEF evict, evictCachedBlob
  <2>4. e \in EvictionTypes
    BY <1>0
  <2>5. \A h \in e.left : [e EXCEPT !.now = h, !.left = @ \ {h}].now = h /\ h # q
    <3> SUFFICES ASSUME NEW h \in e.left
                 PROVE  [e EXCEPT !.now = h, !.left = @ \ {h}].now = h /\ h # q
      OBVIOUS
    <3>1. [e EXCEPT !.now = h, !.left = @ \ {h}].now = h
      BY ONLY <2>4 DEF EvictionTypes
    <3>2. h \in Statements
      BY <2>4 DEF EvictionTypes
    <3> QED BY <1>s, <3>1, <3>2
  <2>6. \A f \in evicting' : f.now # q
    <3>1. CASE evicting' = evicting \ {e}
      BY <1>a, <2>2, <3>1
    <3>2. ASSUME NEW h \in e.left,
                 evicting' = (evicting \ {e}) \cup {[e EXCEPT !.now = h, !.left = @ \ {h}]}
          PROVE  \A f \in evicting' : f.now # q
      <4> DEFINE g == [e EXCEPT !.now = h, !.left = @ \ {h}]
      <4>1. g.now # q
        BY <2>5
      <4>2. evicting' = (evicting \ {e}) \cup {g}
        BY <3>2
      <4> HIDE DEF g
      <4> QED BY <1>a, <2>2, <4>1, <4>2
    <3> QED BY <1>8, <3>1, <3>2 DEF evict
  <2> QED BY <1>a, <2>2, <2>3, <2>6
<1>9. ASSUME reload
      PROVE  kept'[q] = "whole" /\ \A e \in evicting' : e.now # q
  <2>1. pinning'[q].stage # "statements" /\ pins' = pins /\ kept' = kept /\ evicting' = {}
    BY <1>9 DEF reload, NotPinning
  <2> QED BY <1>a, <2>1
<1>10. CASE UNCHANGED vars
  BY <1>1, <1>10 DEF vars
<1> QED BY <1>1, <1>2, <1>3, <1>4, <1>6, <1>7, <1>8, <1>9, <1>10, StepCases

\* The invariant is inductive.
LEMMA InvNext ==
    ASSUME Inv, [Next]_vars
    PROVE  Inv'
<1>1. TypeOK'
  BY TypeStep DEF Inv
<1> QED BY <1>1, OneStateStep, WasAskedStep, AudioKeptStep, OthersSparedStep DEF Inv

\* So it holds of every behaviour.
LEMMA Invariant == Spec => []Inv
<1>1. Init => Inv
  BY InvInit
<1>2. Inv /\ [Next]_vars => Inv'
  BY InvNext
<1> QED BY <1>1, <1>2, PTL DEF Spec

-----------------------------------------------------------------------------
(* The theorems. *)

\* Whatever is pressed, fails or is reloaded, pins, cache, evictions, deletes and
\* copies keep their types.
THEOREM TypeCorrect == Spec => []TypeOK
<1>1. Inv => TypeOK
  BY DEF Inv
<1> QED BY <1>1, Invariant, PTL

\* On a guest every pin no delete was pressed on has its audio whole in the cache,
\* however pins, unpins, deletes, failing writes and reloads overlap (PinContext.tsx).
THEOREM PinsKeepTheirAudio == Spec => []GuestPromiseKept
<1>1. Inv => GuestPromiseKept
  BY DEF Inv, TypeOK, AudioKept, GuestPromiseKept
<1> QED BY <1>1, Invariant, PTL

\* What an unpin deletes is held by no pin that stood when it was pressed and still
\* stands (PinContext.tsx, stillHeld).
THEOREM StandingPinsStay == Spec => StandingPinsSpared
<1>1. Inv /\ [Next]_vars =>
        [\A e \in evicting : evict(e) =>
           \A q \in (e.remaining \cap pins) \ {e.of} : e.now \notin {q} \cup Listed[q]]_vars
  <2> SUFFICES ASSUME Inv, NEW e \in evicting,
                      NEW q \in (e.remaining \cap pins) \ {e.of}
               PROVE  e.now \notin {q} \cup Listed[q]
    OBVIOUS
  <2>1. {q} \cup Listed[q] \subseteq heldHashes(e.remaining)
    BY DEF heldHashes
  <2> QED BY <2>1 DEF Inv, OthersSpared
<1> QED BY <1>1, Invariant, PTL DEF Spec, StandingPinsSpared

\* A host that takes the audio takes every statement it is sent but one that rests on
\* one that could not be fetched or copied (blobClient.ts, rank).
THEOREM CopiesGoInOrder == Spec => []CopiedInOrder
<1>1. Init => CopiedInOrder
  BY DEF Init, NoCopy, CopiedInOrder, ToSet
<1>2. (copy' = NoCopy) => CopiedInOrder'
  BY DEF NoCopy, CopiedInOrder, ToSet
<1>3. ASSUME NEW r \in Recs, replicateBlob(r) PROVE CopiedInOrder'
  <2>1. ASSUME NEW sent \in fetchStatements[r], NEW failed \in SUBSET ToSet(sent),
               copy' = copyBlob(sent, failed)
        PROVE  CopiedInOrder'
    <3>1. sent \in Seq(Statements) /\ InOrder(sent)
      BY FetchedAreStatements
    <3>2. \A s \in ToSet(sent) \ (Stored(sent, failed) \cup failed) :
             \E k \in Needs(s) : \A t \in ToSet(sent) :
                Kind[t] = k => t \notin Stored(sent, failed)
      BY <3>1, OrderedCopy
    <3>3. /\ copy'.sent = sent /\ copy'.stored = Stored(sent, failed)
          /\ copy'.failed = failed
      BY <2>1 DEF copyBlob
    <3> QED BY <3>2, <3>3 DEF CopiedInOrder
  <2> QED BY <1>2, <1>3, <2>1 DEF replicateBlob
<1>4. CopiedInOrder /\ [Next]_vars => CopiedInOrder'
  <2> SUFFICES ASSUME CopiedInOrder, [Next]_vars PROVE CopiedInOrder'
    OBVIOUS
  <2>1. CASE UNCHANGED vars
    <3>1. copy' = copy
      BY <2>1 DEF vars
    <3> QED BY <3>1 DEF CopiedInOrder
  <2> QED BY <1>2, <1>3, <2>1, StepCases DEF fetched
<1> QED BY <1>1, <1>4, PTL DEF Spec

=============================================================================
