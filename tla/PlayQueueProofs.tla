----------------------------- MODULE PlayQueueProofs -----------------------------
(***************************************************************************)
(* Proofs about PlayQueue: no play is lost without a trace, the queues     *)
(* stay in the order the plays finished, and none waits with nobody to     *)
(* send it.                                                                *)
(*                                                                         *)
(* And about SyncServer, which the plays are sent to: no more than one     *)
(* server stands, and once the pushes are delivered a panel of connected   *)
(* devices shows whom the host lists.                                      *)
(***************************************************************************)
EXTENDS PlayQueue, SyncServer, FiniteSetTheorems, SequenceTheorems, WellFoundedInduction, TLAPS

\* A queue holds plays that were recorded, in order.
Recorded == \A h \in Hosts : \A i \in 1 .. Len(queue[h]) : queue[h][i] <= plays

\* What a host has answered for it has taken, but for what the tab is to keep.
AnswersStand ==
    \A t \in Tabs, h \in Hosts :
        flight[t][h].stage = "answered" =>
            ToSet(flight[t][h].batch) \ flight[t][h].keep \subseteq taken[h]

\* Tab t will send play e to host h.
SeesTo(t, h, e) ==
    IF Open(t, h) THEN e \in ToSet(flight[t][h].batch) \/ h \in pending[t]
                  ELSE h \in timers[t]

\* Every queued play has such a tab, while every tab is open and knows the host.
EachIsSeenTo ==
    \A h \in Hosts : Attended(h) =>
        \A e \in ToSet(queue[h]) : \E t \in Tabs : SeesTo(t, h, e)

Inv ==
    /\ TypeOK /\ QueueInOrder /\ Recorded
    /\ AnswersStand /\ PlaysAccountedFor /\ EachIsSeenTo
-----------------------------------------------------------------------------
(***************************************************************************)
(* What Filtered returns.  Its recursion is unfolded by hand, along the    *)
(* least position at which a claim would fail.                             *)
(***************************************************************************)
LEMMA LeastNat ==
    ASSUME NEW T \in SUBSET Nat, T # {}
    PROVE  \E x \in T : \A y \in T : x <= y
<1>1. PICK x \in T : \A y \in T : ~(<<y, x>> \in OpToRel(<, Nat))
  BY NatLessThanWellFounded, WFMin
<1>2. \A y \in T : ~(y < x)
  BY <1>1 DEF OpToRel
<1>3. x \in Nat /\ \A y \in T : y \in Nat
  OBVIOUS
<1>4. \A y \in T : x <= y
  BY <1>2, <1>3
<1> QED BY <1>4

\* kept, as far as position n.
KeptUpTo(q, S, n, f) ==
    f = [i \in 0 .. n |-> IF i = 0 THEN <<>>
                          ELSE IF q[i] \in S THEN Append(f[i - 1], q[i])
                                             ELSE f[i - 1]]

LEMMA KeptExists ==
    ASSUME NEW q, NEW S, NEW n \in Nat
    PROVE  \E f : KeptUpTo(q, S, n, f)
<1> SUFFICES ASSUME ~ \E f : KeptUpTo(q, S, n, f) PROVE FALSE
  OBVIOUS
<1> DEFINE T == {k \in Nat : ~ \E f : KeptUpTo(q, S, k, f)}
<1>1. PICK k \in T : \A j \in T : k <= j
  <2>1. T \in SUBSET Nat /\ T # {}
    OBVIOUS
  <2> HIDE DEF T
  <2> QED BY <2>1, LeastNat
<1>2. CASE k = 0
  <2>1. KeptUpTo(q, S, 0, [i \in 0 .. 0 |-> <<>>])
    BY DEF KeptUpTo
  <2> QED BY <1>1, <1>2, <2>1
<1>3. CASE k > 0
  <2>1. k - 1 \in Nat /\ k - 1 \notin T
    BY <1>1, <1>3
  <2>2. PICK f : KeptUpTo(q, S, k - 1, f)
    BY <2>1
  <2> DEFINE g == [i \in 0 .. k |->
                     IF i < k THEN f[i]
                     ELSE IF q[k] \in S THEN Append(f[k - 1], q[k]) ELSE f[k - 1]]
  <2>3. \A i \in 0 .. k : g[i] = IF i = 0 THEN <<>>
                                 ELSE IF q[i] \in S THEN Append(g[i - 1], q[i]) ELSE g[i - 1]
    <3> SUFFICES ASSUME NEW i \in 0 .. k
                 PROVE  g[i] = IF i = 0 THEN <<>>
                               ELSE IF q[i] \in S THEN Append(g[i - 1], q[i]) ELSE g[i - 1]
      OBVIOUS
    <3>1. CASE i < k
      <4>1. i \in 0 .. k - 1 /\ g[i] = f[i]
        BY <3>1, <1>1
      <4>2. f[i] = IF i = 0 THEN <<>>
                   ELSE IF q[i] \in S THEN Append(f[i - 1], q[i]) ELSE f[i - 1]
        BY <2>2, <4>1 DEF KeptUpTo
      <4>3. i # 0 => g[i - 1] = f[i - 1]
        BY <3>1, <1>1
      <4> QED BY <4>1, <4>2, <4>3
    <3>2. CASE i = k
      <4>1. g[k - 1] = f[k - 1] /\ k # 0
        BY <1>1, <1>3
      <4>2. g[i] = IF q[k] \in S THEN Append(f[k - 1], q[k]) ELSE f[k - 1]
        BY <3>2, <1>1
      <4> QED BY <3>2, <4>1, <4>2
    <3> QED BY <1>1, <3>1, <3>2
  <2>4. KeptUpTo(q, S, k, g)
    BY <2>3 DEF KeptUpTo
  <2> QED BY <1>1, <2>4
<1> QED BY <1>1, <1>2, <1>3

LEMMA FilteredIsKept ==
    ASSUME NEW P, NEW q \in Seq(P), NEW S
    PROVE  \E f : KeptUpTo(q, S, Len(q), f) /\ Filtered(q, S) = f[Len(q)]
<1> DEFINE kept == CHOOSE f : KeptUpTo(q, S, Len(q), f)
<1>1. KeptUpTo(q, S, Len(q), kept)
  <2>1. \E f : KeptUpTo(q, S, Len(q), f)
    <3>1. Len(q) \in Nat
      BY LenProperties
    <3> QED BY <3>1, KeptExists
  <2> QED BY <2>1
<1>2. Filtered(q, S) = kept[Len(q)]
  BY DEF Filtered, KeptUpTo
<1> QED BY <1>1, <1>2

\* What is kept of q up to position i: members of S, no more than i of them, all
\* of them, and in order when q is.
KeptRight(q, S, P, k, i) ==
    /\ k \in Seq(P) /\ Len(k) <= i
    /\ \A m \in 1 .. Len(k) : \E j \in 1 .. i : k[m] = q[j] /\ q[j] \in S
    /\ \A j \in 1 .. i : q[j] \in S => \E m \in 1 .. Len(k) : k[m] = q[j]
    /\ (\A j, l \in 1 .. Len(q) : j < l => q[j] < q[l]) =>
          \A j, l \in 1 .. Len(k) : j < l => k[j] < k[l]

LEMMA KeptStep ==
    ASSUME NEW P \in SUBSET Nat, NEW q \in Seq(P), NEW S, NEW i \in 1 .. Len(q), NEW k,
           KeptRight(q, S, P, k, i - 1)
    PROVE  KeptRight(q, S, P, IF q[i] \in S THEN Append(k, q[i]) ELSE k, i)
<1>1. k \in Seq(P) /\ Len(k) \in Nat /\ q[i] \in P /\ Len(q) \in Nat
  BY LenProperties, ElementOfSeq DEF KeptRight
<1>2. \A j \in 1 .. i : j \in 1 .. i - 1 \/ j = i
  BY <1>1
<1>3. CASE q[i] \notin S
  BY <1>1, <1>2, <1>3 DEF KeptRight
<1>4. CASE q[i] \in S
  <2> DEFINE a == Append(k, q[i])
  <2>1. a \in Seq(P) /\ Len(a) = Len(k) + 1 /\ a[Len(k) + 1] = q[i]
        /\ \A m \in 1 .. Len(k) : a[m] = k[m]
    BY <1>1, AppendProperties
  <2> HIDE DEF a
  <2>2. \A m \in 1 .. Len(a) : m \in 1 .. Len(k) \/ m = Len(k) + 1
    BY <1>1, <2>1
  <2>3. a \in Seq(P) /\ Len(a) <= i
    BY <1>1, <2>1 DEF KeptRight
  <2>4. \A m \in 1 .. Len(a) : \E j \in 1 .. i : a[m] = q[j] /\ q[j] \in S
    <3> SUFFICES ASSUME NEW m \in 1 .. Len(a) PROVE \E j \in 1 .. i : a[m] = q[j] /\ q[j] \in S
      OBVIOUS
    <3>1. CASE m \in 1 .. Len(k)
      <4>1. PICK j \in 1 .. i - 1 : k[m] = q[j] /\ q[j] \in S
        BY <3>1 DEF KeptRight
      <4>2. j \in 1 .. i
        BY <1>1, <4>1
      <4> QED BY <2>1, <3>1, <4>1, <4>2
    <3>2. CASE m = Len(k) + 1
      <4>1. a[m] = q[i] /\ i \in 1 .. i
        BY <1>1, <2>1, <3>2
      <4> QED BY <1>4, <4>1
    <3> QED BY <2>2, <3>1, <3>2
  <2>5. \A j \in 1 .. i : q[j] \in S => \E m \in 1 .. Len(a) : a[m] = q[j]
    <3> SUFFICES ASSUME NEW j \in 1 .. i, q[j] \in S PROVE \E m \in 1 .. Len(a) : a[m] = q[j]
      OBVIOUS
    <3>1. CASE j \in 1 .. i - 1
      BY <1>1, <2>1, <3>1 DEF KeptRight
    <3>2. CASE j = i
      BY <1>1, <2>1, <3>2
    <3> QED BY <1>2, <3>1, <3>2
  <2>6. ASSUME \A j, l \in 1 .. Len(q) : j < l => q[j] < q[l]
        PROVE  \A j, l \in 1 .. Len(a) : j < l => a[j] < a[l]
    <3> SUFFICES ASSUME NEW j \in 1 .. Len(a), NEW l \in 1 .. Len(a), j < l PROVE a[j] < a[l]
      OBVIOUS
    <3>1. j \in 1 .. Len(k)
      BY <1>1, <2>1, <2>2
    <3>2. CASE l \in 1 .. Len(k)
      BY <2>1, <2>6, <3>1, <3>2 DEF KeptRight
    <3>3. CASE l = Len(k) + 1
      <4>1. PICK x \in 1 .. i - 1 : k[j] = q[x]
        BY <3>1 DEF KeptRight
      <4>2. q[x] < q[i]
        BY <1>1, <2>6, <4>1
      <4> QED BY <2>1, <3>1, <3>3, <4>1, <4>2
    <3> QED BY <2>2, <3>2, <3>3
  <2>7. KeptRight(q, S, P, a, i)
    BY <2>3, <2>4, <2>5, <2>6 DEF KeptRight
  <2> QED BY <1>4, <2>7 DEF a
<1> QED BY <1>3, <1>4

LEMMA FilteredRight ==
    ASSUME NEW P \in SUBSET Nat, NEW q \in Seq(P), NEW S
    PROVE  KeptRight(q, S, P, Filtered(q, S), Len(q))
<1>1. PICK f : KeptUpTo(q, S, Len(q), f) /\ Filtered(q, S) = f[Len(q)]
  BY FilteredIsKept
<1>2. Len(q) \in Nat
  BY LenProperties
<1> DEFINE T == {i \in 0 .. Len(q) : ~KeptRight(q, S, P, f[i], i)}
<1>3. T = {}
  <2> SUFFICES ASSUME T # {} PROVE FALSE
    OBVIOUS
  <2>1. T \in SUBSET Nat
    BY <1>2
  <2>2. PICK i \in T : \A j \in T : i <= j
    <3> HIDE DEF T
    <3> QED BY <2>1, LeastNat
  <2>3. i \in 0 .. Len(q) /\ ~KeptRight(q, S, P, f[i], i)
    BY <2>2
  <2>4. CASE i = 0
    <3>1. f[0] = <<>>
      BY <1>1, <1>2 DEF KeptUpTo
    <3>2. KeptRight(q, S, P, <<>>, 0)
      BY DEF KeptRight
    <3> QED BY <2>3, <2>4, <3>1, <3>2
  <2>5. CASE i # 0
    <3>1. i \in 1 .. Len(q) /\ i - 1 \in 0 .. Len(q) /\ i - 1 \notin T
      BY <1>2, <2>2, <2>3, <2>5
    <3>2. f[i] = IF q[i] \in S THEN Append(f[i - 1], q[i]) ELSE f[i - 1]
      BY <1>1, <1>2, <2>5, <3>1 DEF KeptUpTo
    <3>3. KeptRight(q, S, P, f[i - 1], i - 1)
      BY <3>1
    <3>4. KeptRight(q, S, P, f[i], i)
      BY <3>1, <3>2, <3>3, KeptStep
    <3> QED BY <2>3, <3>4
  <2> QED BY <2>4, <2>5
<1>4. Len(q) \in 0 .. Len(q)
  BY <1>2
<1> QED BY <1>1, <1>3, <1>4

\* What each reading of the stored queue, and each write, does to its members.
LEMMA FilteredQueue ==
    ASSUME NEW q \in Seq(Plays), NEW S
    PROVE  /\ Filtered(q, S) \in Seq(Plays) /\ Len(Filtered(q, S)) <= Len(q)
           /\ ToSet(Filtered(q, S)) = ToSet(q) \cap S
           /\ (\A i, j \in 1 .. Len(q) : i < j => q[i] < q[j]) =>
                 \A i, j \in 1 .. Len(Filtered(q, S)) :
                    i < j => Filtered(q, S)[i] < Filtered(q, S)[j]
<1> DEFINE k == Filtered(q, S)
<1>1. KeptRight(q, S, Plays, k, Len(q))
  BY FilteredRight, QueueAssumption DEF Plays
<1> HIDE DEF k
<1>2. DOMAIN q = 1 .. Len(q)
  BY LenProperties
<1>3. k \in Seq(Plays) /\ DOMAIN k = 1 .. Len(k)
  BY <1>1, LenProperties DEF KeptRight
<1>4. ToSet(k) = ToSet(q) \cap S
  <2>1. \A m \in 1 .. Len(k) : \E j \in 1 .. Len(q) : k[m] = q[j] /\ q[j] \in S
    BY <1>1 DEF KeptRight
  <2>2. \A j \in 1 .. Len(q) : q[j] \in S => \E m \in 1 .. Len(k) : k[m] = q[j]
    BY <1>1 DEF KeptRight
  <2>3. ToSet(k) = {k[m] : m \in 1 .. Len(k)} /\ ToSet(q) = {q[j] : j \in 1 .. Len(q)}
    BY <1>2, <1>3 DEF ToSet
  <2>4. \A x : x \in ToSet(k) => x \in ToSet(q) \cap S
    BY ONLY <2>1, <2>3
  <2>5. \A x : x \in ToSet(q) \cap S => x \in ToSet(k)
    BY ONLY <2>2, <2>3
  <2> QED BY <2>4, <2>5
<1>5. k \in Seq(Plays) /\ Len(k) <= Len(q)
  BY <1>1 DEF KeptRight
<1>6. (\A i, j \in 1 .. Len(q) : i < j => q[i] < q[j]) =>
         \A i, j \in 1 .. Len(k) : i < j => k[i] < k[j]
  BY <1>1 DEF KeptRight
<1> QED BY <1>4, <1>5, <1>6 DEF k

LEMMA SetOfSeq ==
    ASSUME NEW q \in Seq(Plays)
    PROVE  /\ ToSet(q) \subseteq Plays
           /\ q = <<>> <=> ToSet(q) = {}
           /\ \A e : e \in ToSet(q) <=> \E i \in 1 .. Len(q) : q[i] = e
<1>1. DOMAIN q = 1 .. Len(q) /\ Len(q) \in Nat
  BY LenProperties
<1>2. \A e : e \in ToSet(q) <=> \E i \in 1 .. Len(q) : q[i] = e
  BY <1>1 DEF ToSet
<1>3. \A i \in 1 .. Len(q) : q[i] \in Plays
  BY ElementOfSeq
<1>4. q = <<>> <=> Len(q) = 0
  BY EmptySeq
<1> QED BY <1>1, <1>2, <1>3, <1>4

LEMMA EnqueuedRight ==
    ASSUME NEW q \in Seq(Plays), NEW e \in Plays, Len(q) <= Cap
    PROVE  /\ Enqueued(q, e) \in Seq(Plays) /\ Len(Enqueued(q, e)) <= Cap
           /\ e \in ToSet(Enqueued(q, e))
           /\ ToSet(Enqueued(q, e)) \subseteq ToSet(q) \cup {e}
           /\ (/\ \A i, j \in 1 .. Len(q) : i < j => q[i] < q[j]
               /\ \A i \in 1 .. Len(q) : q[i] < e) =>
                 \A i, j \in 1 .. Len(Enqueued(q, e)) :
                    i < j => Enqueued(q, e)[i] < Enqueued(q, e)[j]
<1> DEFINE a == Append(q, e)
           r == Enqueued(q, e)
<1>1. a \in Seq(Plays) /\ Len(a) = Len(q) + 1 /\ a[Len(q) + 1] = e
      /\ \A i \in 1 .. Len(q) : a[i] = q[i]
  BY AppendProperties
<1>2. Len(q) \in Nat /\ Cap \in Nat \ {0}
  BY LenProperties, QueueAssumption
<1>3. \A i \in 1 .. Len(a) : i \in 1 .. Len(q) \/ i = Len(q) + 1
  BY <1>1, <1>2
<1>4. PICK n \in {0, 1} : /\ r \in Seq(Plays) /\ Len(r) = Len(a) - n /\ Len(r) \in 1 .. Cap
                          /\ \A i \in 1 .. Len(r) : r[i] = a[i + n]
  <2>1. CASE Len(a) > Cap
    <3>1. a # <<>> /\ r = Tail(a)
      BY <1>1, <1>2, <2>1, EmptySeq DEF Enqueued
    <3>2. r \in Seq(Plays) /\ Len(r) = Len(a) - 1 /\ \A i \in 1 .. Len(r) : r[i] = a[i + 1]
      BY <1>1, <3>1, HeadTailProperties
    <3> QED BY <1>1, <1>2, <2>1, <3>2
  <2>2. CASE ~(Len(a) > Cap)
    <3>1. r = a
      BY <2>2 DEF Enqueued
    <3>2. \A i \in 1 .. Len(a) : a[i] = a[i + 0]
      BY <1>1, <1>2
    <3>3. Len(a) \in 1 .. Cap /\ Len(a) = Len(a) - 0
      BY <1>1, <1>2, <2>2
    <3> QED BY <1>1, <3>1, <3>2, <3>3
  <2> QED BY <2>1, <2>2
<1> HIDE DEF a, r
<1>5. \A i \in 1 .. Len(r) : i + n \in 1 .. Len(a)
  BY <1>1, <1>2, <1>4
<1>6. e \in ToSet(r)
  <2>1. Len(r) \in 1 .. Len(r) /\ r[Len(r)] = e
    BY <1>1, <1>2, <1>4
  <2> QED BY <1>4, <2>1, SetOfSeq
<1>7. ToSet(r) \subseteq ToSet(q) \cup {e}
  <2> SUFFICES ASSUME NEW x \in ToSet(r) PROVE x \in ToSet(q) \cup {e}
    OBVIOUS
  <2>1. PICK i \in 1 .. Len(r) : r[i] = x
    BY <1>4, SetOfSeq
  <2>2. x = a[i + n] /\ (i + n \in 1 .. Len(q) \/ i + n = Len(q) + 1)
    BY <1>3, <1>4, <1>5, <2>1
  <2> QED BY <1>1, <2>2, SetOfSeq
<1>8. ASSUME \A i, j \in 1 .. Len(q) : i < j => q[i] < q[j],
             \A i \in 1 .. Len(q) : q[i] < e
      PROVE  \A i, j \in 1 .. Len(r) : i < j => r[i] < r[j]
  <2> SUFFICES ASSUME NEW i \in 1 .. Len(r), NEW j \in 1 .. Len(r), i < j PROVE r[i] < r[j]
    OBVIOUS
  <2>3. i \in Nat /\ j \in Nat /\ n \in Nat /\ i + n \in 1 .. Len(a) /\ j + n \in 1 .. Len(a)
    BY <1>2, <1>4, <1>5
  <2>4. i + n < j + n /\ i + n \in 1 .. Len(q)
    BY <1>1, <1>2, <2>3
  <2>1. i + n \in 1 .. Len(q) /\ i + n < j + n /\ r[i] = q[i + n] /\ r[j] = a[j + n]
    BY <1>1, <1>4, <2>4
  <2>2. j + n \in 1 .. Len(q) \/ j + n = Len(q) + 1
    BY <1>3, <1>5
  <2> QED BY <1>1, <1>8, <2>1, <2>2
<1>9. Len(r) <= Cap /\ r \in Seq(Plays)
  BY <1>2, <1>4
<1> QED BY <1>6, <1>7, <1>8, <1>9 DEF r

-----------------------------------------------------------------------------
LEMMA FlightTypes ==
    /\ NoFlight \in Flights
    /\ \A q \in Seq(Plays) : Sent(q) \in Flights
    /\ \A f \in Flights : f.batch \in Seq(Plays) /\ f.keep \subseteq Plays
<1>1. <<>> \in Seq(Plays)
  BY EmptySeq
<1>2. NoFlight \in Flights
  BY <1>1 DEF NoFlight, Flights
<1>3. \A q \in Seq(Plays) : Sent(q) \in Flights
  BY DEF Sent, Flights
<1> QED BY <1>2, <1>3 DEF Flights

LEMMA InitInv == Init => Inv
<1> SUFFICES ASSUME Init PROVE Inv
  OBVIOUS
<1> USE DEF Init
<1>1. \A h \in Hosts : queue[h] = <<>> /\ <<>> \in Seq(Plays) /\ Len(<<>>) = 0 /\ ToSet(<<>>) = {}
  BY EmptySeq, SetOfSeq
<1>2. TypeOK
  <2>1. queue \in [Hosts -> Seq(Plays)] /\ \A h \in Hosts : Len(queue[h]) <= Cap
    BY <1>1, QueueAssumption
  <2>2. flight \in [Tabs -> [Hosts -> Flights]]
    BY FlightTypes
  <2> QED BY <2>1, <2>2, QueueAssumption DEF TypeOK
<1>3. QueueInOrder /\ Recorded
  BY <1>1 DEF QueueInOrder, Recorded
<1>4. AnswersStand /\ PlaysAccountedFor /\ EachIsSeenTo
  BY <1>1 DEF AnswersStand, PlaysAccountedFor, EachIsSeenTo, NoFlight
<1> QED BY <1>2, <1>3, <1>4 DEF Inv

(***************************************************************************)
(* flushEndpoint: of the hosts in H each is sent its queue, or noted as    *)
(* pending behind the flush that is open.                                  *)
(***************************************************************************)
LEMMA FlushEffect ==
    ASSUME TypeOK, NEW t \in Tabs, NEW H \in SUBSET Hosts, NEW q \in [Hosts -> Seq(Plays)],
           FlushEndpoints(t, H, q)
    PROVE  /\ flight' \in [Tabs -> [Hosts -> Flights]] /\ pending' \in [Tabs -> SUBSET Hosts]
           /\ \A s \in Tabs \ {t} : flight'[s] = flight[s] /\ pending'[s] = pending[s]
           /\ \A h \in Hosts : flight'[t][h] = IF h \in H /\ ~Open(t, h) /\ q[h] # <<>>
                                                 THEN Sent(q[h]) ELSE flight[t][h]
           /\ \A h \in H : Open(t, h) => h \in pending'[t]
           /\ \A h \in Hosts \ H : h \in pending'[t] <=> h \in pending[t]
<1> USE DEF TypeOK
<1> DEFINE row == [h \in Hosts |-> IF h \in Begins(t, H) \ Empties(t, H, q)
                                     THEN Sent(q[h]) ELSE flight[t][h]]
<1>1. row \in [Hosts -> Flights]
  BY FlightTypes
<1>2. flight' = [flight EXCEPT ![t] = row]
  BY DEF FlushEndpoints
<1>3. \A h \in Hosts : row[h] = IF h \in H /\ ~Open(t, h) /\ q[h] # <<>>
                                  THEN Sent(q[h]) ELSE flight[t][h]
  BY DEF Begins, Empties
<1> HIDE DEF row
<1>4. /\ flight' \in [Tabs -> [Hosts -> Flights]] /\ flight'[t] = row
      /\ \A s \in Tabs \ {t} : flight'[s] = flight[s]
  BY <1>1, <1>2
<1>5. pending' = [pending EXCEPT ![t] = (pending[t] \cup H) \ Begins(t, H)]
  BY DEF FlushEndpoints
<1>6. /\ pending' \in [Tabs -> SUBSET Hosts] /\ pending'[t] = (pending[t] \cup H) \ Begins(t, H)
      /\ \A s \in Tabs \ {t} : pending'[s] = pending[s]
  BY <1>5
<1>7. /\ \A h \in H : Open(t, h) => h \in pending'[t]
      /\ \A h \in Hosts \ H : h \in pending'[t] <=> h \in pending[t]
  BY <1>6 DEF Begins
<1> QED BY <1>3, <1>4, <1>6, <1>7

\* After it tab t sees to everything queued for the hosts in H, and nobody sees
\* to less for another.
LEMMA FlushSeesTo ==
    ASSUME TypeOK, NEW t \in Tabs, NEW H \in SUBSET Hosts, NEW q \in [Hosts -> Seq(Plays)],
           FlushEndpoints(t, H, q),
           \A s \in Tabs \ {t} : timers'[s] = timers[s],
           \A h \in Hosts \ H : h \in timers'[t] <=> h \in timers[t]
    PROVE  \A h \in Hosts :
              /\ h \in H => \A e \in ToSet(q[h]) : SeesTo(t, h, e)'
              /\ h \notin H => \A e, s : s \in Tabs /\ SeesTo(s, h, e) => SeesTo(s, h, e)'
<1>1. /\ \A s \in Tabs \ {t} : flight'[s] = flight[s] /\ pending'[s] = pending[s]
      /\ \A h \in Hosts : flight'[t][h] = IF h \in H /\ ~Open(t, h) /\ q[h] # <<>>
                                            THEN Sent(q[h]) ELSE flight[t][h]
      /\ \A h \in H : Open(t, h) => h \in pending'[t]
      /\ \A h \in Hosts \ H : h \in pending'[t] <=> h \in pending[t]
  BY FlushEffect
<1>2. ASSUME NEW h \in H, NEW e \in ToSet(q[h]) PROVE SeesTo(t, h, e)'
  <2>1. CASE Open(t, h)
    BY <1>1, <2>1 DEF SeesTo, Open
  <2>2. CASE ~Open(t, h)
    <3>1. q[h] # <<>>
      BY SetOfSeq
    <3>2. flight'[t][h] = Sent(q[h])
      BY <1>1, <2>2, <3>1
    <3> QED BY <3>2 DEF SeesTo, Open, Sent
  <2> QED BY <2>1, <2>2
<1>3. ASSUME NEW h \in Hosts \ H, NEW s \in Tabs, NEW e, SeesTo(s, h, e) PROVE SeesTo(s, h, e)'
  <2>1. flight'[s][h] = flight[s][h] /\ (h \in pending'[s] <=> h \in pending[s])
        /\ (h \in timers'[s] <=> h \in timers[s])
    BY <1>1
  <2> QED BY <1>3, <2>1 DEF SeesTo, Open
<1> QED BY <1>2, <1>3

\* A flush that begins changes nothing a host has answered.
LEMMA FlushAnswers ==
    ASSUME TypeOK, AnswersStand, NEW t \in Tabs, NEW H \in SUBSET Hosts,
           NEW q \in [Hosts -> Seq(Plays)], FlushEndpoints(t, H, q), taken' = taken
    PROVE  AnswersStand'
<1>1. \A s \in Tabs, h \in Hosts : flight'[s][h] = flight[s][h] \/ flight'[s][h].stage = "sent"
  <2> SUFFICES ASSUME NEW s \in Tabs, NEW h \in Hosts
               PROVE  flight'[s][h] = flight[s][h] \/ flight'[s][h].stage = "sent"
    OBVIOUS
  <2>1. CASE s = t
    <3>1. flight'[t][h] = flight[t][h] \/ flight'[t][h] = Sent(q[h])
      BY FlushEffect
    <3> QED BY <2>1, <3>1 DEF Sent
  <2>2. CASE s # t
    BY <2>2, FlushEffect
  <2> QED BY <2>1, <2>2
<1> QED BY <1>1 DEF AnswersStand

-----------------------------------------------------------------------------
\* A step that begins flushes and leaves the stored queues alone.
LEMMA FlushOnly ==
    ASSUME Inv, NEW t \in Tabs, NEW H \in SUBSET Hosts, FlushEndpoints(t, H, queue),
           UNCHANGED <<queue, plays, taken, dropped>>,
           mounted' \subseteq Tabs, known' \in [Tabs -> SUBSET Hosts],
           timers' \in [Tabs -> SUBSET Hosts],
           \A s \in Tabs \ {t} : timers'[s] = timers[s],
           \A h \in Hosts \ H : h \in timers'[t] <=> h \in timers[t],
           \A h \in Hosts \ H : Attended(h)' => Attended(h)
    PROVE  Inv'
<1> USE DEF Inv
<1>1. queue \in [Hosts -> Seq(Plays)]
  BY DEF TypeOK
<1>2. TypeOK'
  <2>1. flight' \in [Tabs -> [Hosts -> Flights]] /\ pending' \in [Tabs -> SUBSET Hosts]
    BY <1>1, FlushEffect
  <2> QED BY <2>1 DEF TypeOK
<1>3. QueueInOrder' /\ Recorded' /\ PlaysAccountedFor'
  BY DEF QueueInOrder, Recorded, PlaysAccountedFor
<1>4. AnswersStand'
  BY <1>1, FlushAnswers
<1>5. EachIsSeenTo'
  <2> SUFFICES ASSUME NEW h \in Hosts, Attended(h)', NEW e \in ToSet(queue[h])
               PROVE  \E s \in Tabs : SeesTo(s, h, e)'
    BY DEF EachIsSeenTo
  <2>1. CASE h \in H
    BY <1>1, <2>1, FlushSeesTo
  <2>2. CASE h \notin H
    <3>1. PICK s \in Tabs : SeesTo(s, h, e)
      BY <2>2 DEF EachIsSeenTo
    <3>2. SeesTo(s, h, e)'
      BY <1>1, <2>2, <3>1, FlushSeesTo
    <3> QED BY <3>2
  <2> QED BY <2>1, <2>2
<1> QED BY <1>2, <1>3, <1>4, <1>5

LEMMA TriggersKeep ==
    ASSUME Inv, NEW t \in Tabs,
           \/ Mount(t) \/ FlushAll(t) \/ \E H \in SUBSET Hosts : SetEndpoints(t, H)
           \/ \E h \in Hosts : TimerFires(t, h)
    PROVE  Inv'
<1> USE DEF Inv
<1>1. known[t] \in SUBSET Hosts /\ timers \in [Tabs -> SUBSET Hosts]
      /\ mounted \subseteq Tabs /\ known \in [Tabs -> SUBSET Hosts]
  BY DEF TypeOK
<1>2. ASSUME NEW H \in SUBSET Hosts, Flush(t, H, queue)
      PROVE  /\ FlushEndpoints(t, H, queue) /\ timers' \in [Tabs -> SUBSET Hosts]
             /\ \A s \in Tabs \ {t} : timers'[s] = timers[s]
             /\ \A h \in Hosts \ H : h \in timers'[t] <=> h \in timers[t]
  BY <1>1, <1>2 DEF Flush, Empties, Begins
<1>3. CASE Mount(t) \/ FlushAll(t)
  <2>1. /\ Flush(t, known[t], queue) /\ UNCHANGED <<queue, plays, taken, dropped, known>>
        /\ mounted' \subseteq Tabs
    BY <1>1, <1>3 DEF Mount, FlushAll
  <2>2. \A h \in Hosts \ known[t] : ~Attended(h)'
    BY <2>1 DEF Attended
  <2>3. /\ FlushEndpoints(t, known[t], queue) /\ timers' \in [Tabs -> SUBSET Hosts]
        /\ \A s \in Tabs \ {t} : timers'[s] = timers[s]
        /\ \A h \in Hosts \ known[t] : h \in timers'[t] <=> h \in timers[t]
    BY <1>1, <1>2, <2>1
  <2> QED BY <1>1, <2>1, <2>2, <2>3, FlushOnly
<1>4. ASSUME NEW H \in SUBSET Hosts, SetEndpoints(t, H) PROVE Inv'
  <2>1. /\ UNCHANGED <<queue, plays, taken, dropped, mounted>>
        /\ known' = [known EXCEPT ![t] = H] /\ known' \in [Tabs -> SUBSET Hosts]
    BY <1>1, <1>4 DEF SetEndpoints
  <2>2. \A h \in Hosts \ H : ~Attended(h)'
    BY <1>1, <2>1 DEF Attended
  <2>3. CASE t \in mounted
    <3>1. Flush(t, H, queue)
      BY <1>4, <2>3 DEF SetEndpoints
    <3>2. /\ FlushEndpoints(t, H, queue) /\ timers' \in [Tabs -> SUBSET Hosts]
          /\ \A s \in Tabs \ {t} : timers'[s] = timers[s]
          /\ \A h \in Hosts \ H : h \in timers'[t] <=> h \in timers[t]
      BY <1>2, <3>1
    <3> QED BY <1>1, <2>1, <2>2, <3>2, FlushOnly
  <2>4. CASE t \notin mounted
    <3>1. UNCHANGED <<flight, pending, timers>> /\ \A h \in Hosts : ~Attended(h)'
      BY <1>4, <2>1, <2>4 DEF SetEndpoints, Attended
    <3>2. TypeOK'
      BY <2>1, <3>1 DEF TypeOK
    <3>3. QueueInOrder' /\ Recorded' /\ PlaysAccountedFor' /\ AnswersStand'
      BY <2>1, <3>1 DEF QueueInOrder, Recorded, PlaysAccountedFor, AnswersStand
    <3>4. EachIsSeenTo'
      BY <3>1 DEF EachIsSeenTo
    <3> QED BY <3>2, <3>3, <3>4
  <2> QED BY <2>3, <2>4
<1>5. ASSUME NEW h \in Hosts, TimerFires(t, h) PROVE Inv'
  <2>1. /\ UNCHANGED <<queue, plays, taken, dropped, mounted, known>>
        /\ timers' = [timers EXCEPT ![t] = @ \ {h}] /\ timers' \in [Tabs -> SUBSET Hosts]
    BY <1>1, <1>5 DEF TimerFires
  <2>2. CASE h \in known[t]
    <3>1. FlushEndpoints(t, {h}, queue)
      BY <1>5, <2>2 DEF TimerFires
    <3>2. /\ \A s \in Tabs \ {t} : timers'[s] = timers[s]
          /\ \A g \in Hosts \ {h} : g \in timers'[t] <=> g \in timers[t]
      BY <1>1, <2>1
    <3>3. \A g \in Hosts \ {h} : Attended(g)' => Attended(g)
      BY <2>1 DEF Attended
    <3>4. {h} \in SUBSET Hosts
      OBVIOUS
    <3> QED BY <1>1, <2>1, <3>1, <3>2, <3>3, <3>4, FlushOnly
  <2>3. CASE h \notin known[t]
    <3>1. UNCHANGED <<flight, pending>> /\ ~Attended(h)
      BY <1>5, <2>3 DEF TimerFires, Attended
    <3>2. TypeOK'
      BY <2>1, <3>1 DEF TypeOK
    <3>3. QueueInOrder' /\ Recorded' /\ PlaysAccountedFor' /\ AnswersStand'
      BY <2>1, <3>1 DEF QueueInOrder, Recorded, PlaysAccountedFor, AnswersStand
    <3>4. EachIsSeenTo'
      <4>1. \A g \in Hosts \ {h}, s \in Tabs : g \in timers'[s] <=> g \in timers[s]
        BY <1>1, <2>1
      <4> QED BY <2>1, <3>1, <4>1 DEF EachIsSeenTo, SeesTo, Open, Attended
    <3> QED BY <3>2, <3>3, <3>4
  <2> QED BY <2>2, <2>3
<1> QED BY <1>3, <1>4, <1>5

LEMMA RecordKeeps ==
    ASSUME Inv, NEW t \in Tabs, NEW h \in Hosts, RecordPlay(t, h)
    PROVE  Inv'
<1> USE DEF Inv
<1> DEFINE q == queue[h]
           r == Enqueued(queue[h], plays + 1)
<1>1. /\ plays' = plays + 1 /\ plays' \in Plays /\ plays \in Nat
      /\ queue' = [queue EXCEPT ![h] = r]
      /\ dropped' = dropped \cup (ToSet(q) \ ToSet(queue'[h]))
      /\ Flush(t, {h}, queue') /\ UNCHANGED <<mounted, known, taken>>
  BY QueueAssumption DEF RecordPlay, TypeOK, Plays
<1>2. /\ q \in Seq(Plays) /\ Len(q) <= Cap
      /\ \A i, j \in 1 .. Len(q) : i < j => q[i] < q[j]
      /\ \A i \in 1 .. Len(q) : q[i] <= plays /\ q[i] \in Plays
  BY ElementOfSeq DEF TypeOK, QueueInOrder, Recorded
<1>3. /\ r \in Seq(Plays) /\ Len(r) <= Cap /\ plays' \in ToSet(r)
      /\ ToSet(r) \subseteq ToSet(q) \cup {plays'}
      /\ \A i, j \in 1 .. Len(r) : i < j => r[i] < r[j]
  <2>1. \A i \in 1 .. Len(q) : q[i] < plays'
    BY <1>1, <1>2 DEF Plays
  <2> QED BY <1>1, <1>2, <2>1, EnqueuedRight
<1> HIDE DEF q, r
<1>4. /\ queue' \in [Hosts -> Seq(Plays)] /\ queue'[h] = r
      /\ \A g \in Hosts \ {h} : queue'[g] = queue[g]
  BY <1>1, <1>3 DEF TypeOK
<1>5. /\ FlushEndpoints(t, {h}, queue') /\ timers' \in [Tabs -> SUBSET Hosts]
      /\ \A s \in Tabs \ {t} : timers'[s] = timers[s]
      /\ \A g \in Hosts \ {h} : g \in timers'[t] <=> g \in timers[t]
  BY <1>1 DEF Flush, Empties, Begins, TypeOK
<1>6. {h} \in SUBSET Hosts
  OBVIOUS
<1>7. TypeOK'
  <2>1. flight' \in [Tabs -> [Hosts -> Flights]] /\ pending' \in [Tabs -> SUBSET Hosts]
    BY <1>4, <1>5, <1>6, FlushEffect
  <2>2. dropped' \subseteq Plays
    BY <1>1, <1>2, SetOfSeq DEF TypeOK, q
  <2>3. plays' \in 0 .. MaxPlays
    BY <1>1, QueueAssumption DEF Plays
  <2>4. \A g \in Hosts : Len(queue'[g]) <= Cap
    BY <1>3, <1>4 DEF TypeOK
  <2> QED BY <1>1, <1>4, <1>5, <2>1, <2>2, <2>3, <2>4 DEF TypeOK
<1>8. QueueInOrder'
  BY <1>3, <1>4 DEF QueueInOrder
<1>9. Recorded'
  <2> SUFFICES ASSUME NEW g \in Hosts, NEW i \in 1 .. Len(queue'[g]) PROVE queue'[g][i] <= plays'
    BY DEF Recorded
  <2>1. CASE g = h
    <3>1. r[i] \in ToSet(q) \cup {plays'}
      BY <1>3, <1>4, <2>1, SetOfSeq
    <3>2. \A x \in ToSet(q) : x \in Plays /\ x <= plays
      BY <1>2, SetOfSeq
    <3> QED BY <1>1, <1>4, <2>1, <3>1, <3>2 DEF Plays
  <2>2. CASE g # h
    <3>1. i \in 1 .. Len(queue[g]) /\ queue'[g][i] = queue[g][i] /\ queue[g] \in Seq(Plays)
      BY <1>4, <2>2 DEF TypeOK
    <3>2. queue[g][i] \in Plays /\ queue[g][i] <= plays
      BY <3>1, ElementOfSeq DEF Recorded
    <3> QED BY <1>1, <3>1, <3>2 DEF Plays
  <2> QED BY <2>1, <2>2
<1>10. PlaysAccountedFor'
  <2> SUFFICES ASSUME NEW e \in 1 .. plays', e \notin dropped'
               PROVE  \E g \in Hosts : e \in ToSet(queue'[g]) \cup taken'[g]
    BY DEF PlaysAccountedFor
  <2>1. CASE e = plays'
    BY <1>3, <1>4, <2>1
  <2>2. CASE e # plays'
    <3>1. e \in 1 .. plays /\ e \notin dropped
      BY <1>1, <2>2
    <3>2. PICK g \in Hosts : e \in ToSet(queue[g]) \cup taken[g]
      BY <3>1 DEF PlaysAccountedFor
    <3>3. e \in ToSet(queue'[g]) \cup taken'[g]
      BY <1>1, <1>4, <3>2 DEF q
    <3> QED BY <3>3
  <2> QED BY <2>1, <2>2
<1>11. AnswersStand'
  BY <1>1, <1>4, <1>5, <1>6, FlushAnswers
<1>12. EachIsSeenTo'
  <2> SUFFICES ASSUME NEW g \in Hosts, Attended(g)', NEW e \in ToSet(queue'[g])
               PROVE  \E s \in Tabs : SeesTo(s, g, e)'
    BY DEF EachIsSeenTo
  <2>1. CASE g = h
    BY <1>4, <1>5, <1>6, <2>1, FlushSeesTo
  <2>2. CASE g # h
    <3>1. PICK s \in Tabs : SeesTo(s, g, e)
      BY <1>1, <1>4, <2>2 DEF EachIsSeenTo, Attended
    <3>2. SeesTo(s, g, e)'
      BY <1>4, <1>5, <1>6, <2>2, <3>1, FlushSeesTo
    <3> QED BY <3>2
  <2> QED BY <2>1, <2>2
<1> QED BY <1>7, <1>8, <1>9, <1>10, <1>11, <1>12

\* The host's side of a request, and a tab that goes away.
LEMMA HostKeeps ==
    ASSUME Inv, NEW t \in Tabs, NEW h \in Hosts,
           \/ \E keep \in SUBSET Plays : HostAnswers(t, h, keep)
           \/ HostRefuses(t, h) \/ HostTurnsAway(t, h) \/ FetchFails(t, h)
    PROVE  Inv'
<1> USE DEF Inv
<1> DEFINE f == flight[t][h]
<1>1. /\ f \in Flights /\ f.stage \in {"sent", "answered"}
      /\ f.batch \in Seq(Plays) /\ flight \in [Tabs -> [Hosts -> Flights]]
  BY FlightTypes DEF TypeOK, HostAnswers, HostRefuses, HostTurnsAway, FetchFails
<1>2. PICK g \in Flights : /\ flight' = [flight EXCEPT ![t][h] = g]
                           /\ g.batch = f.batch
                           /\ \/ g.stage = "answered"
                                 /\ taken' = [taken EXCEPT ![h] = @ \cup (ToSet(f.batch) \ g.keep)]
                              \/ g.stage \in {"refused", "failed"} /\ taken' = taken
  <2>1. ASSUME NEW keep \in SUBSET Plays, HostAnswers(t, h, keep)
        PROVE  \E g \in Flights :
                  /\ flight' = [flight EXCEPT ![t][h] = g]
                  /\ g.batch = f.batch /\ g.stage = "answered"
                  /\ taken' = [taken EXCEPT ![h] = @ \cup (ToSet(f.batch) \ g.keep)]
    <3> DEFINE g == [[f EXCEPT !.stage = "answered"] EXCEPT !.keep = keep]
    <3>1. g \in Flights /\ g.batch = f.batch /\ g.stage = "answered" /\ g.keep = keep
      BY <1>1 DEF Flights
    <3>2. flight' = [flight EXCEPT ![t][h] = g]
      BY <1>1, <2>1 DEF HostAnswers
    <3>3. taken' = [taken EXCEPT ![h] = @ \cup (ToSet(f.batch) \ keep)]
      BY <2>1 DEF HostAnswers
    <3> HIDE DEF g
    <3> QED BY <3>1, <3>2, <3>3
  <2>2. CASE HostRefuses(t, h)
    <3> DEFINE g == [f EXCEPT !.stage = "refused"]
    <3>1. g \in Flights /\ g.batch = f.batch /\ g.stage = "refused"
      BY <1>1 DEF Flights
    <3>2. flight' = [flight EXCEPT ![t][h] = g] /\ taken' = taken
      BY <1>1, <2>2 DEF HostRefuses
    <3> QED BY <3>1, <3>2
  <2>3. CASE HostTurnsAway(t, h) \/ FetchFails(t, h)
    <3> DEFINE g == [f EXCEPT !.stage = "failed"]
    <3>1. g \in Flights /\ g.batch = f.batch /\ g.stage = "failed"
      BY <1>1 DEF Flights
    <3>2. flight' = [flight EXCEPT ![t][h] = g] /\ taken' = taken
      BY <1>1, <2>3 DEF HostTurnsAway, FetchFails
    <3> QED BY <3>1, <3>2
  <2> QED BY <2>1, <2>2, <2>3
<1>3. UNCHANGED <<queue, plays, mounted, known, pending, timers, dropped>>
  BY DEF HostAnswers, HostRefuses, HostTurnsAway, FetchFails
<1>4. /\ flight' \in [Tabs -> [Hosts -> Flights]] /\ flight'[t][h] = g
      /\ \A s \in Tabs, k \in Hosts : <<s, k>> # <<t, h>> => flight'[s][k] = flight[s][k]
  BY <1>1, <1>2
<1>5. /\ taken' \in [Hosts -> SUBSET Plays] /\ \A k \in Hosts : taken[k] \subseteq taken'[k]
      /\ g.stage = "answered" => ToSet(g.batch) \ g.keep \subseteq taken'[h]
  <2>1. ToSet(f.batch) \subseteq Plays /\ taken \in [Hosts -> SUBSET Plays]
    BY <1>1, SetOfSeq DEF TypeOK
  <2>2. CASE g.stage = "answered"
    <3>1. taken' = [taken EXCEPT ![h] = taken[h] \cup (ToSet(f.batch) \ g.keep)]
      BY <1>2, <2>2
    <3> QED BY <1>2, <2>1, <3>1
  <2>3. CASE g.stage # "answered"
    BY <1>2, <2>1, <2>3
  <2> QED BY <2>2, <2>3
<1>6. TypeOK'
  BY <1>3, <1>4, <1>5 DEF TypeOK
<1>7. QueueInOrder' /\ Recorded'
  BY <1>3 DEF QueueInOrder, Recorded
<1>8. PlaysAccountedFor'
  BY <1>3, <1>5 DEF PlaysAccountedFor
<1>9. AnswersStand'
  BY <1>4, <1>5 DEF AnswersStand
<1>10. EachIsSeenTo'
  <2>1. \A s \in Tabs, k \in Hosts : \A e : SeesTo(s, k, e)' <=> SeesTo(s, k, e)
    <3> SUFFICES ASSUME NEW s \in Tabs, NEW k \in Hosts, NEW e
                 PROVE  SeesTo(s, k, e)' <=> SeesTo(s, k, e)
      OBVIOUS
    <3>1. flight'[s][k].batch = flight[s][k].batch /\ (Open(s, k)' <=> Open(s, k))
      BY <1>1, <1>2, <1>4 DEF Open
    <3> QED BY <1>3, <3>1 DEF SeesTo
  <2> QED BY <1>3, <2>1 DEF EachIsSeenTo, Attended
<1> QED BY <1>6, <1>7, <1>8, <1>9, <1>10

LEMMA DepartureKeeps ==
    ASSUME Inv, NEW t \in Tabs, Unmount(t) \/ \E h \in Hosts : Abandon(t, h)
    PROVE  Inv'
<1> USE DEF Inv
<1>1. UNCHANGED <<queue, plays, known, taken, dropped>>
  BY DEF Unmount, Abandon
<1>2. \A h \in Hosts : ~Attended(h)'
  BY DEF Unmount, Abandon, Attended
<1>3. /\ mounted' \subseteq Tabs /\ timers' \in [Tabs -> SUBSET Hosts]
      /\ pending' \in [Tabs -> SUBSET Hosts]
  BY DEF Unmount, Abandon, TypeOK
<1>4. /\ flight' \in [Tabs -> [Hosts -> Flights]]
      /\ \A s \in Tabs, k \in Hosts : flight'[s][k] = flight[s][k] \/ flight'[s][k] = NoFlight
  <2>1. flight \in [Tabs -> [Hosts -> Flights]]
    BY DEF TypeOK
  <2>2. CASE Unmount(t)
    BY <2>1, <2>2 DEF Unmount
  <2>3. ASSUME NEW h \in Hosts, Abandon(t, h)
        PROVE  /\ flight' \in [Tabs -> [Hosts -> Flights]]
               /\ \A s \in Tabs, k \in Hosts :
                     flight'[s][k] = flight[s][k] \/ flight'[s][k] = NoFlight
    <3>1. flight' = [flight EXCEPT ![t][h] = NoFlight]
      BY <2>3 DEF Abandon
    <3> QED BY <2>1, <3>1, FlightTypes
  <2> QED BY <2>2, <2>3
<1>5. TypeOK'
  BY <1>1, <1>3, <1>4 DEF TypeOK
<1>6. QueueInOrder' /\ Recorded' /\ PlaysAccountedFor'
  BY <1>1 DEF QueueInOrder, Recorded, PlaysAccountedFor
<1>7. AnswersStand'
  BY <1>1, <1>4 DEF AnswersStand, NoFlight
<1>8. EachIsSeenTo'
  BY <1>2 DEF EachIsSeenTo
<1> QED BY <1>5, <1>6, <1>7, <1>8

(***************************************************************************)
(* flushQueue once the request has settled: what it writes back, and who   *)
(* sees to what is left.                                                   *)
(***************************************************************************)
LEMMA AfterFlushRight ==
    ASSUME NEW f \in Flights, f.stage \in {"answered", "refused", "failed"},
           NEW q \in Seq(Plays)
    PROVE  /\ AfterFlush(f, q) \in Seq(Plays) /\ Len(AfterFlush(f, q)) <= Len(q)
           /\ ToSet(AfterFlush(f, q)) \subseteq ToSet(q)
           /\ (\A i, j \in 1 .. Len(q) : i < j => q[i] < q[j]) =>
                 \A i, j \in 1 .. Len(AfterFlush(f, q)) :
                    i < j => AfterFlush(f, q)[i] < AfterFlush(f, q)[j]
           /\ f.stage = "failed" => AfterFlush(f, q) = q
           /\ f.stage = "refused" => AfterFlush(f, q) = <<>>
           /\ f.stage = "answered" =>
                 ToSet(AfterFlush(f, q)) = (ToSet(q) \ ToSet(f.batch)) \cup (ToSet(q) \cap f.keep)
<1>1. CASE f.stage = "failed"
  BY <1>1 DEF AfterFlush
<1>2. CASE f.stage = "refused"
  <2>1. AfterFlush(f, q) = <<>> /\ <<>> \in Seq(Plays) /\ Len(<<>>) = 0 /\ ToSet(<<>>) = {}
    BY <1>2, EmptySeq, SetOfSeq DEF AfterFlush
  <2>2. Len(q) \in Nat
    BY LenProperties
  <2> QED BY <1>2, <2>1, <2>2
<1>3. CASE f.stage = "answered"
  <2> DEFINE S == (Plays \ ToSet(f.batch)) \cup f.keep
  <2>1. AfterFlush(f, q) = Filtered(q, S)
    BY <1>3 DEF AfterFlush
  <2>2. ToSet(q) \cap S = (ToSet(q) \ ToSet(f.batch)) \cup (ToSet(q) \cap f.keep)
    BY SetOfSeq
  <2> HIDE DEF S
  <2> QED BY <1>3, <2>1, <2>2, FilteredQueue
<1> QED BY <1>1, <1>2, <1>3

LEMMA FlushEndsKeeps ==
    ASSUME Inv, NEW t \in Tabs, NEW h \in Hosts, FlushEnds(t, h)
    PROVE  Inv'
<1> USE DEF Inv
<1> DEFINE f == flight[t][h]
           q == queue[h]
           r == AfterFlush(f, q)
           again == Settled(f) /\ h \in pending[t]
           next == IF again /\ r # <<>> THEN Sent(r) ELSE NoFlight
<1>1. /\ f \in Flights /\ f.stage \in {"answered", "refused", "failed"}
      /\ q \in Seq(Plays) /\ Len(q) <= Cap /\ Len(q) \in Nat
      /\ \A i, j \in 1 .. Len(q) : i < j => q[i] < q[j]
  BY LenProperties DEF TypeOK, FlushEnds, QueueInOrder
<1>2. /\ r \in Seq(Plays) /\ Len(r) <= Len(q) /\ Len(r) \in Nat
      /\ ToSet(r) \subseteq ToSet(q)
      /\ \A i, j \in 1 .. Len(r) : i < j => r[i] < r[j]
      /\ f.stage = "failed" => r = q
      /\ f.stage = "refused" => r = <<>>
      /\ f.stage = "answered" =>
            ToSet(r) = (ToSet(q) \ ToSet(f.batch)) \cup (ToSet(q) \cap f.keep)
  BY <1>1, AfterFlushRight, LenProperties
<1>3. /\ queue' = [queue EXCEPT ![h] = r] /\ queue' \in [Hosts -> Seq(Plays)]
      /\ queue'[h] = r /\ \A k \in Hosts \ {h} : queue'[k] = queue[k]
      /\ UNCHANGED <<plays, mounted, known, taken>>
      /\ dropped' = IF f.stage = "refused" THEN dropped \cup ToSet(q) ELSE dropped
  BY <1>2 DEF FlushEnds, TypeOK
<1>4. /\ flight' = [flight EXCEPT ![t][h] = next] /\ next \in Flights
      /\ next.stage \in {"none", "sent"}
  BY <1>2, <1>3, FlightTypes DEF FlushEnds, Sent, NoFlight
<1>5. /\ pending' \in [Tabs -> SUBSET Hosts] /\ timers' \in [Tabs -> SUBSET Hosts]
      /\ \A s \in Tabs, k \in Hosts : <<s, k>> # <<t, h>> =>
            /\ k \in pending'[s] <=> k \in pending[s]
            /\ k \in timers'[s] <=> k \in timers[s]
      /\ t \in mounted /\ ~Settled(f) => h \in timers'[t]
  BY DEF FlushEnds, TypeOK
<1> HIDE DEF r, next
<1>6. /\ flight' \in [Tabs -> [Hosts -> Flights]] /\ flight'[t][h] = next
      /\ \A s \in Tabs, k \in Hosts : <<s, k>> # <<t, h>> => flight'[s][k] = flight[s][k]
  BY <1>4 DEF TypeOK
<1>7. TypeOK'
  <2>1. \A k \in Hosts : Len(queue'[k]) <= Cap
    BY <1>1, <1>2, <1>3, QueueAssumption DEF TypeOK
  <2>2. dropped' \subseteq Plays
    BY <1>1, <1>3, SetOfSeq DEF TypeOK
  <2> QED BY <1>3, <1>5, <1>6, <2>1, <2>2 DEF TypeOK
<1>8. QueueInOrder'
  BY <1>2, <1>3 DEF QueueInOrder
<1>9. Recorded'
  <2> SUFFICES ASSUME NEW k \in Hosts, NEW i \in 1 .. Len(queue'[k]) PROVE queue'[k][i] <= plays
    BY <1>3 DEF Recorded
  <2>1. CASE k = h
    <3>1. r[i] \in ToSet(q)
      BY <1>2, <1>3, <2>1, SetOfSeq
    <3>2. \A x \in ToSet(q) : x <= plays
      BY <1>1, SetOfSeq DEF Recorded
    <3> QED BY <1>3, <2>1, <3>1, <3>2
  <2>2. CASE k # h
    BY <1>3, <2>2 DEF Recorded
  <2> QED BY <2>1, <2>2
<1>10. PlaysAccountedFor'
  <2> SUFFICES ASSUME NEW e \in 1 .. plays, e \notin dropped'
               PROVE  \E k \in Hosts : e \in ToSet(queue'[k]) \cup taken[k]
    BY <1>3 DEF PlaysAccountedFor
  <2>1. PICK k \in Hosts : e \in ToSet(queue[k]) \cup taken[k]
    BY <1>3 DEF PlaysAccountedFor
  <2>2. CASE k # h \/ e \in taken[k] \/ e \in ToSet(r)
    BY <1>3, <2>1, <2>2
  <2>3. CASE k = h /\ e \in ToSet(q) /\ e \notin ToSet(r)
    <3>1. f.stage = "answered"
      BY <1>1, <1>2, <1>3, <2>3
    <3>2. e \in ToSet(f.batch) \ f.keep
      BY <1>2, <2>3, <3>1
    <3>3. e \in taken[h]
      BY <3>1, <3>2 DEF AnswersStand
    <3> QED BY <3>3
  <2> QED BY <2>1, <2>2, <2>3
<1>11. AnswersStand'
  BY <1>3, <1>4, <1>6 DEF AnswersStand
<1>12. EachIsSeenTo'
  <2> SUFFICES ASSUME NEW k \in Hosts, Attended(k)', NEW e \in ToSet(queue'[k])
               PROVE  \E s \in Tabs : SeesTo(s, k, e)'
    BY DEF EachIsSeenTo
  <2>0. \A s \in Tabs : <<s, k>> # <<t, h>> /\ SeesTo(s, k, e) => SeesTo(s, k, e)'
    BY <1>5, <1>6 DEF SeesTo, Open
  <2>1. Attended(k) /\ e \in ToSet(queue[k]) /\ t \in mounted
    BY <1>2, <1>3 DEF Attended
  <2>2. PICK s \in Tabs : SeesTo(s, k, e)
    BY <2>1 DEF EachIsSeenTo
  <2>3. CASE <<s, k>> # <<t, h>>
    BY <2>0, <2>2, <2>3
  <2>4. CASE s = t /\ k = h /\ next.stage = "none"
    <3>1. ~Settled(f)
      <4> SUFFICES ASSUME Settled(f) PROVE FALSE
        OBVIOUS
      <4>1. r # <<>>
        BY <1>2, <1>3, <2>4, SetOfSeq
      <4>2. h \notin pending[t]
        BY <4>1, <2>4 DEF next, Sent
      <4>3. f.stage = "answered" /\ f.keep = {}
        BY <1>2, <4>1 DEF Settled
      <4>4. e \notin ToSet(f.batch)
        BY <1>2, <1>3, <2>4, <4>3
      <4>5. Open(t, h)
        BY <4>3 DEF Open
      <4> QED BY <2>2, <2>4, <4>2, <4>4, <4>5 DEF SeesTo
    <3>2. h \in timers'[t] /\ ~Open(t, h)'
      BY <1>5, <1>6, <2>1, <2>4, <3>1 DEF Open
    <3> QED BY <2>4, <3>2 DEF SeesTo
  <2>5. CASE s = t /\ k = h /\ next.stage = "sent"
    <3>1. next = Sent(r)
      BY <2>5 DEF next, NoFlight
    <3>2. flight'[t][h].batch = r /\ Open(t, h)'
      BY <1>6, <3>1 DEF Open, Sent
    <3> QED BY <1>3, <2>5, <3>2 DEF SeesTo
  <2> QED BY <1>4, <2>3, <2>4, <2>5
<1> QED BY <1>7, <1>8, <1>9, <1>10, <1>11, <1>12

LEMMA StepInv == Inv /\ [Next]_vars => Inv'
<1> SUFFICES ASSUME Inv, [Next]_vars PROVE Inv'
  OBVIOUS
<1>1. CASE UNCHANGED vars
  BY <1>1 DEF vars, Inv, TypeOK, QueueInOrder, Recorded, AnswersStand, PlaysAccountedFor,
              EachIsSeenTo, SeesTo, Open, Attended
<1> QED BY <1>1, TriggersKeep, RecordKeeps, HostKeeps, DepartureKeeps, FlushEndsKeeps DEF Next

(***************************************************************************)
(* Every variable of the play queue keeps its type, and no stored queue    *)
(* outgrows the cap (enqueueEvent).                                        *)
(***************************************************************************)
THEOREM TypeCorrect == Spec => []TypeOK
<1>1. Inv => TypeOK
  BY DEF Inv
<1> QED BY <1>1, InitInv, StepInv, PTL DEF Spec

(***************************************************************************)
(* A recorded play is queued, or a host has answered for it, or it was     *)
(* dropped with the cap or with a refused batch (flushQueue): for any      *)
(* number of tabs, hosts and plays.                                        *)
(***************************************************************************)
THEOREM NoPlayVanishes == Spec => []PlaysAccountedFor
<1>1. Inv => PlaysAccountedFor
  BY DEF Inv
<1> QED BY <1>1, InitInv, StepInv, PTL DEF Spec

(***************************************************************************)
(* The stored queues stay in the order the plays finished, without         *)
(* repetition, although several tabs rewrite them (flushQueue,             *)
(* enqueueEvent).                                                          *)
(***************************************************************************)
THEOREM QueuesStayInOrder == Spec => []QueueInOrder
<1>1. Inv => QueueInOrder
  BY DEF Inv
<1> QED BY <1>1, InitInv, StepInv, PTL DEF Spec

(***************************************************************************)
(* No queued play waits with no flush open and no retry timer armed, while *)
(* every tab is open and knows the host (usePlayEventQueue).               *)
(***************************************************************************)
THEOREM NobodyIsStranded == Spec => []NoStrandedPlay
<1>1. Inv => NoStrandedPlay
  <2> SUFFICES ASSUME Inv, NEW h \in Hosts, Attended(h), queue[h] # <<>>
               PROVE  \E t \in Tabs : Open(t, h) \/ h \in timers[t]
    BY DEF NoStrandedPlay
  <2>1. PICK e : e \in ToSet(queue[h])
    BY SetOfSeq DEF Inv, TypeOK
  <2> QED BY <2>1 DEF Inv, EachIsSeenTo, SeesTo
<1> QED BY <1>1, InitInv, StepInv, PTL DEF Spec


-----------------------------------------------------------------------------
(***************************************************************************)
(* SyncServer: one server stands on the folder and the panel shows whom the*)
(* host lists, for any number of guests, sockets, restarts and faults, if  *)
(* the checkbox waits for the answer of its last press (Patient).          *)
(***************************************************************************)
Stages == {"none", "opening", "keying", "up", "flushing", "closing", "gone"}

CallTypes ==
  /\ call \in [Server -> {"idle", "stopping", "starting", "done"}]
  /\ closes \in [Server -> Server \cup {None}]
  /\ stage \in [Server -> Stages]
  /\ current \in Server \cup {None}

\* Calls come one after another: an earlier one is done.
InTurn ==
  \A c \in Server : call[c] # "idle" => \A d \in 1 .. c - 1 : call[d] = "done"
\* A call that has not come to its start has no server.
NotYet == \A c \in Server : call[c] \in {"idle", "stopping"} => stage[c] = "none"
\* A call that stops closes one server, and every server that closes has its call.
Stopping ==
  /\ \A c \in Server : call[c] = "stopping" =>
       current = None /\ closes[c] # None /\ stage[closes[c]] \in {"flushing", "closing"}
  /\ \A s \in Server : stage[s] \in {"flushing", "closing"} =>
       \E c \in Server : call[c] = "stopping" /\ closes[c] = s
\* A call that starts has found no server standing, and builds one.
Starting ==
  /\ \A c \in Server : call[c] = "starting" => current = None
  /\ \A c \in Server : stage[c] \in {"opening", "keying"} <=> call[c] = "starting"
\* The server that is up is the one `current` names.
CurrentIsUp == \A s \in Server : stage[s] = "up" <=> current = s

CallInv == CallTypes /\ InTurn /\ NotYet /\ Stopping /\ Starting /\ CurrentIsUp

\* Whom the host lists, on whichever server.
Listed == UNION {registry[s] : s \in Server}

ConnTypes ==
  /\ registry \in [Server -> SUBSET Socket]
  /\ sock \in [Socket -> {Free} \cup [of : Guest, at : Server, up : BOOLEAN]]
  /\ at \in [Guest -> Server \cup {None}]
  /\ guest \in [Guest -> {"away", "proving", "dialing", "checking", "judged",
                          "refusing", "open", "refused"}]
  /\ events \in Seq(SUBSET Socket)
\* A guest is admitted only where a server had been opened.
AdmittedAt ==
  \A g \in Guest : guest[g] \in {"checking", "judged", "refusing"} =>
    at[g] \in Server /\ stage[at[g]] \in {"keying", "up", "flushing", "closing", "gone"}
\* A listed socket is of its server, which stands on the folder.
ListedAt ==
  \A s \in Server :
    /\ \A x \in registry[s] : sock[x].at = s
    /\ registry[s] # {} => s \in Standing
\* The last push says whom the host lists; without one the panel or its answer does.
Told ==
  /\ events # <<>> => events[Len(events)] = Listed
  /\ events = <<>> /\ panel.status = "ready" => panel.list = Listed
  /\ events = <<>> /\ ask.status = "ready" /\ panel.status # "ready" => ask.list = Listed
  /\ panel = Off => ask = NotAsked

ListInv == CallInv /\ ConnTypes /\ AdmittedAt /\ ListedAt /\ Told

LEMMA CallBounds == MaxCalls \in Nat /\ Server \subseteq Nat /\ None \notin Server
BY ServerBounds DEF ServerBounds, Server, None

\* At most one call is under way.
LEMMA OneCall ==
  ASSUME InTurn, NEW c \in Server, NEW d \in Server, c # d,
         call[c] \in {"stopping", "starting"}
  PROVE  call[d] \in {"idle", "done"} \/ call[d] \notin {"stopping", "starting"}
<1>1. CASE d < c
  BY <1>1, CallBounds DEF InTurn, Server
<1>2. CASE c < d
  BY <1>2, CallBounds DEF InTurn, Server
<1> QED
  BY <1>1, <1>2, CallBounds DEF Server

LEMMA StartCalls == ServerInit => CallInv
BY CallBounds DEF ServerInit, CallInv, CallTypes, InTurn, NotYet, Stopping, Starting,
                  CurrentIsUp, Stages

LEMMA PressStep ==
  ASSUME Patient, CallInv, NEW c \in Server, Press(c)
  PROVE  CallInv'
<1> USE DEF CallInv
<1>1. /\ call[c] = "idle" /\ stage[c] = "none"
      /\ \A d \in 1 .. c - 1 : call[d] = "done"
      /\ \A d \in Server \ {c} : call[d] \in {"idle", "done"}
  <2>1. call[c] = "idle" /\ \A d \in 1 .. c - 1 : call[d] = "done"
    BY DEF Press
  <2>2. \A d \in Server \ {c} : call[d] \in {"idle", "done"}
    <3> SUFFICES ASSUME NEW d \in Server \ {c}, call[d] # "idle" PROVE call[d] = "done"
      OBVIOUS
    <3>1. CASE d < c
      BY <3>1, <2>1, CallBounds DEF Server
    <3>2. CASE c < d
      BY <3>2, <2>1, CallBounds DEF InTurn, Server
    <3> QED
      BY <3>1, <3>2, CallBounds DEF Server
  <2> QED
    BY <2>1, <2>2 DEF NotYet
<1>2. \A s \in Server : stage[s] \notin {"flushing", "closing", "opening", "keying"}
  BY <1>1 DEF Stopping, Starting
<1>3. CASE current # None /\ stop(c)
  <2>1. current \in Server /\ stage[current] = "up" /\ current # c
    BY <1>1, <1>3 DEF CallTypes, CurrentIsUp
  <2>2. CallTypes'
    BY <1>3, <2>1 DEF stop, CallTypes, Stages
  <2>3. InTurn'
    BY <1>1, <1>3, CallBounds DEF stop, InTurn, CallTypes, Server
  <2>4. NotYet' /\ Starting'
    BY <1>1, <1>2, <1>3, <2>1 DEF stop, NotYet, Starting, CallTypes
  <2>5. Stopping' /\ CurrentIsUp'
    BY <1>1, <1>2, <1>3, <2>1, CallBounds DEF stop, Stopping, CurrentIsUp, CallTypes
  <2> QED
    BY <2>2, <2>3, <2>4, <2>5
<1>4. CASE /\ current = None
           /\ call' = [call EXCEPT ![c] = "starting"]
           /\ stage' = [stage EXCEPT ![c] = "opening"]
           /\ UNCHANGED <<closes, current, registry, events>>
  <2>2. CallTypes'
    BY <1>4 DEF CallTypes, Stages
  <2>3. InTurn'
    BY <1>1, <1>4, CallBounds DEF InTurn, CallTypes, Server
  <2>4. NotYet' /\ Starting'
    BY <1>1, <1>2, <1>4 DEF NotYet, Starting, CallTypes
  <2>5. Stopping' /\ CurrentIsUp'
    BY <1>1, <1>2, <1>4, CallBounds DEF Stopping, CurrentIsUp, CallTypes
  <2> QED
    BY <2>2, <2>3, <2>4, <2>5
<1> QED
  BY <1>3, <1>4 DEF Press

LEMMA StoppedStep ==
  ASSUME CallInv, NEW c \in Server, Stopped(c)
  PROVE  CallInv' /\ closes[c] \in Server \ {c}
<1> USE DEF CallInv
<1> DEFINE s == closes[c]
<1>1. /\ call[c] = "stopping" /\ stage[s] = "closing" /\ current = None
      /\ stage[c] = "none" /\ s \in Server \ {c}
  BY DEF Stopped, Stopping, NotYet, CallTypes
<1>2. /\ closes' = [closes EXCEPT ![c] = None] /\ call' = [call EXCEPT ![c] = "starting"]
      /\ stage' = [stage EXCEPT ![s] = "gone", ![c] = "opening"] /\ current' = current
  BY <1>1 DEF Stopped
<1>3. \A d \in Server \ {c} : call[d] \notin {"stopping", "starting"}
  BY <1>1, OneCall
<1>4. \A d \in Server \ {c, s} : stage[d] \notin {"flushing", "closing", "opening", "keying"}
  BY <1>3 DEF Stopping, Starting
<1>5. CallTypes'
  BY <1>1, <1>2 DEF CallTypes, Stages
<1>6. InTurn'
  BY <1>1, <1>2, CallBounds DEF InTurn, CallTypes, Server
<1>7. call[s] \notin {"idle", "stopping", "starting"}
  BY <1>1, <1>3 DEF NotYet
<1>8. NotYet' /\ Starting'
  BY <1>1, <1>2, <1>4, <1>7, <1>3 DEF NotYet, Starting, CallTypes
<1>9. Stopping' /\ CurrentIsUp'
  BY <1>1, <1>2, <1>3, <1>4, CallBounds DEF Stopping, CurrentIsUp, CallTypes
<1> QED
  BY <1>1, <1>5, <1>6, <1>8, <1>9

LEMMA OtherCallStep ==
  ASSUME CallInv, NEW c \in Server, Flushed(c) \/ Opened(c) \/ StartFails(c) \/ Keyed(c)
  PROVE  CallInv'
<1> USE DEF CallInv
<1>1. CASE Flushed(c)
  <2>1. CallTypes' /\ InTurn' /\ NotYet' /\ Starting'
    BY <1>1 DEF Flushed, CallTypes, Stages, InTurn, NotYet, Starting
  <2>2. Stopping' /\ CurrentIsUp'
    BY <1>1, CallBounds DEF Flushed, CallTypes, Stopping, CurrentIsUp
  <2> QED
    BY <2>1, <2>2
<1>2. CASE Opened(c)
  <2>1. CallTypes' /\ InTurn' /\ NotYet' /\ Starting'
    BY <1>2 DEF Opened, CallTypes, Stages, InTurn, NotYet, Starting
  <2>2. Stopping' /\ CurrentIsUp'
    BY <1>2, CallBounds DEF Opened, CallTypes, Stopping, CurrentIsUp
  <2> QED
    BY <2>1, <2>2
<1>3. ASSUME StartFails(c) \/ Keyed(c) PROVE CallInv'
  <2>1. call[c] = "starting" /\ current = None /\ call' = [call EXCEPT ![c] = "done"]
    BY <1>3 DEF StartFails, Keyed, Starting
  <2>2. \A d \in Server \ {c} : call[d] \notin {"stopping", "starting"}
    BY <2>1, OneCall
  <2>3. InTurn'
    BY <2>1, CallBounds DEF InTurn, CallTypes, Server
  <2>4. CASE StartFails(c)
    <3>1. CallTypes' /\ NotYet' /\ Starting'
      BY <2>1, <2>4 DEF StartFails, CallTypes, Stages, NotYet, Starting
    <3>2. Stopping' /\ CurrentIsUp'
      BY <2>1, <2>2, <2>4, CallBounds DEF StartFails, CallTypes, Stopping, CurrentIsUp
    <3> QED
      BY <2>3, <3>1, <3>2
  <2>5. CASE Keyed(c)
    <3>1. CallTypes' /\ NotYet' /\ Starting'
      BY <2>1, <2>2, <2>5 DEF Keyed, CallTypes, Stages, NotYet, Starting
    <3>2. Stopping' /\ CurrentIsUp'
      BY <2>1, <2>2, <2>5, CallBounds DEF Keyed, CallTypes, Stopping, CurrentIsUp
    <3> QED
      BY <2>3, <3>1, <3>2
  <2> QED
    BY <1>3, <2>4, <2>5
<1> QED
  BY <1>1, <1>2, <1>3

LEMMA ServersUnchanged ==
  ASSUME CallInv, UNCHANGED servers
  PROVE  CallInv' /\ Standing' = Standing
BY DEF servers, CallInv, CallTypes, InTurn, NotYet, Stopping, Starting, CurrentIsUp, Standing

LEMMA GuestsLeaveServers ==
  ASSUME NEW g \in Guest, Dials(g) \/ Revoke(g)
  PROVE  UNCHANGED servers
BY DEF Dials, connect, issue, Unproven, Upgrade, Unanswered, isRevoked, HandleUpgrade, Revoke

LEMMA WireLeavesServers ==
  ASSUME NEW x \in Socket, Wire(x)
  PROVE  UNCHANGED servers
BY DEF Wire, Leave, Vanish, Terminated, heartbeat, pong, Closes

LEMMA PanelLeavesServers == Panel => UNCHANGED servers
BY DEF Panel, refresh, GetConnectedDevices, answered, Pushed

LEMMA CallStep == Patient /\ CallInv /\ [ServerNext]_serverVars => CallInv'
<1> SUFFICES ASSUME Patient, CallInv, [ServerNext]_serverVars PROVE CallInv'
  OBVIOUS
<1>1. ASSUME NEW c \in Server, Host(c) PROVE CallInv'
  <2>1. CASE lapse(c)
    BY <2>1, ServersUnchanged DEF lapse
  <2> QED
    BY <1>1, <2>1, PressStep, StoppedStep, OtherCallStep DEF Host
<1>2. CASE UNCHANGED serverVars
  BY <1>2, ServersUnchanged DEF serverVars
<1> QED
  BY <1>1, <1>2, GuestsLeaveServers, WireLeavesServers, PanelLeavesServers,
     ServersUnchanged DEF ServerNext

\* Whoever stands is current, or the call under way is closing or starting it.
LEMMA StandsAlone ==
  ASSUME CallInv, NEW s \in Standing, NEW t \in Standing
  PROVE  s = t
<1> USE DEF CallInv
<1>1. s \in Server /\ t \in Server
  BY DEF Standing
<1>2. ASSUME NEW r \in Standing
      PROVE  \/ current = r
             \/ call[r] = "starting" /\ current = None
             \/ \E c \in Server : call[c] = "stopping" /\ closes[c] = r /\ current = None
  <2>1. r \in Server /\ stage[r] \in {"keying", "up", "flushing", "closing"}
    BY <1>2 DEF Standing
  <2>2. CASE stage[r] = "up"
    BY <2>1, <2>2 DEF CurrentIsUp
  <2>3. CASE stage[r] = "keying"
    BY <2>1, <2>3 DEF Starting
  <2>4. CASE stage[r] \in {"flushing", "closing"}
    BY <2>1, <2>4 DEF Stopping
  <2> QED
    BY <2>1, <2>2, <2>3, <2>4
<1>3. \A c, d \in Server : call[c] \in {"stopping", "starting"}
                          /\ call[d] \in {"stopping", "starting"} => c = d
  BY OneCall
<1>4. current \in Server => current # None
  BY CallBounds
<1> QED
  BY <1>1, <1>2, <1>3, <1>4

\* A restart closes the old server before it opens the next (startSyncServer,
\* stopSyncServer), if a checkbox waits for the answer of the last press.
THEOREM OneServerStands == ASSUME Patient PROVE ServerSpec => []OneServer
<1>1. ASSUME CallInv PROVE OneServer
  <2>1. CASE Standing = {}
    BY <2>1, FS_EmptySet DEF OneServer
  <2>2. ASSUME NEW s \in Standing PROVE OneServer
    <3>1. Standing = {s}
      BY <1>1, <2>2, StandsAlone
    <3> QED
      BY <3>1, FS_Singleton DEF OneServer
  <2> QED
    BY <2>1, <2>2
<1>2. CallInv /\ [ServerNext]_serverVars => CallInv'
  BY CallStep
<1> QED
  BY <1>1, <1>2, StartCalls, PTL DEF ServerSpec

LEMMA StartList == ServerInit => ListInv
<1> SUFFICES ASSUME ServerInit PROVE ListInv
  OBVIOUS
<1>1. Listed = {}
  BY DEF ServerInit, Listed
<1>2. ConnTypes
  BY <1>1 DEF ServerInit, ConnTypes
<1>3. AdmittedAt /\ ListedAt
  BY DEF ServerInit, AdmittedAt, ListedAt
<1>4. Told
  BY DEF ServerInit, Told, Off, NotAsked, Shows
<1> QED
  BY <1>2, <1>3, <1>4, StartCalls DEF ListInv

\* Only the server that stands lists anybody.
LEMMA ListedHere ==
  ASSUME ListInv, NEW s \in Standing
  PROVE  Listed = registry[s] /\ \A t \in Server \ {s} : registry[t] = {}
<1>1. s \in Server
  BY DEF Standing
<1>2. \A t \in Server \ {s} : registry[t] = {}
  BY StandsAlone DEF ListInv, ListedAt
<1>3. \A x : x \in Listed <=> x \in registry[s]
  BY <1>1, <1>2 DEF Listed
<1> QED
  BY <1>2, <1>3

\* A step that changes no list and sends nothing, nor touches the panel.
LEMMA ListUnchanged ==
  ASSUME Told, UNCHANGED <<registry, events, panel, ask>>
  PROVE  Told'
<1>1. Listed' = Listed
  BY DEF Listed
<1> QED
  BY <1>1 DEF Told

\* A change of the one list is pushed.
LEMMA ListPushed ==
  ASSUME Told, ConnTypes, NEW list \in SUBSET Socket, Listed' = list,
         emitConnections(list), UNCHANGED <<panel, ask>>
  PROVE  Told' /\ events' \in Seq(SUBSET Socket)
<1>1. events' = Append(events, list) /\ events \in Seq(SUBSET Socket)
  BY DEF emitConnections, ConnTypes
<1>2. events' \in Seq(SUBSET Socket) /\ events' # <<>> /\ events'[Len(events')] = list
  BY <1>1
<1> QED
  BY <1>2 DEF Told

LEMMA ListPressStep ==
  ASSUME Patient, ListInv, NEW c \in Server, Press(c)
  PROVE  ListInv'
<1>1. CallInv' /\ CallInv
  BY PressStep DEF ListInv
<1>2. UNCHANGED <<sock, at, guest, panel, ask>>
  BY DEF Press, guests, window
<1>3. CASE current # None /\ stop(c)
  <2>1. current \in Server /\ stage[current] = "up" /\ current \in Standing /\ current # c
    BY <1>1, <1>3 DEF CallInv, CallTypes, CurrentIsUp, Standing, NotYet, Press
  <2>2. registry' = [registry EXCEPT ![current] = {}] /\ emitConnections({})
        /\ stage' = [stage EXCEPT ![current] = "flushing"]
    BY <1>3 DEF stop
  <2>3. \A t \in Server : registry'[t] = {}
    BY <2>1, <2>2, ListedHere DEF ListInv, ConnTypes
  <2>4. Listed' = {}
    BY <2>3 DEF Listed
  <2>5. Told' /\ events' \in Seq(SUBSET Socket)
    BY <1>2, <2>2, <2>4, ListPushed DEF ListInv
  <2>6. ConnTypes'
    BY <1>2, <2>1, <2>2, <2>5 DEF ListInv, ConnTypes
  <2>7. AdmittedAt' /\ ListedAt'
    BY <1>1, <1>2, <2>1, <2>2, <2>3 DEF ListInv, AdmittedAt, ListedAt, CallInv, CallTypes
  <2> QED
    BY <1>1, <2>5, <2>6, <2>7 DEF ListInv
<1>4. CASE /\ current = None
           /\ call' = [call EXCEPT ![c] = "starting"]
           /\ stage' = [stage EXCEPT ![c] = "opening"]
           /\ UNCHANGED <<closes, current, registry, events>>
  <2>1. stage[c] = "none"
    BY <1>1 DEF CallInv, NotYet, Press
  <2>2. ConnTypes' /\ Told'
    BY <1>2, <1>4, ListUnchanged DEF ListInv, ConnTypes
  <2>3. AdmittedAt' /\ ListedAt'
    BY <1>1, <1>2, <1>4, <2>1 DEF ListInv, AdmittedAt, ListedAt, CallInv, CallTypes, Standing
  <2> QED
    BY <1>1, <2>2, <2>3 DEF ListInv
<1> QED
  BY <1>3, <1>4 DEF Press

\* The other steps of a call move its server on, and a server that ends has
\* no socket left.
LEMMA ListHostStep ==
  ASSUME Patient, ListInv, NEW c \in Server, Host(c), ~Press(c)
  PROVE  ListInv'
<1>1. UNCHANGED <<registry, sock, at, guest, events, panel, ask>>
  BY DEF Host, Flushed, Stopped, Opened, StartFails, Keyed, lapse, conns, guests, window
<1>2. ConnTypes' /\ Told'
  BY <1>1, ListUnchanged DEF ListInv, ConnTypes
<1>3. CallInv' /\ CallTypes
  <2>1. CallInv'
    BY CallStep DEF ListInv, ServerNext
  <2> QED
    BY <2>1 DEF ListInv, CallInv
<1>4. AdmittedAt' /\ ListedAt'
  <2>1. CASE Stopped(c)
    <3> DEFINE s == closes[c]
    <3>1. s \in Server /\ stage[c] = "none" /\ stage[s] = "closing"
      BY <2>1, StoppedStep DEF ListInv, CallInv, NotYet, Stopped
    <3>2. registry[s] = {}
      BY <2>1, <3>1 DEF Stopped, Sockets, ListInv, ListedAt, ConnTypes
    <3>3. stage' = [stage EXCEPT ![s] = "gone",
                                 ![c] = IF current = None THEN "opening" ELSE @]
      BY <2>1 DEF Stopped
    <3> QED
      BY <1>1, <1>3, <3>1, <3>2, <3>3 DEF ListInv, AdmittedAt, ListedAt, CallTypes, Standing
  <2>2. CASE Flushed(c)
    BY <1>1, <1>3, <2>2 DEF Flushed, ListInv, AdmittedAt, ListedAt, CallTypes, Standing
  <2>3. CASE Opened(c)
    BY <1>1, <1>3, <2>3 DEF Opened, ListInv, AdmittedAt, ListedAt, CallTypes, Standing
  <2>4. CASE StartFails(c)
    BY <1>1, <1>3, <2>4 DEF StartFails, ListInv, AdmittedAt, ListedAt, CallTypes, Standing
  <2>5. CASE Keyed(c)
    BY <1>1, <1>3, <2>5 DEF Keyed, ListInv, AdmittedAt, ListedAt, CallTypes, Standing
  <2>6. CASE lapse(c)
    BY <1>1, <2>6 DEF lapse, servers, ListInv, AdmittedAt, ListedAt, Standing
  <2> QED
    BY <2>1, <2>2, <2>3, <2>4, <2>5, <2>6 DEF Host
<1> QED
  BY <1>2, <1>3, <1>4 DEF ListInv

LEMMA ListDialStep ==
  ASSUME ListInv, NEW g \in Guest, Dials(g) \/ Revoke(g)
  PROVE  ListInv'
<1>1. CallInv' /\ Standing' = Standing /\ stage' = stage
  BY GuestsLeaveServers, ServersUnchanged DEF ListInv, servers
<1>2. UNCHANGED <<panel, ask>>
  BY DEF Dials, connect, issue, Unproven, Upgrade, Unanswered, isRevoked, HandleUpgrade,
         Revoke, window
<1>3. ASSUME UNCHANGED <<registry, sock, events>>, ConnTypes', AdmittedAt'
      PROVE  ListInv'
  <2>1. Told'
    BY <1>2, <1>3, ListUnchanged DEF ListInv
  <2>2. ListedAt'
    BY <1>1, <1>3 DEF ListInv, ListedAt
  <2> QED
    BY <1>1, <1>3, <2>1, <2>2 DEF ListInv
<1>4. CASE connect(g)
  <2>1. UNCHANGED <<registry, sock, events>> /\ ConnTypes' /\ AdmittedAt'
    BY <1>1, <1>4 DEF connect, Goes, conns, ListInv, ConnTypes, AdmittedAt
  <2> QED
    BY <1>3, <2>1
<1>5. CASE issue(g)
  <2>1. UNCHANGED <<registry, sock, events>> /\ ConnTypes' /\ AdmittedAt'
    BY <1>1, <1>5 DEF issue, Goes, conns, ListInv, ConnTypes, AdmittedAt
  <2> QED
    BY <1>3, <2>1
<1>6. CASE Unproven(g)
  <2>1. UNCHANGED <<registry, sock, events>> /\ ConnTypes' /\ AdmittedAt'
    BY <1>1, <1>6 DEF Unproven, unproven, Goes, conns, ListInv, ConnTypes, AdmittedAt
  <2> QED
    BY <1>3, <2>1
<1>7. CASE Upgrade(g)
  <2>1. PICK s \in Server : /\ stage[s] \in {"keying", "up", "flushing"}
                            /\ at' = [at EXCEPT ![g] = s] /\ Goes(g, "checking")
                            /\ UNCHANGED conns
    BY <1>7 DEF Upgrade, Takes
  <2>2. UNCHANGED <<registry, sock, events>> /\ ConnTypes' /\ AdmittedAt'
    BY <1>1, <2>1 DEF Goes, conns, ListInv, ConnTypes, AdmittedAt
  <2> QED
    BY <1>3, <2>2
<1>8. CASE Unanswered(g)
  <2>1. UNCHANGED <<registry, sock, events>> /\ ConnTypes' /\ AdmittedAt'
    BY <1>1, <1>8, CallBounds DEF Unanswered, Back, Goes, conns, ListInv, ConnTypes, AdmittedAt
  <2> QED
    BY <1>3, <2>1
<1>9. CASE isRevoked(g)
  <2>1. guest[g] = "checking" /\ (Goes(g, "refusing") \/ Goes(g, "judged")) /\ at' = at
    BY <1>9 DEF isRevoked
  <2>2. UNCHANGED <<registry, sock, events>> /\ ConnTypes' /\ AdmittedAt'
    BY <1>1, <1>9, <2>1 DEF isRevoked, Goes, conns, ListInv, ConnTypes, AdmittedAt
  <2> QED
    BY <1>3, <2>2
<1>10. CASE Revoke(g)
  <2>1. UNCHANGED <<registry, sock, events>> /\ ConnTypes' /\ AdmittedAt'
    BY <1>1, <1>10 DEF Revoke, conns, ListInv, ConnTypes, AdmittedAt
  <2> QED
    BY <1>3, <2>1
<1>11. CASE handleUpgrade(g)
  <2> DEFINE s == at[g]
  <2>1. CASE Back(g) /\ UNCHANGED <<registry, alive, sock, events>>
    <3>1. ConnTypes' /\ AdmittedAt'
      BY <1>1, <2>1 DEF Back, Goes, ListInv, ConnTypes, AdmittedAt
    <3> QED
      BY <1>3, <2>1, <3>1
  <2>2. CASE Goes(g, "refused") /\ at' = [at EXCEPT ![g] = None]
             /\ UNCHANGED <<registry, alive, sock, events>>
    <3>1. ConnTypes' /\ AdmittedAt'
      BY <1>1, <2>2 DEF Goes, ListInv, ConnTypes, AdmittedAt
    <3> QED
      BY <1>3, <2>2, <3>1
  <2>3. ASSUME guest[g] = "judged", stage[s] \notin {"closing", "gone"},
               NEW x \in Socket, sock[x] = Free,
               sock' = [sock EXCEPT ![x] = [of |-> g, at |-> s, up |-> TRUE]],
               registry' = [registry EXCEPT ![s] = @ \cup {x}],
               emitConnections(registry'[s]), Goes(g, "open"), at' = at
        PROVE  ListInv'
    <3>1. s \in Server /\ s \in Standing
      BY <2>3 DEF ListInv, AdmittedAt, Standing
    <3>2. registry'[s] = registry[s] \cup {x} /\ registry'[s] \in SUBSET Socket
          /\ \A t \in Server \ {s} : registry'[t] = {}
      BY <2>3, <3>1, ListedHere DEF ListInv, ConnTypes
    <3>3. Listed' = registry'[s]
      BY <3>1, <3>2 DEF Listed
    <3>4. Told' /\ events' \in Seq(SUBSET Socket)
      BY <1>2, <2>3, <3>2, <3>3, ListPushed DEF ListInv
    <3>5. ConnTypes'
      BY <2>3, <3>1, <3>4 DEF Goes, ListInv, ConnTypes
    <3>6. AdmittedAt'
      BY <1>1, <2>3 DEF Goes, ListInv, ConnTypes, AdmittedAt
    <3>7. ListedAt'
      <4>1. sock'[x].at = s /\ \A y \in Socket \ {x} : sock'[y] = sock[y]
        BY <2>3 DEF ListInv, ConnTypes
      <4>2. \A y \in registry[s] : y \in Socket /\ sock[y].at = s
        BY <3>1 DEF ListInv, ConnTypes, ListedAt
      <4> QED
        BY <1>1, <3>1, <3>2, <4>1, <4>2 DEF ListedAt
    <3> QED
      BY <1>1, <3>4, <3>5, <3>6, <3>7 DEF ListInv
  <2> QED
    BY <1>11, <2>1, <2>2, <2>3 DEF handleUpgrade
<1> QED
  BY <1>4, <1>5, <1>6, <1>7, <1>8, <1>9, <1>10, <1>11 DEF Dials, HandleUpgrade

\* A closed socket leaves the list it is on, if it is on one.
LEMMA ListClosesStep ==
  ASSUME ListInv, NEW x \in Socket, sock[x] # Free, Closes(x)
  PROVE  ListInv'
<1> DEFINE s == sock[x].at
<1>1. CallInv' /\ Standing' = Standing /\ stage' = stage
  BY ServersUnchanged DEF ListInv, servers, Closes
<1>2. s \in Server /\ sock[x].of \in Guest /\ UNCHANGED <<panel, ask>>
      /\ sock' = [sock EXCEPT ![x] = Free]
  BY DEF Closes, window, ListInv, ConnTypes
<1>3. guest' \in [Guest -> {"away", "proving", "dialing", "checking", "judged",
                          "refusing", "open", "refused"}]
      /\ at' \in [Guest -> Server \cup {None}]
      /\ AdmittedAt'
  <2>1. CASE Back(sock[x].of)
    BY <1>1, <1>2, <2>1 DEF Back, Goes, ListInv, ConnTypes, AdmittedAt
  <2>2. CASE UNCHANGED <<guest, at, proven>>
    BY <1>1, <2>2 DEF ListInv, ConnTypes, AdmittedAt
  <2> QED
    BY <2>1, <2>2 DEF Closes
<1>4. \A t \in Server : x \in registry[t] => t = s
  BY DEF ListInv, ListedAt
<1>5. CASE x \notin registry[s]
  <2>1. UNCHANGED <<registry, events>>
    BY <1>5 DEF Closes, remove
  <2>2. Told' /\ ConnTypes'
    BY <1>2, <1>3, <2>1, ListUnchanged DEF ListInv, ConnTypes
  <2>3. ListedAt'
    BY <1>1, <1>2, <1>4, <1>5, <2>1 DEF ListInv, ListedAt, ConnTypes
  <2> QED
    BY <1>1, <1>3, <2>2, <2>3 DEF ListInv
<1>6. CASE x \in registry[s]
  <2>1. registry' = [registry EXCEPT ![s] = @ \ {x}] /\ emitConnections(registry'[s])
    BY <1>6 DEF Closes, remove
  <2>2. s \in Standing
    BY <1>2, <1>6 DEF ListInv, ListedAt
  <2>3. registry'[s] = registry[s] \ {x} /\ registry'[s] \in SUBSET Socket
        /\ \A t \in Server \ {s} : registry'[t] = {}
    BY <1>2, <2>1, <2>2, ListedHere DEF ListInv, ConnTypes
  <2>4. Listed' = registry'[s]
    BY <1>2, <2>3 DEF Listed
  <2>5. Told' /\ events' \in Seq(SUBSET Socket)
    BY <1>2, <2>1, <2>3, <2>4, ListPushed DEF ListInv
  <2>6. ConnTypes'
    BY <1>2, <1>3, <2>1, <2>5 DEF ListInv, ConnTypes
  <2>7. ListedAt'
    BY <1>1, <1>2, <2>2, <2>3 DEF ListInv, ListedAt, ConnTypes
  <2> QED
    BY <1>1, <1>3, <2>5, <2>6, <2>7 DEF ListInv
<1> QED
  BY <1>5, <1>6

LEMMA ListWireStep ==
  ASSUME ListInv, NEW x \in Socket, Wire(x)
  PROVE  ListInv'
<1>1. CASE Closes(x) /\ sock[x] # Free
  BY <1>1, ListClosesStep
<1>2. sock[x].up => sock[x] # Free
  BY DEF Free
<1>3. CASE Vanish(x)
  <2>1. CallInv' /\ Standing' = Standing /\ stage' = stage
    BY <1>3, ServersUnchanged DEF Vanish, ListInv, servers
  <2>2. UNCHANGED <<registry, events, panel, ask>> /\ Back(sock[x].of)
        /\ sock' = [sock EXCEPT ![x].up = FALSE]
    BY <1>3 DEF Vanish, window
  <2>3. sock[x] \in [of : Guest, at : Server, up : BOOLEAN]
    BY <1>2, <1>3 DEF Vanish, ListInv, ConnTypes
  <2>4. ConnTypes'
    BY <2>2, <2>3 DEF Back, Goes, ListInv, ConnTypes
  <2>5. AdmittedAt'
    BY <2>1, <2>2, <2>3 DEF Back, Goes, ListInv, ConnTypes, AdmittedAt
  <2>6. \A y \in Socket : sock'[y].at = sock[y].at
    BY <2>2, <2>3 DEF ListInv, ConnTypes
  <2>7. ListedAt' /\ Told'
    BY <2>1, <2>2, <2>6, ListUnchanged DEF ListInv, ListedAt, ConnTypes
  <2> QED
    BY <2>1, <2>4, <2>5, <2>7 DEF ListInv
<1>4. CASE UNCHANGED <<servers, registry, sock, events, guests, window>>
  BY <1>4, ListUnchanged, ServersUnchanged
     DEF ListInv, ConnTypes, AdmittedAt, ListedAt, guests, window, servers
<1> QED
  BY <1>1, <1>2, <1>3, <1>4 DEF Wire, Leave, Terminated, heartbeat, pong

\* The panel takes what is newest: the last push, else the snapshot.
LEMMA ListPanelStep ==
  ASSUME ListInv, Panel
  PROVE  ListInv'
<1>1. CallInv' /\ Standing' = Standing /\ stage' = stage
  BY PanelLeavesServers, ServersUnchanged DEF ListInv, servers
<1>2. UNCHANGED <<registry, sock, guest, at>> /\ Listed' = Listed
  BY DEF Panel, refresh, GetConnectedDevices, answered, Pushed, conns, guests, Listed
<1>3. AdmittedAt' /\ ListedAt'
  BY <1>1, <1>2 DEF ListInv, AdmittedAt, ListedAt
<1>4. ASSUME events' = events PROVE ConnTypes'
  BY <1>2, <1>4 DEF ListInv, ConnTypes
<1>5. CASE refresh
  <2>1. Told'
    BY <1>2, <1>5 DEF refresh, conns, ListInv, Told, Loading, Asked, Off, Shows
  <2> QED
    BY <1>1, <1>3, <1>4, <1>5, <2>1 DEF ListInv, refresh, conns
<1>6. CASE GetConnectedDevices
  <2>1. current # None => current \in Standing
    BY DEF ListInv, CallInv, CallTypes, CurrentIsUp, Standing
  <2>2. ask'.status = "ready" => ask'.list = Listed
    BY <1>6, <2>1, ListedHere DEF GetConnectedDevices, Refusal, Shows
  <2>3. panel # Off
    BY <1>6 DEF GetConnectedDevices, ListInv, Told, Asked, NotAsked, Shows
  <2>4. Told'
    BY <1>2, <1>6, <2>2, <2>3 DEF GetConnectedDevices, conns, ListInv, Told
  <2> QED
    BY <1>1, <1>3, <1>4, <1>6, <2>4 DEF ListInv, GetConnectedDevices, conns
<1>7. CASE answered
  <2>1. Told'
    BY <1>2, <1>7 DEF answered, conns, ListInv, Told, NotAsked, Shows
  <2> QED
    BY <1>1, <1>3, <1>4, <1>7, <2>1 DEF ListInv, answered, conns
<1>8. CASE Pushed
  <2>1. events \in Seq(SUBSET Socket) /\ events # <<>> /\ events' = Tail(events)
        /\ events[Len(events)] = Listed
    BY <1>8 DEF Pushed, ListInv, ConnTypes, Told
  <2>2. events' \in Seq(SUBSET Socket)
        /\ (events' # <<>> => events'[Len(events')] = Listed)
        /\ (events' = <<>> => Head(events) = Listed)
    <3>1. Len(events) \in Nat \ {0} /\ events' \in Seq(SUBSET Socket)
          /\ Len(events') = Len(events) - 1 /\ Head(events) = events[1]
          /\ \A i \in 1 .. Len(events') : events'[i] = events[i + 1]
      BY <2>1
    <3>2. events' = <<>> => Len(events) = 1
      BY <3>1
    <3>3. events' # <<>> => Len(events') \in 1 .. Len(events')
      BY <3>1
    <3> QED
      BY <2>1, <3>1, <3>2, <3>3
  <2>3. ConnTypes'
    BY <1>2, <2>2 DEF ListInv, ConnTypes
  <2>4. CASE panel = Off
    <3>1. panel' = Off /\ ask = NotAsked /\ ask' = ask
      BY <1>8, <2>4 DEF Pushed, ListInv, Told
    <3>2. Told'
      BY <1>2, <2>2, <3>1 DEF Told, Off, NotAsked, Shows
    <3> QED
      BY <1>1, <1>3, <2>3, <3>2 DEF ListInv
  <2>5. CASE panel # Off
    <3>1. panel' = Shows("ready", Head(events)) /\ ask' = ask
      BY <1>8, <2>5 DEF Pushed
    <3>2. Told'
      BY <1>2, <2>2, <3>1 DEF Told, Off, Shows
    <3> QED
      BY <1>1, <1>3, <2>3, <3>2 DEF ListInv
  <2> QED
    BY <2>4, <2>5
<1> QED
  BY <1>5, <1>6, <1>7, <1>8 DEF Panel

LEMMA ListStep == Patient /\ ListInv /\ [ServerNext]_serverVars => ListInv'
<1> SUFFICES ASSUME Patient, ListInv, [ServerNext]_serverVars PROVE ListInv'
  OBVIOUS
<1>1. CASE UNCHANGED serverVars
  BY <1>1, ListUnchanged, ServersUnchanged
     DEF serverVars, servers, conns, guests, window, ListInv, ConnTypes, AdmittedAt, ListedAt
<1>2. ASSUME NEW c \in Server, Host(c) PROVE ListInv'
  BY <1>2, ListPressStep, ListHostStep
<1> QED
  BY <1>1, <1>2, ListDialStep, ListWireStep, ListPanelStep DEF ServerNext

\* A panel with nothing under way shows whom the host lists (useConnectedDevices.ts),
\* however snapshots, pushes and a restart overtake each other.
THEOREM ThePanelIsRight == ASSUME Patient PROVE ServerSpec => []PanelIsRight
<1>1. ASSUME ListInv PROVE PanelIsRight
  <2> SUFFICES ASSUME panel.status = "ready", events = <<>>,
                      \A c \in Server : call[c] \in {"idle", "done"}
               PROVE  panel.list = IF current = None THEN {} ELSE registry[current]
    BY DEF PanelIsRight
  <2>1. panel.list = Listed
    BY <1>1 DEF ListInv, Told
  <2>2. CASE current # None
    <3>1. current \in Standing
      BY <1>1, <2>2 DEF ListInv, CallInv, CallTypes, CurrentIsUp, Standing
    <3> QED
      BY <1>1, <2>1, <2>2, <3>1, ListedHere
  <2>3. CASE current = None
    <3>1. Standing = {}
      BY <1>1, <2>3, CallBounds
         DEF ListInv, CallInv, CurrentIsUp, Starting, Stopping, Standing
    <3>2. Listed = {}
      BY <1>1, <3>1 DEF ListInv, ListedAt, Listed
    <3> QED
      BY <2>1, <2>3, <3>2
  <2> QED
    BY <2>2, <2>3
<1>2. ListInv /\ [ServerNext]_serverVars => ListInv'
  BY ListStep
<1> QED
  BY <1>1, <1>2, StartList, PTL DEF ServerSpec
=============================================================================
