---------------------------- MODULE ProvenanceProofs ----------------------------
(***************************************************************************)
(* Proofs about Provenance: a claim keeps one receipt per host, an honest  *)
(* recording is never called tampered with, and a take that is said to     *)
(* stand was received before the device was withdrawn, for any number of   *)
(* uploads, claims, receipts and mishaps.                                  *)
(*                                                                         *)
(* And about PersonKey, the keys that sign: a page shows the key that is   *)
(* stored, a mark that a person joined, was recorded or was backed up is   *)
(* true of that key, and a stored key stays until the storage is lost.     *)
(***************************************************************************)
EXTENDS Provenance, PersonKey, FiniteSetTheorems, SequenceTheorems, WellFoundedInduction, TLAPS

\* What an upload may store and list: its claim, the certificate or vouch, and
\* the receipt it uses.
Mine(u) == {The("claim", ClaimOf[u]), The("link", ClaimOf[u])}
              \cup (IF ups[u].mine = 0 THEN {} ELSE {<<"receipt", ClaimOf[u], ups[u].mine>>})

Stages == {"idle", "locked", "ingesting", "verified", "checked", "done"}
UploadStates == [pc : Stages, mine : 0 .. MaxReceipts, isNew : BOOLEAN,
                 todo : Seq(Statements), got : SUBSET Statements, names : BOOLEAN]

TypeOK ==
    /\ ups \in [Uploads -> UploadStates]
    /\ queue \in [Claims -> Seq(Uploads)]
    /\ held \subseteq Statements /\ ever \subseteq Statements /\ lostIndex \subseteq Statements
    /\ told \subseteq Claims
    /\ index \in [Claims -> 0 .. MaxReceipts]
    /\ mishaps \in 0 .. MaxMishaps
    /\ listed \in [Claims -> SUBSET Statements]
    /\ revoked \in Seq({0, 1})
    /\ stamp \in [Claims -> [1 .. MaxReceipts -> Nat]]
    /\ received \in [Claims -> Nat]
    /\ deleted \subseteq Claims

\* The lock: who is in it waits or works, once, and only the first works.
Locks ==
    /\ \A u \in Uploads : ups[u].pc \in {"locked", "ingesting"} <=> u \in ToSet(queue[ClaimOf[u]])
    /\ \A c \in Claims : \A i, j \in 1 .. Len(queue[c]) : queue[c][i] = queue[c][j] => i = j
    /\ \A c \in Claims : \A i \in 1 .. Len(queue[c]) : ClaimOf[queue[c][i]] = c
    /\ \A u \in Uploads : ups[u].pc = "ingesting" => holdsLock(u)
    /\ \A u \in Uploads : ups[u].isNew => ups[u].pc = "ingesting"

\* What an upload works with is its own, and what it stored was held.
OwnWork ==
    \A u \in Uploads : /\ ups[u].todo \in Seq(Mine(u))
                       /\ ups[u].got \subseteq Mine(u) /\ ups[u].got \subseteq ever
                       /\ ups[u].pc \notin {"ingesting", "verified"} => ups[u].got = {}

\* The receipts of a claim that were ever held.
Held(c) == {n \in 1 .. MaxReceipts : <<"receipt", c, n>> \in ever}

\* Receipts are numbered without a gap; the one being made is the next.
Numbered ==
    /\ held \subseteq ever
    /\ \A c \in Claims : \A n \in Held(c) : \A m \in 1 .. n : m \in Held(c)
    /\ \A u \in Uploads : ups[u].isNew =>
          /\ ups[u].mine # 0
          /\ \A m \in 1 .. ups[u].mine - 1 : m \in Held(ClaimOf[u])
          /\ \A n \in Held(ClaimOf[u]) : n <= ups[u].mine
          /\ ups[u].mine \in Held(ClaimOf[u]) => <<"receipt", ClaimOf[u], ups[u].mine>> \in ups[u].got
    /\ \A c \in Claims : index[c] # 0 => index[c] \in Held(c)

\* A receipt that is stored and not lost is the one the index names, or one that
\* the holder of the lock is about to index; then the index's is gone.
OneKept ==
    /\ \A c \in Claims, n \in 1 .. MaxReceipts :
          <<"receipt", c, n>> \in held \ lostIndex =>
             \/ index[c] = n
             \/ \E u \in Uploads : ClaimOf[u] = c /\ ups[u].isNew /\ ups[u].mine = n
    /\ \A u \in Uploads : ups[u].isNew =>
          /\ ups[u].mine # index[ClaimOf[u]]
          /\ index[ClaimOf[u]] # 0 => <<"receipt", ClaimOf[u], index[ClaimOf[u]]>> \notin held
    /\ \A u \in Uploads : ups[u].pc = "ingesting" /\ ~ups[u].isNew /\ ups[u].mine # 0 =>
          ups[u].mine = index[ClaimOf[u]]

\* Each signer withdraws once, the host only what it vouched for; and a revocation
\* is listed beside what it withdraws.
Withdrawn ==
    /\ \A i, j \in 1 .. Len(revoked) : revoked[i] = revoked[j] => i = j
    /\ 1 \in ToSet(revoked) => ViaVouch
    /\ \A c \in Claims : \A x \in listed[c] : x[1] = "revocation" =>
          x[3] \in ToSet(revoked) /\ The("link", c) \in listed[c]
    /\ \A u \in Uploads : ups[u].pc = "checked" /\ BodyOf[u] = "revocation" =>
          /\ 0 \in ToSet(revoked)
          /\ ClaimOf[u] \in deleted \/ The("link", ClaimOf[u]) \in listed[ClaimOf[u]]
    /\ \A c \in deleted : listed[c] = {}

\* A receipt is stamped after the audio came.
Came(c, n) == received[c] <= Now /\ received[c] <= stamp[c][n]
Stamped ==
    /\ Now <= 2
    /\ \A c \in Claims : received[c] = Never \/ received[c] <= Now
    /\ \A u \in Uploads : ups[u].pc \in {"locked", "ingesting"} => received[ClaimOf[u]] <= Now
    /\ \A c \in Claims : \A n \in Held(c) : Came(c, n)
    /\ \A u \in Uploads : ups[u].isNew => Came(ClaimOf[u], ups[u].mine)
    /\ \A c \in Claims : \A x \in listed[c] : x[1] = "receipt" => x[2] = c /\ x[3] # 0

Inv == TypeOK /\ Locks /\ OwnWork /\ Numbered /\ OneKept /\ Withdrawn /\ Stamped

LEMMA Constants ==
    /\ MaxReceipts \in Nat \ {0} /\ MaxMishaps \in Nat
    /\ \A u \in Uploads : ClaimOf[u] \in Claims /\ BodyOf[u] \in Kinds
BY IngestAssumption DEF Kinds

LEMMA StatementsAre ==
    /\ \A k \in Kinds, c \in Claims, n \in 0 .. MaxReceipts : <<k, c, n>> \in Statements
    /\ \A k \in Kinds, c \in Claims : The(k, c) \in Statements /\ Withdrawal(c, 1) \in Statements
    /\ \A u \in Uploads : TypeOK => Mine(u) \subseteq Statements
<1>1. \A k \in Kinds, c \in Claims, n \in 0 .. MaxReceipts : <<k, c, n>> \in Statements
  BY DEF Statements
<1>2. \A k \in Kinds, c \in Claims : The(k, c) \in Statements /\ Withdrawal(c, 1) \in Statements
  BY <1>1, Constants DEF The, Withdrawal, Kinds
<1>3. ASSUME NEW u \in Uploads, TypeOK PROVE Mine(u) \subseteq Statements
  <2>1. ups[u].mine \in 0 .. MaxReceipts
    BY <1>3 DEF TypeOK, UploadStates
  <2> QED BY <1>1, <1>2, <2>1, Constants DEF Mine, Kinds
<1> QED BY <1>1, <1>2, <1>3

LEMMA IdleIs ==
    /\ Idle \in UploadStates /\ [Idle EXCEPT !.pc = "done"] \in UploadStates
    /\ Idle.pc = "idle" /\ Idle.mine = 0 /\ Idle.isNew = FALSE /\ Idle.todo = <<>> /\ Idle.got = {}
    /\ [Idle EXCEPT !.pc = "done"].pc = "done" /\ [Idle EXCEPT !.pc = "done"].mine = 0
    /\ [Idle EXCEPT !.pc = "done"].isNew = FALSE
    /\ [Idle EXCEPT !.pc = "done"].todo = <<>> /\ [Idle EXCEPT !.pc = "done"].got = {}
<1>1. Idle \in UploadStates
  BY Constants, EmptySeq DEF Idle, UploadStates, Stages
<1>2. Idle.pc = "idle" /\ Idle.mine = 0 /\ Idle.isNew = FALSE /\ Idle.todo = <<>> /\ Idle.got = {}
  BY DEF Idle
<1> DEFINE w == [Idle EXCEPT !.pc = "done"]
<1>3. w \in UploadStates
  BY ONLY <1>1 DEF UploadStates, Stages
<1>4. /\ w.pc = "done" /\ w.mine = Idle.mine /\ w.isNew = Idle.isNew
      /\ w.todo = Idle.todo /\ w.got = Idle.got
  BY ONLY <1>1 DEF UploadStates
<1> QED BY <1>1, <1>2, <1>3, <1>4

\* An upload's record by its fields.
LEMMA Fields ==
    ASSUME TypeOK, NEW u \in Uploads
    PROVE  /\ ups[u] \in UploadStates /\ ups[u].pc \in Stages
           /\ ups[u].mine \in 0 .. MaxReceipts
           /\ ups[u].todo \in Seq(Statements) /\ ups[u].got \subseteq Statements
           /\ ClaimOf[u] \in Claims
BY Constants DEF TypeOK, UploadStates

\* One upload's record is replaced.
LEMMA Replaced ==
    ASSUME TypeOK, NEW u \in Uploads, NEW w \in UploadStates, ups' = [ups EXCEPT ![u] = w]
    PROVE  /\ ups' \in [Uploads -> UploadStates] /\ ups'[u] = w
           /\ \A v \in Uploads \ {u} : ups'[v] = ups[v]
BY DEF TypeOK

LEMMA Mishap ==
    ASSUME TypeOK, NEW fails \in BOOLEAN, MayFail(fails)
    PROVE  mishaps' \in 0 .. MaxMishaps
BY Constants DEF TypeOK, MayFail

LEMMA HoldTypes ==
    ASSUME TypeOK, held \subseteq ever, NEW S \in SUBSET Statements, Hold(S)
    PROVE  held' \subseteq Statements /\ ever' \subseteq Statements /\ held' \subseteq ever'
BY DEF TypeOK, Hold

LEMMA InitInv == Init => Inv
<1> SUFFICES ASSUME Init PROVE Inv
  OBVIOUS
<1> USE DEF Init, IngestInit
<1>1. \A u \in Uploads : ups[u] = Idle
  OBVIOUS
<1>2. TypeOK
  <2>1. ups \in [Uploads -> UploadStates]
    BY IdleIs
  <2>2. revoked \in Seq({0, 1}) /\ queue \in [Claims -> Seq(Uploads)]
    BY EmptySeq
  <2>3. /\ held \subseteq Statements /\ ever \subseteq Statements /\ lostIndex \subseteq Statements
        /\ told \subseteq Claims /\ deleted \subseteq Claims
        /\ index \in [Claims -> 0 .. MaxReceipts] /\ mishaps \in 0 .. MaxMishaps
        /\ listed \in [Claims -> SUBSET Statements]
        /\ stamp \in [Claims -> [1 .. MaxReceipts -> Nat]] /\ received \in [Claims -> Nat]
    BY Constants DEF Never
  <2> QED BY ONLY <2>1, <2>2, <2>3 DEF TypeOK
<1>3. Locks
  BY <1>1, IdleIs, Constants DEF Locks, ToSet
<1>4. OwnWork
  BY <1>1, IdleIs, EmptySeq DEF OwnWork
<1>5. Numbered
  BY <1>1, IdleIs DEF Numbered, Held
<1>6. OneKept
  BY <1>1, IdleIs DEF OneKept
<1>7. Withdrawn
  BY <1>1, IdleIs DEF Withdrawn, ToSet
<1>8. Stamped
  BY <1>1, IdleIs DEF Stamped, Held, Now, Never
<1> QED BY <1>2, <1>3, <1>4, <1>5, <1>6, <1>7, <1>8 DEF Inv

-----------------------------------------------------------------------------
(***************************************************************************)
(* What each step does to an upload and to the lock of its claim.          *)
(***************************************************************************)
Others(u) == \A v \in Uploads \ {u} : ups'[v] = ups[v]

LEMMA UploadDoes ==
    ASSUME Inv, NEW u \in Uploads, handleUpload(u)
    PROVE  /\ ups' \in [Uploads -> UploadStates] /\ Others(u)
           /\ ups[u].pc = "idle" /\ ups'[u].pc \in {"locked", "done"}
           /\ ups'[u].mine = ups[u].mine /\ ups'[u].isNew = ups[u].isNew
           /\ ups'[u].todo = ups[u].todo /\ ups'[u].got = ups[u].got
           /\ queue' = IF ups'[u].pc = "locked"
                 THEN [queue EXCEPT ![ClaimOf[u]] = Append(@, u)] ELSE queue
           /\ held' = held \cup {The("audio", ClaimOf[u])}
           /\ ever' = ever \cup {The("audio", ClaimOf[u])}
           /\ UNCHANGED <<index, told, mishaps, lostIndex>>
<1>1. PICK check \in ClaimVerification, names \in BOOLEAN :
        /\ ups' = [ups EXCEPT ![u].pc = IF check = "ok" THEN "locked" ELSE "done",
                              ![u].names = check = "ok" /\ names]
        /\ queue' = IF check = "ok" THEN [queue EXCEPT ![ClaimOf[u]] = Append(@, u)] ELSE queue
  BY DEF handleUpload
<1> DEFINE a == IF check = "ok" THEN "locked" ELSE "done"
           b == check = "ok" /\ names
           w == [ups[u] EXCEPT !.pc = a, !.names = b]
<1>2. ups[u] \in UploadStates /\ a \in Stages /\ b \in BOOLEAN /\ ups \in [Uploads -> UploadStates]
  BY Fields DEF Inv, Stages, TypeOK
<1>3. w \in UploadStates /\ w.pc = a /\ w.mine = ups[u].mine /\ w.isNew = ups[u].isNew
      /\ w.todo = ups[u].todo /\ w.got = ups[u].got
  <2> HIDE DEF a, b
  <2> QED BY ONLY <1>2 DEF UploadStates
<1>4. ups' = [ups EXCEPT ![u] = w]
  <2> HIDE DEF a, b
  <2>1. ups' = [ups EXCEPT ![u].pc = a, ![u].names = b]
    BY <1>1 DEF a, b
  <2> QED BY ONLY <1>2, <2>1 DEF UploadStates
<1>5. ups' \in [Uploads -> UploadStates] /\ ups'[u] = w /\ Others(u)
  <2> HIDE DEF w
  <2> QED BY <1>3, <1>4, Replaced DEF Inv, Others
<1>6. ups'[u].pc = a
  BY <1>3, <1>5
<1> HIDE DEF w
<1> QED BY <1>1, <1>3, <1>5, <1>6 DEF handleUpload, Hold

\* What a receipt for n makes of the work to do.
LEMMA WorkTypes ==
    ASSUME NEW u \in Uploads, NEW n \in 0 .. MaxReceipts
    PROVE  receiptAndStore(u, n) \in Seq({The("claim", ClaimOf[u]), The("link", ClaimOf[u])}
              \cup (IF n = 0 THEN {} ELSE {<<"receipt", ClaimOf[u], n>>}))
<1> DEFINE M == {The("claim", ClaimOf[u]), The("link", ClaimOf[u])}
                  \cup (IF n = 0 THEN {} ELSE {<<"receipt", ClaimOf[u], n>>})
           a == <<The("claim", ClaimOf[u])>>
           b == IF n = 0 THEN <<>> ELSE <<<<"receipt", ClaimOf[u], n>>>>
           d == certificateFor(u)
<1>1. a \in Seq(M)
  OBVIOUS
<1>2. b \in Seq(M)
  <2>1. CASE n = 0
    BY <2>1, EmptySeq
  <2>2. CASE n # 0
    <3> DEFINE e == <<"receipt", ClaimOf[u], n>>
    <3>1. e \in M /\ b = <<e>>
      BY <2>2
    <3> HIDE DEF e, M, b
    <3> QED BY <3>1
  <2> QED BY <2>1, <2>2
<1>3. d \in Seq(M)
  <2>1. d = <<>> \/ d = <<The("link", ClaimOf[u])>>
    BY DEF certificateFor
  <2> DEFINE e == The("link", ClaimOf[u])
  <2>2. e \in M /\ (d = <<>> \/ d = <<e>>)
    BY <2>1
  <2> HIDE DEF M, d, e
  <2>3. <<e>> \in Seq(M)
    BY <2>2
  <2> QED BY <2>2, <2>3, EmptySeq
<1>4. receiptAndStore(u, n) = a \o b \o d
  BY DEF receiptAndStore
<1> HIDE DEF M, a, b, d
<1>5. a \o b \in Seq(M)
  BY <1>1, <1>2, ConcatProperties
<1>6. (a \o b) \o d \in Seq(M)
  BY <1>3, <1>5, ConcatProperties
<1> QED BY <1>4, <1>6 DEF M

LEMMA SignedBounds ==
    ASSUME NEW c \in Claims
    PROVE  signedFor(c) \subseteq 1 .. MaxReceipts /\ IsFiniteSet(signedFor(c))
           /\ Cardinality(signedFor(c)) \in Nat
<1>1. signedFor(c) \subseteq 1 .. MaxReceipts
  BY DEF signedFor
<1>2. IsFiniteSet(signedFor(c))
  <2>1. MaxReceipts \in Int /\ 1 \in Int
    BY Constants
  <2>2. IsFiniteSet(1 .. MaxReceipts)
    BY <2>1, FS_Interval
  <2> HIDE DEF signedFor
  <2> QED BY <1>1, <2>2, FS_Subset
<1> QED BY <1>1, <1>2, FS_CardinalityType

\* The upload works with no receipt, its own from before, or the next.
LEMMA ReceiptDoes ==
    ASSUME Inv, NEW u \in Uploads, receiptFor(u)
    PROVE  /\ ups' \in [Uploads -> UploadStates] /\ Others(u)
           /\ ups[u].pc = "locked" /\ holdsLock(u)
           /\ ups'[u].pc = "ingesting" /\ ups'[u].got = ups[u].got
           /\ ups'[u].todo = receiptAndStore(u, ups'[u].mine)
           /\ \/ ups'[u].isNew = FALSE /\ ups'[u].mine = 0
              \/ /\ ups'[u].isNew = FALSE /\ ups'[u].mine = index[ClaimOf[u]]
              \/ /\ ups'[u].isNew = TRUE
                 /\ ups'[u].mine = Cardinality(signedFor(ClaimOf[u])) + 1
                 /\ readOwnReceipt(ClaimOf[u]) = 0
           /\ mishaps' \in 0 .. MaxMishaps
           /\ UNCHANGED <<queue, held, index, told, ever, lostIndex>>
<1> DEFINE c == ClaimOf[u]
           own == readOwnReceipt(c)
           new == Cardinality(signedFor(c)) + 1
<1>1. PICK n \in {0, own, new}, isNew \in BOOLEAN, fails \in BOOLEAN :
        /\ \/ n = 0 /\ isNew = FALSE
           \/ n = own /\ own # 0 /\ isNew = FALSE
           \/ n = new /\ own = 0 /\ new <= MaxReceipts /\ isNew = TRUE
        /\ MayFail(fails)
        /\ ups' = [ups EXCEPT ![u].pc = "ingesting", ![u].mine = n, ![u].isNew = isNew,
                              ![u].todo = receiptAndStore(u, n)]
  <2> DEFINE Using(n, isNew) == ups' = [ups EXCEPT ![u].pc = "ingesting", ![u].mine = n,
                                     ![u].isNew = isNew, ![u].todo = receiptAndStore(u, n)]
  <2>1. \/ MayFail(TRUE) /\ Using(0, FALSE)
        \/ own # 0 /\ Using(own, FALSE) /\ MayFail(FALSE)
        \/ own = 0 /\ new <= MaxReceipts /\ Using(new, TRUE) /\ MayFail(FALSE)
    BY DEF receiptFor
  <2> DEFINE Way(n, isNew, fails) ==
          /\ \/ n = 0 /\ isNew = FALSE
             \/ n = own /\ own # 0 /\ isNew = FALSE
             \/ n = new /\ own = 0 /\ new <= MaxReceipts /\ isNew = TRUE
          /\ MayFail(fails) /\ Using(n, isNew)
  <2> HIDE DEF own, new, Using
  <2>2. Way(0, FALSE, TRUE) \/ Way(own, FALSE, FALSE) \/ Way(new, TRUE, FALSE)
    BY <2>1
  <2> HIDE DEF Way
  <2>3. \E n \in {0, own, new}, isNew \in BOOLEAN, fails \in BOOLEAN : Way(n, isNew, fails)
    BY <2>2
  <2> QED BY <2>3 DEF Way, Using
<1>2. c \in Claims /\ index[c] \in 0 .. MaxReceipts /\ new \in Nat \ {0}
  BY SignedBounds, Constants DEF Inv, TypeOK
<1>3. own # 0 => own = index[c]
  BY DEF readOwnReceipt
<1>4. n \in 0 .. MaxReceipts
  <2> HIDE DEF own, new, c
  <2> QED BY <1>1, <1>2, <1>3, Constants
<1> DEFINE t == receiptAndStore(u, n)
           M == {The("claim", c), The("link", c)} \cup (IF n = 0 THEN {} ELSE {<<"receipt", c, n>>})
           w == [ups[u] EXCEPT !.pc = "ingesting", !.mine = n, !.isNew = isNew, !.todo = t]
<1>5. t \in Seq(Statements)
  <2>1. t \in Seq(M)
    BY <1>4, WorkTypes
  <2>2. M \subseteq Statements
    BY <1>2, <1>4, StatementsAre, Constants DEF Kinds
  <2> HIDE DEF t, M
  <2> QED BY <2>1, <2>2
<1>6. ups[u] \in UploadStates /\ ups \in [Uploads -> UploadStates] /\ "ingesting" \in Stages
  BY Fields DEF Inv, TypeOK, Stages
<1>7. w \in UploadStates /\ w.pc = "ingesting" /\ w.mine = n /\ w.isNew = isNew
      /\ w.todo = t /\ w.got = ups[u].got
  <2> HIDE DEF t
  <2> QED BY ONLY <1>4, <1>5, <1>6 DEF UploadStates
<1>8. ups' = [ups EXCEPT ![u] = w]
  <2> HIDE DEF t
  <2>1. ups' = [ups EXCEPT ![u].pc = "ingesting", ![u].mine = n, ![u].isNew = isNew, ![u].todo = t]
    BY <1>1 DEF t
  <2> QED BY ONLY <1>6, <2>1 DEF UploadStates
<1>9. ups' \in [Uploads -> UploadStates] /\ ups'[u] = w /\ Others(u)
  <2> HIDE DEF w
  <2> QED BY <1>7, <1>8, Replaced DEF Inv, Others
<1>10. mishaps' \in 0 .. MaxMishaps
  BY <1>1, Mishap DEF Inv
<1>11. /\ ups[u].pc = "locked" /\ holdsLock(u)
       /\ UNCHANGED <<queue, held, index, told, ever, lostIndex>>
  BY DEF receiptFor
<1> HIDE DEF w, own, new
<1> QED BY <1>1, <1>3, <1>7, <1>9, <1>10, <1>11 DEF own, new

LEMMA StoreDoes ==
    ASSUME Inv, NEW u \in Uploads, storeStatements(u)
    PROVE  /\ ups' \in [Uploads -> UploadStates] /\ Others(u)
           /\ ups[u].pc = "ingesting" /\ ups'[u].pc = "ingesting"
           /\ ups'[u].mine = ups[u].mine /\ ups'[u].isNew = ups[u].isNew
           /\ ups'[u].todo \in Seq(Mine(u))
           /\ \E S \in SUBSET Mine(u) : /\ ups'[u].got = ups[u].got \cup S
                                        /\ held' = held \cup S /\ ever' = ever \cup S
           /\ mishaps' \in 0 .. MaxMishaps
           /\ UNCHANGED <<queue, index, told, lostIndex>>
<1>1. /\ ups[u].pc = "ingesting" /\ ups[u].todo # <<>>
      /\ UNCHANGED <<queue, index, told, lostIndex>>
  BY DEF storeStatements
<1>2. PICK fails \in BOOLEAN : LET S == IF fails THEN {} ELSE {Head(ups[u].todo)}
         IN  /\ MayFail(fails)
             /\ ups' = [ups EXCEPT ![u].todo = Tail(@), ![u].got = @ \cup S]
             /\ Hold(S)
  BY DEF storeStatements
<1> DEFINE S == IF fails THEN {} ELSE {Head(ups[u].todo)}
           t == Tail(ups[u].todo)
           g == ups[u].got \cup S
           w == [ups[u] EXCEPT !.todo = t, !.got = g]
<1>3. ups[u].todo \in Seq(Mine(u)) /\ Mine(u) \subseteq Statements
  BY StatementsAre DEF Inv, OwnWork
<1>4. t \in Seq(Mine(u)) /\ Head(ups[u].todo) \in Mine(u)
  BY <1>1, <1>3, HeadTailProperties
<1>5. S \in SUBSET Mine(u)
  BY <1>4
<1>6. t \in Seq(Statements) /\ g \in SUBSET Statements
  <2>1. t \in Seq(Statements)
    <3> HIDE DEF t
    <3> QED BY <1>3, <1>4
  <2>2. g \subseteq Statements
    <3> HIDE DEF S
    <3> QED BY <1>3, <1>5, Fields DEF Inv
  <2> QED BY <2>1, <2>2
<1>7. ups[u] \in UploadStates /\ ups \in [Uploads -> UploadStates]
  BY Fields DEF Inv, TypeOK
<1>8. w \in UploadStates /\ w.pc = ups[u].pc /\ w.mine = ups[u].mine /\ w.isNew = ups[u].isNew
      /\ w.todo = t /\ w.got = g
  <2> HIDE DEF t, g
  <2> QED BY ONLY <1>6, <1>7 DEF UploadStates
<1>9. ups' = [ups EXCEPT ![u] = w]
  <2>1. ups' = [ups EXCEPT ![u].todo = t, ![u].got = @ \cup S]
    BY <1>2
  <2> HIDE DEF t, S
  <2> QED BY ONLY <1>7, <2>1 DEF UploadStates, g, w
<1>10. ups' \in [Uploads -> UploadStates] /\ ups'[u] = w /\ Others(u)
  <2> HIDE DEF w
  <2> QED BY <1>8, <1>9, Replaced DEF Inv, Others
<1>11. held' = held \cup S /\ ever' = ever \cup S /\ mishaps' \in 0 .. MaxMishaps
  BY <1>2, Mishap DEF Hold, Inv
<1> HIDE DEF w, t, S
<1> QED BY <1>1, <1>4, <1>5, <1>8, <1>10, <1>11

LEMMA IndexDoes ==
    ASSUME Inv, NEW u \in Uploads, indexReceipt(u)
    PROVE  LET c == ClaimOf[u]
               mine == <<"receipt", c, ups[u].mine>>
           IN /\ ups' \in [Uploads -> UploadStates] /\ Others(u)
              /\ ups[u].pc = "ingesting" /\ ups'[u].pc = "verified"
              /\ ups'[u].mine = ups[u].mine /\ ups'[u].isNew = FALSE
              /\ ups'[u].todo = ups[u].todo /\ ups'[u].got = ups[u].got
              /\ queue' = [queue EXCEPT ![c] = Tail(@)]
              /\ IF ups[u].isNew /\ mine \in ups[u].got
                   THEN \/ index' = [index EXCEPT ![c] = ups[u].mine] /\ lostIndex' = lostIndex
                        \/ index' = index /\ lostIndex' = lostIndex \cup {mine}
                   ELSE index' = index /\ lostIndex' = lostIndex
              /\ mishaps' \in 0 .. MaxMishaps
              /\ UNCHANGED <<held, told, ever>>
<1> DEFINE c == ClaimOf[u]
           mine == <<"receipt", c, ups[u].mine>>
           w == [ups[u] EXCEPT !.pc = "verified", !.isNew = FALSE]
<1>1. ups[u] \in UploadStates /\ ups \in [Uploads -> UploadStates] /\ "verified" \in Stages
  BY Fields DEF Inv, TypeOK, Stages
<1>2. w \in UploadStates /\ w.pc = "verified" /\ w.mine = ups[u].mine /\ w.isNew = FALSE
      /\ w.todo = ups[u].todo /\ w.got = ups[u].got
  BY ONLY <1>1 DEF UploadStates
<1>3. ups' = [ups EXCEPT ![u] = w]
  <2>1. ups' = [ups EXCEPT ![u].pc = "verified", ![u].isNew = FALSE]
    BY DEF indexReceipt
  <2> QED BY ONLY <1>1, <2>1 DEF UploadStates
<1>4. ups' \in [Uploads -> UploadStates] /\ ups'[u] = w /\ Others(u)
  <2> HIDE DEF w
  <2> QED BY <1>2, <1>3, Replaced DEF Inv, Others
<1>5. CASE ups[u].isNew /\ mine \in ups[u].got
  <2>1. PICK fails \in BOOLEAN :
          /\ MayFail(fails)
          /\ index' = IF fails THEN index ELSE [index EXCEPT ![c] = ups[u].mine]
          /\ lostIndex' = IF fails THEN lostIndex \cup {mine} ELSE lostIndex
    BY <1>5 DEF indexReceipt
  <2>2. mishaps' \in 0 .. MaxMishaps
    BY <2>1, Mishap DEF Inv
  <2>3. \/ index' = [index EXCEPT ![c] = ups[u].mine] /\ lostIndex' = lostIndex
        \/ index' = index /\ lostIndex' = lostIndex \cup {mine}
    BY <2>1
  <2> HIDE DEF w
  <2> QED BY <1>2, <1>4, <1>5, <2>2, <2>3 DEF indexReceipt
<1>6. CASE ~(ups[u].isNew /\ mine \in ups[u].got)
  <2>1. UNCHANGED <<index, lostIndex, mishaps>>
    BY <1>6 DEF indexReceipt
  <2>2. mishaps' \in 0 .. MaxMishaps
    BY <2>1 DEF Inv, TypeOK
  <2> HIDE DEF w
  <2> QED BY <1>2, <1>4, <1>6, <2>1, <2>2 DEF indexReceipt
<1> QED BY <1>5, <1>6

LEMMA AnsweredDoes ==
    ASSUME Inv, NEW u \in Uploads, verifyClaimOnIngest(u)
    PROVE  /\ ups' \in [Uploads -> UploadStates] /\ Others(u)
           /\ ups[u].pc = "verified" /\ ups'[u].pc = "done"
           /\ ups'[u].mine = 0 /\ ups'[u].isNew = FALSE
           /\ ups'[u].todo = <<>> /\ ups'[u].got = {}
           /\ told' \subseteq Claims
           /\ UNCHANGED <<queue, held, index, mishaps, ever, lostIndex>>
<1> DEFINE w == [Idle EXCEPT !.pc = "done"]
<1>1. ups' = [ups EXCEPT ![u] = w]
  BY DEF verifyClaimOnIngest
<1>2. w \in UploadStates /\ w.pc = "done" /\ w.mine = 0 /\ w.isNew = FALSE /\ w.todo = <<>> /\ w.got = {}
  BY IdleIs
<1>3. ups' \in [Uploads -> UploadStates] /\ ups'[u] = w /\ Others(u)
  <2> HIDE DEF w
  <2> QED BY <1>1, <1>2, Replaced DEF Inv, Others
<1>4. told' \subseteq Claims
  BY Constants DEF verifyClaimOnIngest, Inv, TypeOK
<1> HIDE DEF w
<1> QED BY <1>2, <1>3, <1>4 DEF verifyClaimOnIngest

\* A step that only moves the upload to another stage.
LEMMA StageMoves ==
    ASSUME Inv, NEW u \in Uploads, NEW a \in Stages, ups' = [ups EXCEPT ![u].pc = a]
    PROVE  /\ ups' \in [Uploads -> UploadStates] /\ Others(u)
           /\ ups'[u].pc = a
           /\ ups'[u].mine = ups[u].mine /\ ups'[u].isNew = ups[u].isNew
           /\ ups'[u].todo = ups[u].todo /\ ups'[u].got = ups[u].got
<1> DEFINE w == [ups[u] EXCEPT !.pc = a]
<1>1. ups[u] \in UploadStates
  BY Fields DEF Inv
<1>2. w \in UploadStates /\ w.pc = a /\ w.mine = ups[u].mine /\ w.isNew = ups[u].isNew
      /\ w.todo = ups[u].todo /\ w.got = ups[u].got
  BY ONLY <1>1 DEF UploadStates
<1>3. ups' = [ups EXCEPT ![u] = w]
  OBVIOUS
<1>4. ups' \in [Uploads -> UploadStates] /\ ups'[u] = w /\ Others(u)
  <2> HIDE DEF w
  <2> QED BY <1>2, <1>3, Replaced DEF Inv, Others
<1> HIDE DEF w
<1> QED BY <1>2, <1>4

\* The statements uploaded on their own: the check, then the store.
LEMMA CheckDoes ==
    ASSUME Inv, NEW u \in Uploads, checkUploadedStatement(u) \/ handleStatementUpload(u)
    PROVE  /\ ups' \in [Uploads -> UploadStates] /\ Others(u)
           /\ ups[u].pc \in {"idle", "checked"} /\ ups'[u].pc \in {"checked", "done"}
           /\ ups[u].pc = "checked" => ups'[u].pc = "done"
           /\ ups'[u].mine = ups[u].mine /\ ups'[u].isNew = ups[u].isNew
           /\ ups'[u].todo = ups[u].todo /\ ups'[u].got = ups[u].got
           /\ \E S \in SUBSET {The(BodyOf[u], ClaimOf[u])} :
                 held' = held \cup S /\ ever' = ever \cup S
           /\ mishaps' \in 0 .. MaxMishaps
           /\ UNCHANGED <<queue, index, told, lostIndex>>
<1>1. CASE checkUploadedStatement(u)
  <2>1. PICK a \in {"checked", "done"} : ups' = [ups EXCEPT ![u].pc = a]
    BY <1>1 DEF checkUploadedStatement
  <2>2. a \in Stages
    BY DEF Stages
  <2>3. /\ ups[u].pc = "idle" /\ UNCHANGED <<queue, held, index, told, mishaps, ever, lostIndex>>
    BY <1>1 DEF checkUploadedStatement
  <2>4. mishaps' \in 0 .. MaxMishaps
    BY <2>3 DEF Inv, TypeOK
  <2>5. {} \in SUBSET {The(BodyOf[u], ClaimOf[u])} /\ held' = held \cup {} /\ ever' = ever \cup {}
    BY <2>3
  <2> QED BY <2>1, <2>2, <2>3, <2>4, <2>5, StageMoves
<1>2. CASE handleStatementUpload(u)
  <2>1. ups' = [ups EXCEPT ![u].pc = "done"] /\ ups[u].pc = "checked"
        /\ UNCHANGED <<queue, index, told, lostIndex>>
    BY <1>2 DEF handleStatementUpload
  <2>2. "done" \in Stages
    BY DEF Stages
  <2>3. PICK fails \in BOOLEAN :
          MayFail(fails) /\ Hold(IF fails THEN {} ELSE {The(BodyOf[u], ClaimOf[u])})
    BY <1>2 DEF handleStatementUpload
  <2>4. mishaps' \in 0 .. MaxMishaps
    BY <2>3, Mishap DEF Inv
  <2>5. \E S \in SUBSET {The(BodyOf[u], ClaimOf[u])} : held' = held \cup S /\ ever' = ever \cup S
    BY <2>3 DEF Hold
  <2> QED BY <2>1, <2>2, <2>4, <2>5, StageMoves
<1> QED BY <1>1, <1>2

LEMMA CrashDoes ==
    ASSUME Inv, IngestCrash
    PROVE  /\ ups' \in [Uploads -> UploadStates]
           /\ \A u \in Uploads :
                 /\ ups'[u].pc \in {"idle", "done"} /\ ups'[u].isNew = FALSE
                 /\ ups'[u].got = {}
                 /\ ups'[u] = ups[u] \/ ups'[u].todo = <<>>
           /\ \A u \in Uploads : ups[u].isNew /\ <<"receipt", ClaimOf[u], ups[u].mine>> \in held =>
                 <<"receipt", ClaimOf[u], ups[u].mine>> \in lostIndex'
           /\ lostIndex \subseteq lostIndex' /\ lostIndex' \subseteq Statements
           /\ queue' = [c \in Claims |-> <<>>]
           /\ mishaps' \in 0 .. MaxMishaps
           /\ UNCHANGED <<held, index, told, ever>>
<1>1. ASSUME NEW u \in Uploads
      PROVE  /\ ups'[u] \in UploadStates
             /\ ups'[u].pc \in {"idle", "done"} /\ ups'[u].isNew = FALSE
             /\ ups'[u].got = {}
             /\ ups'[u] = ups[u] \/ ups'[u].todo = <<>>
  <2>1. CASE ups[u].pc = "idle"
    <3>1. ups'[u] = ups[u]
      BY <2>1 DEF IngestCrash
    <3>2. ups[u].isNew = FALSE
      <4>1. ups[u].isNew \in BOOLEAN
        BY Fields DEF Inv, UploadStates
      <4>2. ~ups[u].isNew
        BY <2>1 DEF Inv, Locks
      <4> QED BY <4>1, <4>2
    <3>3. ups[u].got = {}
      BY <2>1 DEF Inv, OwnWork
    <3> QED BY <2>1, <3>1, <3>2, <3>3, Fields DEF Inv
  <2>2. CASE ups[u].pc # "idle"
    <3>1. ups'[u] = [Idle EXCEPT !.pc = "done"]
      BY <2>2 DEF IngestCrash
    <3> QED BY <3>1, IdleIs
  <2> QED BY <2>1, <2>2
<1>2. ups' \in [Uploads -> UploadStates]
  <2>1. \A u \in Uploads : ups'[u] \in UploadStates
    BY <1>1
  <2>2. ups' = [u \in Uploads |-> IF ups[u].pc = "idle" THEN ups[u] ELSE [Idle EXCEPT !.pc = "done"]]
    BY DEF IngestCrash
  <2>3. ups' = [u \in Uploads |-> ups'[u]]
    BY ONLY <2>2
  <2> QED BY ONLY <2>1, <2>3
<1>3. lostIndex' = lostIndex \cup {<<"receipt", ClaimOf[u], ups[u].mine>> : u \in
                        {v \in Uploads : ups[v].isNew /\ <<"receipt", ClaimOf[v], ups[v].mine>> \in held}}
  BY DEF IngestCrash
<1>4. lostIndex' \subseteq Statements
  BY <1>3 DEF Inv, TypeOK
<1>5. mishaps' \in 0 .. MaxMishaps
  BY Constants DEF IngestCrash, Inv, TypeOK
<1> QED BY <1>1, <1>2, <1>3, <1>4, <1>5 DEF IngestCrash

-----------------------------------------------------------------------------
(***************************************************************************)
(* Types.                                                                  *)
(***************************************************************************)
LEMMA ListsTypes ==
    ASSUME TypeOK, NEW c \in Claims, NEW S \in SUBSET Statements, Lists(c, S)
    PROVE  /\ listed' \in [Claims -> SUBSET Statements]
           /\ \A d \in Claims \ {c} : listed'[d] = listed[d]
           /\ c \in deleted => listed'[c] = listed[c]
           /\ c \notin deleted => listed'[c] = listed[c] \cup S
<1>1. CASE c \in deleted
  BY <1>1 DEF Lists, TypeOK
<1>2. CASE c \notin deleted
  BY <1>2 DEF Lists, TypeOK
<1> QED BY <1>1, <1>2

LEMMA HeldTypes ==
    ASSUME Inv, NEW S \in SUBSET Statements, held' = held \cup S, ever' = ever \cup S
    PROVE  held' \subseteq Statements /\ ever' \subseteq Statements /\ held' \subseteq ever'
           /\ ever \subseteq ever'
BY DEF Inv, TypeOK, Numbered

LEMMA MineTypes ==
    ASSUME Inv, NEW u \in Uploads
    PROVE  Mine(u) \subseteq Statements /\ ups[u].got \subseteq Statements
           /\ The(BodyOf[u], ClaimOf[u]) \in Statements
BY StatementsAre, Fields, Constants DEF Inv

LEMMA NowNat ==
    ASSUME Inv
    PROVE  Now \in Nat /\ revoked \in Seq({0, 1})
BY DEF Inv, TypeOK, Now

LEMMA UploadTyped ==
    ASSUME Inv, NEW u \in Uploads, Arrives(u) \/ Receives(u) \/ Stores(u) \/ Answered(u)
    PROVE  TypeOK'
<1> DEFINE c == ClaimOf[u]
<1> USE DEF Inv
<1>0. c \in Claims
  BY Constants
<1>1. CASE Arrives(u)
  <2>1. handleUpload(u) /\ UNCHANGED <<listed, revoked, stamp, deleted>>
    BY <1>1 DEF Arrives
  <2>2. The("audio", c) \in Statements
    BY <1>0, StatementsAre DEF Kinds
  <2>3. held' \subseteq Statements /\ ever' \subseteq Statements
    <3> DEFINE S == {The("audio", c)}
    <3>1. S \in SUBSET Statements /\ held' = held \cup S /\ ever' = ever \cup S
      BY <2>1, <2>2, UploadDoes
    <3> HIDE DEF S
    <3> QED BY <3>1, HeldTypes
  <2>4. queue' \in [Claims -> Seq(Uploads)]
    <3>1. queue[c] \in Seq(Uploads)
      BY <1>0 DEF TypeOK
    <3>2. Append(queue[c], u) \in Seq(Uploads)
      BY <3>1, AppendProperties
    <3>3. queue' = queue \/ queue' = [queue EXCEPT ![c] = Append(queue[c], u)]
      BY <2>1, UploadDoes
    <3> QED BY <3>2, <3>3 DEF TypeOK
  <2>5. received' \in [Claims -> Nat]
    <3>1. received' = [received EXCEPT ![c] = IF @ = Never THEN Now ELSE @]
      BY <1>1 DEF Arrives
    <3> QED BY <3>1, NowNat DEF TypeOK
  <2> QED BY <2>1, <2>3, <2>4, <2>5, UploadDoes DEF TypeOK
<1>2. CASE Receives(u)
  <2>1. receiptFor(u) /\ UNCHANGED <<listed, revoked, received, deleted>>
    BY <1>2 DEF Receives
  <2>2. stamp' \in [Claims -> [1 .. MaxReceipts -> Nat]]
    <3>1. \/ stamp' = stamp
          \/ stamp' = [stamp EXCEPT ![c][ups'[u].mine] = Now]
      BY <1>2 DEF Receives
    <3>2. stamp' = stamp \/ stamp' = [stamp EXCEPT ![c] = [stamp[c] EXCEPT ![ups'[u].mine] = Now]]
      BY <3>1
    <3>3. [stamp[c] EXCEPT ![ups'[u].mine] = Now] \in [1 .. MaxReceipts -> Nat]
      BY <1>0, NowNat DEF TypeOK
    <3> QED BY <3>2, <3>3 DEF TypeOK
  <2> QED BY <2>1, <2>2, ReceiptDoes DEF TypeOK
<1>3. CASE Stores(u) /\ storeStatements(u)
  <2>1. UNCHANGED <<listed, revoked, stamp, received, deleted>>
    BY <1>3 DEF Stores
  <2>2. PICK S \in SUBSET Mine(u) : held' = held \cup S /\ ever' = ever \cup S
    BY <1>3, StoreDoes
  <2>3. held' \subseteq Statements /\ ever' \subseteq Statements
    <3>1. S \in SUBSET Statements
      BY MineTypes
    <3> QED BY <2>2, <3>1, HeldTypes
  <2> QED BY <1>3, <2>1, <2>3, StoreDoes DEF TypeOK
<1>4. CASE Stores(u) /\ indexReceipt(u)
  <2>1. UNCHANGED <<listed, revoked, stamp, received, deleted>>
    BY <1>4 DEF Stores
  <2>2. queue' \in [Claims -> Seq(Uploads)]
    <3>1. queue[c] \in Seq(Uploads) /\ queue[c] # <<>>
      BY <1>0, <1>4, IndexDoes DEF TypeOK, Locks, holdsLock
    <3>2. Tail(queue[c]) \in Seq(Uploads)
      BY <3>1, HeadTailProperties
    <3>3. queue' = [queue EXCEPT ![c] = Tail(queue[c])]
      BY <1>4, IndexDoes
    <3> QED BY <3>2, <3>3 DEF TypeOK
  <2>3. ups[u].mine \in 0 .. MaxReceipts
    BY Fields
  <2>4. <<"receipt", c, ups[u].mine>> \in Statements
    BY <1>0, <2>3, StatementsAre DEF Kinds
  <2>5. /\ index' = index \/ index' = [index EXCEPT ![c] = ups[u].mine]
        /\ lostIndex' = lostIndex \/ lostIndex' = lostIndex \cup {<<"receipt", c, ups[u].mine>>}
    BY <1>4, IndexDoes
  <2>6. index' \in [Claims -> 0 .. MaxReceipts] /\ lostIndex' \subseteq Statements
    BY <2>3, <2>4, <2>5 DEF TypeOK
  <2> QED BY <1>4, <2>1, <2>2, <2>6, IndexDoes DEF TypeOK
<1>5. CASE Answered(u)
  <2>1. verifyClaimOnIngest(u) /\ UNCHANGED <<revoked, stamp, received, deleted>>
    BY <1>5 DEF Answered
  <2>2. listed' \in [Claims -> SUBSET Statements]
    <3>1. Lists(c, ups[u].got) \/ UNCHANGED listed
      BY <1>5 DEF Answered
    <3> QED BY <1>0, <3>1, ListsTypes, MineTypes DEF TypeOK
  <2> QED BY <2>1, <2>2, AnsweredDoes DEF TypeOK
<1> QED BY <1>1, <1>2, <1>3, <1>4, <1>5 DEF Stores

LEMMA StatementTyped ==
    ASSUME Inv, \/ \E u \in Uploads : revokeDevice(u) \/ copyRevocation(u)
                \/ \E c \in Claims : listSessionRecord(c) \/ listDeviceRevocation(c)
    PROVE  TypeOK'
<1> USE DEF Inv
<1>1. ASSUME NEW u \in Uploads, revokeDevice(u) \/ copyRevocation(u) PROVE TypeOK'
  <2>1. checkUploadedStatement(u) \/ handleStatementUpload(u)
    BY <1>1 DEF revokeDevice, copyRevocation
  <2>2. PICK S \in SUBSET {The(BodyOf[u], ClaimOf[u])} : held' = held \cup S /\ ever' = ever \cup S
    BY <2>1, CheckDoes
  <2>3. held' \subseteq Statements /\ ever' \subseteq Statements
    <3>1. S \in SUBSET Statements
      BY MineTypes
    <3> QED BY <2>2, <3>1, HeldTypes
  <2>4. listed' \in [Claims -> SUBSET Statements]
    <3>1. CASE revokeDevice(u)
      BY <3>1 DEF revokeDevice, TypeOK
    <3>2. CASE copyRevocation(u)
      <4> DEFINE T == {The("revocation", ClaimOf[u])} \cap {The(BodyOf[u], ClaimOf[u])} \cap held'
      <4>1. T \in SUBSET Statements
        BY <2>3
      <4>2. Lists(ClaimOf[u], T)
        BY <3>2 DEF copyRevocation
      <4> HIDE DEF T
      <4> QED BY <4>1, <4>2, ListsTypes, Constants
    <3> QED BY <1>1, <3>1, <3>2
  <2>5. UNCHANGED <<revoked, stamp, received, deleted>>
    BY <1>1 DEF revokeDevice, copyRevocation
  <2> QED BY <2>1, <2>3, <2>4, <2>5, CheckDoes DEF TypeOK
<1>2. ASSUME NEW c \in Claims, NEW x \in Statements, Hold({x}), Lists(c, {x}),
             UNCHANGED <<ups, queue, index, told, mishaps, lostIndex, revoked, stamp, received, deleted>>
      PROVE  TypeOK'
  <2>1. held' \subseteq Statements /\ ever' \subseteq Statements
    <3> DEFINE S == {x}
    <3>1. S \in SUBSET Statements /\ Hold(S)
      BY <1>2
    <3> HIDE DEF S
    <3> QED BY <3>1, HeldTypes DEF Hold
  <2>2. listed' \in [Claims -> SUBSET Statements]
    BY <1>2, ListsTypes
  <2> QED BY <1>2, <2>1, <2>2 DEF TypeOK
<1>3. ASSUME NEW c \in Claims, listSessionRecord(c) PROVE TypeOK'
  <2>1. The("record", c) \in Statements
    BY StatementsAre DEF Kinds
  <2> QED BY <1>2, <1>3, <2>1 DEF listSessionRecord
<1>4. ASSUME NEW c \in Claims, listDeviceRevocation(c) PROVE TypeOK'
  <2>1. Withdrawal(c, 1) \in Statements
    BY StatementsAre DEF Kinds
  <2> QED BY <1>2, <1>4, <2>1 DEF listDeviceRevocation
<1> QED BY <1>1, <1>3, <1>4

LEMMA EndTyped ==
    ASSUME Inv, signs(0) \/ signs(1) \/ Dies \/ \E c \in Claims : Gone(c)
    PROVE  TypeOK'
<1> USE DEF Inv
<1>1. ASSUME NEW who \in {0, 1}, signs(who) PROVE TypeOK'
  <2>1. revoked' \in Seq({0, 1})
    BY <1>1, NowNat, AppendProperties DEF signs
  <2> QED BY <1>1, <2>1 DEF signs, ingestVars, TypeOK
<1>2. CASE Dies
  <2>1. queue' \in [Claims -> Seq(Uploads)]
    BY <1>2, CrashDoes, EmptySeq DEF Dies
  <2> QED BY <1>2, <2>1, CrashDoes DEF Dies, TypeOK
<1>3. ASSUME NEW c \in Claims, Gone(c) PROVE TypeOK'
  <2>1. /\ held' \subseteq held /\ mishaps' = mishaps + 1 /\ mishaps < MaxMishaps
        /\ UNCHANGED <<ups, queue, index, told, ever, lostIndex, revoked, stamp, received>>
        /\ listed' = [listed EXCEPT ![c] = {}] /\ deleted' = deleted \cup {c}
    BY <1>3 DEF Gone, Release
  <2>2. mishaps' \in 0 .. MaxMishaps
    BY <2>1, Constants DEF TypeOK
  <2> QED BY <2>1, <2>2 DEF TypeOK
<1> QED BY <1>1, <1>2, <1>3

LEMMA TypeStep == Inv /\ Next => TypeOK'
BY UploadTyped, StatementTyped, EndTyped DEF Next

-----------------------------------------------------------------------------
(***************************************************************************)
(* The lock of a claim.                                                    *)
(***************************************************************************)
LEMMA Members ==
    ASSUME NEW U, NEW q \in Seq(U), NEW u
    PROVE  u \in ToSet(q) <=> \E i \in 1 .. Len(q) : q[i] = u
BY DEF ToSet

LEMMA Joins ==
    ASSUME NEW U, NEW q \in Seq(U), NEW u \in U
    PROVE  /\ ToSet(Append(q, u)) = ToSet(q) \cup {u}
           /\ q # <<>> => Append(q, u) # <<>> /\ Head(Append(q, u)) = Head(q)
           /\ (u \notin ToSet(q) /\ \A i, j \in 1 .. Len(q) : q[i] = q[j] => i = j)
                => \A i, j \in 1 .. Len(Append(q, u)) : Append(q, u)[i] = Append(q, u)[j] => i = j
<1> DEFINE r == Append(q, u)
<1>1. /\ r \in Seq(U) /\ r # <<>> /\ Len(r) = Len(q) + 1 /\ Len(q) \in Nat
      /\ \A i \in 1 .. Len(q) : r[i] = q[i]
      /\ r[Len(q) + 1] = u
  BY AppendProperties
<1> HIDE DEF r
<1>2. \A x : x \in ToSet(r) <=> x \in ToSet(q) \/ x = u
  BY <1>1, Members
<1>3. q # <<>> => Head(r) = Head(q)
  BY <1>1
<1>4. (u \notin ToSet(q) /\ \A i, j \in 1 .. Len(q) : q[i] = q[j] => i = j)
                => \A i, j \in 1 .. Len(r) : r[i] = r[j] => i = j
  BY <1>1, Members
<1> QED BY <1>1, <1>2, <1>3, <1>4 DEF r

LEMMA Leaves ==
    ASSUME NEW q \in Seq(Uploads), q # <<>>, \A i, j \in 1 .. Len(q) : q[i] = q[j] => i = j
    PROVE  /\ ToSet(Tail(q)) = ToSet(q) \ {Head(q)}
           /\ \A i, j \in 1 .. Len(Tail(q)) : Tail(q)[i] = Tail(q)[j] => i = j
<1> DEFINE r == Tail(q)
<1>1. /\ r \in Seq(Uploads) /\ Len(r) = Len(q) - 1 /\ Len(q) \in Nat \ {0}
      /\ \A i \in 1 .. Len(r) : r[i] = q[i + 1] /\ Head(q) = q[1]
  BY HeadTailProperties, EmptySeq
<1>2. Head(q) = q[1]
  OBVIOUS
<1> HIDE DEF r
<1>3. ASSUME NEW x PROVE x \in ToSet(r) <=> x \in ToSet(q) /\ x # Head(q)
  <2>1. ASSUME x \in ToSet(r) PROVE x \in ToSet(q) /\ x # Head(q)
    BY <1>1, <1>2, <2>1, Members
  <2>2. ASSUME x \in ToSet(q), x # Head(q) PROVE x \in ToSet(r)
    <3>1. PICK i \in 1 .. Len(q) : q[i] = x
      BY <2>2, Members
    <3>2. i # 1 /\ i - 1 \in 1 .. Len(r)
      BY <1>1, <1>2, <2>2, <3>1
    <3>3. r[i - 1] = x
      BY <1>1, <3>1, <3>2
    <3> QED BY <1>1, <3>2, <3>3, Members
  <2> QED BY <2>1, <2>2
<1>4. \A i, j \in 1 .. Len(r) : r[i] = r[j] => i = j
  BY <1>1
<1> QED BY <1>3, <1>4 DEF r

\* A step of one upload outside the doors of the lock.
LEMMA LocksSame ==
    ASSUME Inv, NEW u \in Uploads, Others(u), queue' = queue,
           ups'[u].pc \in {"locked", "ingesting"} <=> ups[u].pc \in {"locked", "ingesting"},
           ups'[u].pc = "ingesting" => holdsLock(u),
           ups'[u].isNew => ups'[u].pc = "ingesting"
    PROVE  Locks'
<1> USE DEF Inv
<1>1. \A v \in Uploads : ups'[v].pc \in {"locked", "ingesting"} <=> v \in ToSet(queue'[ClaimOf[v]])
  BY DEF Locks, Others
<1>2. \A v \in Uploads : ups'[v].pc = "ingesting" => holdsLock(v)'
  BY DEF Locks, Others, holdsLock
<1>3. \A v \in Uploads : ups'[v].isNew => ups'[v].pc = "ingesting"
  BY DEF Locks, Others
<1> QED BY <1>1, <1>2, <1>3 DEF Locks

LEMMA LocksJoin ==
    ASSUME Inv, NEW u \in Uploads, handleUpload(u)
    PROVE  Locks'
<1> DEFINE c == ClaimOf[u]
<1> USE DEF Inv
<1>1. /\ Others(u) /\ ups[u].pc = "idle" /\ ups'[u].pc \in {"locked", "done"}
      /\ ups'[u].isNew = ups[u].isNew
      /\ queue' = IF ups'[u].pc = "locked" THEN [queue EXCEPT ![c] = Append(@, u)] ELSE queue
  BY UploadDoes
<1>2. ~ups'[u].isNew
  BY <1>1 DEF Locks
<1>3. CASE ups'[u].pc = "done"
  BY <1>1, <1>2, <1>3, LocksSame
<1>4. CASE ups'[u].pc = "locked"
  <2> DEFINE q == queue[c]
             r == Append(q, u)
  <2>1. c \in Claims /\ q \in Seq(Uploads) /\ u \notin ToSet(q)
    BY <1>1, Constants DEF Locks, TypeOK
  <2>2. \A d \in Claims : queue'[d] = IF d = c THEN r ELSE queue[d]
    <3>1. queue' = [queue EXCEPT ![c] = r]
      BY <1>1, <1>4
    <3> HIDE DEF r
    <3> QED BY <3>1 DEF TypeOK
  <2>3. /\ ToSet(r) = ToSet(q) \cup {u}
        /\ q # <<>> => r # <<>> /\ Head(r) = Head(q)
        /\ \A i, j \in 1 .. Len(r) : r[i] = r[j] => i = j
    <3>1. \A i, j \in 1 .. Len(q) : q[i] = q[j] => i = j
      BY <2>1 DEF Locks
    <3> HIDE DEF q, Inv
    <3> QED BY <2>1, <3>1, Joins
  <2>4. \A i \in 1 .. Len(r) : ClaimOf[r[i]] = c
    <3>1. Len(r) = Len(q) + 1 /\ Len(q) \in Nat /\ r[Len(q) + 1] = u
          /\ \A i \in 1 .. Len(q) : r[i] = q[i] /\ ClaimOf[q[i]] = c
      BY <2>1, AppendProperties DEF Locks
    <3> HIDE DEF r
    <3> QED BY <3>1
  <2> HIDE DEF r
  <2>5. \A v \in Uploads : ClaimOf[v] \in Claims
    BY Constants
  <2>6. \A v \in Uploads : ups'[v].pc \in {"locked", "ingesting"} <=> v \in ToSet(queue'[ClaimOf[v]])
    <3>1. u \in ToSet(queue'[ClaimOf[u]])
      BY <2>1, <2>2, <2>3
    <3>2. \A v \in Uploads \ {u} : v \in ToSet(queue'[ClaimOf[v]]) <=> v \in ToSet(queue[ClaimOf[v]])
      BY <2>2, <2>3, <2>5
    <3> QED BY <1>1, <1>4, <3>1, <3>2 DEF Locks, Others
  <2>7. \A v \in Uploads : ups'[v].pc = "ingesting" => holdsLock(v)'
    <3>1. ASSUME NEW v \in Uploads, ups'[v].pc = "ingesting" PROVE holdsLock(v)'
      <4>1. v # u /\ ups[v].pc = "ingesting"
        BY <1>4, <3>1, <1>1 DEF Others
      <4>2. holdsLock(v)
        BY <4>1 DEF Locks
      <4> QED BY <2>2, <2>3, <2>5, <4>2 DEF holdsLock
    <3> QED BY <3>1
  <2>8. \A d \in Claims : /\ \A i, j \in 1 .. Len(queue'[d]) : queue'[d][i] = queue'[d][j] => i = j
                          /\ \A i \in 1 .. Len(queue'[d]) : ClaimOf[queue'[d][i]] = d
    BY <2>2, <2>3, <2>4 DEF Locks
  <2>9. \A v \in Uploads : ups'[v].isNew => ups'[v].pc = "ingesting"
    BY <1>1, <1>2 DEF Locks, Others
  <2> QED BY <2>6, <2>7, <2>8, <2>9 DEF Locks
<1> QED BY <1>1, <1>3, <1>4

LEMMA LocksLeave ==
    ASSUME Inv, NEW u \in Uploads, indexReceipt(u)
    PROVE  Locks'
<1> DEFINE c == ClaimOf[u]
           q == queue[c]
           r == Tail(q)
<1> USE DEF Inv
<1>1. /\ Others(u) /\ ups[u].pc = "ingesting" /\ ups'[u].pc = "verified" /\ ups'[u].isNew = FALSE
      /\ queue' = [queue EXCEPT ![c] = Tail(@)]
  BY IndexDoes
<1>2. c \in Claims /\ q \in Seq(Uploads) /\ q # <<>> /\ Head(q) = u
  BY <1>1, Constants DEF Locks, TypeOK, holdsLock
<1>3. \A d \in Claims : queue'[d] = IF d = c THEN r ELSE queue[d]
  <2>1. queue' = [queue EXCEPT ![c] = r]
    BY <1>1
  <2> HIDE DEF r
  <2> QED BY <2>1 DEF TypeOK
<1>4. /\ ToSet(r) = ToSet(q) \ {u}
      /\ \A i, j \in 1 .. Len(r) : r[i] = r[j] => i = j
  BY <1>2, Leaves DEF Locks
<1>5. \A i \in 1 .. Len(r) : ClaimOf[r[i]] = c
  <2>1. Len(r) = Len(q) - 1 /\ Len(q) \in Nat /\ \A i \in 1 .. Len(r) : r[i] = q[i + 1]
    BY <1>2, HeadTailProperties
  <2>2. \A i \in 1 .. Len(q) : ClaimOf[q[i]] = c
    BY <1>2 DEF Locks
  <2> HIDE DEF r
  <2> QED BY <2>1, <2>2
<1> HIDE DEF r
<1>6. \A v \in Uploads : ClaimOf[v] \in Claims
  BY Constants
<1>7. \A v \in Uploads : ups'[v].pc \in {"locked", "ingesting"} <=> v \in ToSet(queue'[ClaimOf[v]])
  <2>1. u \notin ToSet(queue'[ClaimOf[u]])
    BY <1>2, <1>3, <1>4
  <2>2. \A v \in Uploads \ {u} : v \in ToSet(queue'[ClaimOf[v]]) <=> v \in ToSet(queue[ClaimOf[v]])
    BY <1>3, <1>4, <1>6
  <2> QED BY <1>1, <2>1, <2>2 DEF Locks, Others
<1>8. ASSUME NEW v \in Uploads, ups'[v].pc = "ingesting" PROVE holdsLock(v)'
  <2>1. v # u /\ ups[v].pc = "ingesting"
    BY <1>1, <1>8 DEF Others
  <2>2. holdsLock(v)
    BY <2>1 DEF Locks
  <2>3. ClaimOf[v] # c
    BY <1>2, <2>1, <2>2 DEF holdsLock
  <2> QED BY <1>3, <1>6, <2>2, <2>3 DEF holdsLock
<1>9. \A d \in Claims : /\ \A i, j \in 1 .. Len(queue'[d]) : queue'[d][i] = queue'[d][j] => i = j
                        /\ \A i \in 1 .. Len(queue'[d]) : ClaimOf[queue'[d][i]] = d
  BY <1>3, <1>4, <1>5 DEF Locks
<1>10. \A v \in Uploads : ups'[v].isNew => ups'[v].pc = "ingesting"
  BY <1>1 DEF Locks, Others
<1> QED BY <1>7, <1>8, <1>9, <1>10 DEF Locks

LEMMA LocksStep == Inv /\ Next => Locks'
<1> SUFFICES ASSUME Inv, Next PROVE Locks'
  OBVIOUS
<1> USE DEF Inv
<1>1. ASSUME NEW u \in Uploads, handleUpload(u) PROVE Locks'
  BY <1>1, LocksJoin
<1>2. ASSUME NEW u \in Uploads, receiptFor(u) PROVE Locks'
  BY <1>2, ReceiptDoes, LocksSame
<1>3. ASSUME NEW u \in Uploads, storeStatements(u) PROVE Locks'
  BY <1>3, StoreDoes, LocksSame DEF Locks
<1>4. ASSUME NEW u \in Uploads, indexReceipt(u) PROVE Locks'
  BY <1>4, LocksLeave
<1>5. ASSUME NEW u \in Uploads, verifyClaimOnIngest(u) PROVE Locks'
  BY <1>5, AnsweredDoes, LocksSame
<1>6. ASSUME NEW u \in Uploads, checkUploadedStatement(u) \/ handleStatementUpload(u) PROVE Locks'
  <2>1. ~ups[u].isNew
    BY <1>6, CheckDoes DEF Locks
  <2> QED BY <1>6, <2>1, CheckDoes, LocksSame
<1>7. CASE ups' = ups /\ queue' = queue
  BY <1>7 DEF Locks, holdsLock
<1>8. CASE Dies
  <2>1. \A c \in Claims : queue'[c] = <<>>
    BY <1>8, CrashDoes DEF Dies
  <2>2. \A u \in Uploads : ups'[u].pc \in {"idle", "done"} /\ ups'[u].isNew = FALSE
    BY <1>8, CrashDoes DEF Dies
  <2>3. \A u \in Uploads : ClaimOf[u] \in Claims
    BY Constants
  <2>4. \A u \in Uploads : u \notin ToSet(queue'[ClaimOf[u]])
    BY <2>1, <2>3 DEF ToSet
  <2> QED BY <2>1, <2>2, <2>4 DEF Locks
<1>9. CASE signs(0) \/ signs(1)
  BY <1>7, <1>9 DEF signs, ingestVars
<1>10. CASE \E c \in Claims : listSessionRecord(c) \/ listDeviceRevocation(c) \/ Gone(c)
  BY <1>7, <1>10 DEF listSessionRecord, listDeviceRevocation, Gone, Release
<1> QED BY <1>1, <1>2, <1>3, <1>4, <1>5, <1>6, <1>8, <1>9, <1>10
        DEF Next, Arrives, Receives, Stores, Answered, revokeDevice, copyRevocation

-----------------------------------------------------------------------------
(***************************************************************************)
(* What an upload works with.                                              *)
(***************************************************************************)
\* An upload's record as OwnWork wants it.
Owns(u) ==
    /\ ups[u].todo \in Seq(Mine(u))
    /\ ups[u].got \subseteq Mine(u) /\ ups[u].got \subseteq ever
    /\ ups[u].pc \notin {"ingesting", "verified"} => ups[u].got = {}

LEMMA OwnsRest ==
    ASSUME Inv, NEW u \in Uploads, Others(u), ever \subseteq ever', Owns(u)'
    PROVE  OwnWork'
<1> USE DEF Inv
<1>1. ASSUME NEW v \in Uploads \ {u} PROVE Owns(v)'
  BY <1>1 DEF Others, OwnWork, Owns, Mine
<1> QED BY <1>1 DEF OwnWork, Owns

LEMMA OwnsSame ==
    ASSUME Inv, NEW u \in Uploads, Others(u), ever \subseteq ever',
           ups'[u].mine = ups[u].mine, ups'[u].todo = ups[u].todo, ups'[u].got = ups[u].got,
           ups'[u].pc \notin {"ingesting", "verified"} => ups[u].got = {}
    PROVE  OwnWork'
<1>1. Owns(u)'
  BY DEF Inv, OwnWork, Owns, Mine
<1> QED BY <1>1, OwnsRest

LEMMA OwnStep == Inv /\ Next => OwnWork'
<1> SUFFICES ASSUME Inv, Next PROVE OwnWork'
  OBVIOUS
<1> USE DEF Inv
<1>1. ASSUME NEW u \in Uploads, handleUpload(u) PROVE OwnWork'
  <2>1. ups[u].got = {} /\ ever \subseteq ever'
    BY <1>1, UploadDoes DEF OwnWork
  <2> QED BY <1>1, <2>1, UploadDoes, OwnsSame
<1>2. ASSUME NEW u \in Uploads, receiptFor(u) PROVE OwnWork'
  <2>1. ups'[u].got = {} /\ ever' = ever
    BY <1>2, ReceiptDoes DEF OwnWork
  <2>2. ups'[u].mine \in 0 .. MaxReceipts /\ ups'[u].todo = receiptAndStore(u, ups'[u].mine)
    BY <1>2, ReceiptDoes DEF UploadStates
  <2>3. ups'[u].todo \in Seq(Mine(u)')
    <3> HIDE DEF Inv
    <3> QED BY <2>2, WorkTypes DEF Mine
  <2>4. Owns(u)'
    BY <2>1, <2>3 DEF Owns
  <2> QED BY <1>2, <2>1, <2>4, ReceiptDoes, OwnsRest
<1>3. ASSUME NEW u \in Uploads, storeStatements(u) PROVE OwnWork'
  <2>1. PICK S \in SUBSET Mine(u) : /\ ups'[u].got = ups[u].got \cup S
                                    /\ held' = held \cup S /\ ever' = ever \cup S
    BY <1>3, StoreDoes
  <2>2. ups'[u].todo \in Seq(Mine(u)) /\ ups'[u].mine = ups[u].mine /\ ups'[u].pc = "ingesting"
    BY <1>3, StoreDoes
  <2>3. Mine(u)' = Mine(u)
    BY <2>2 DEF Mine
  <2>4. Owns(u)'
    BY <2>1, <2>2, <2>3 DEF Owns, OwnWork
  <2> QED BY <1>3, <2>1, <2>4, StoreDoes, OwnsRest
<1>4. ASSUME NEW u \in Uploads, indexReceipt(u) PROVE OwnWork'
  BY <1>4, IndexDoes, OwnsSame
<1>5. ASSUME NEW u \in Uploads, verifyClaimOnIngest(u) PROVE OwnWork'
  <2>1. Owns(u)'
    BY <1>5, AnsweredDoes, EmptySeq DEF Owns
  <2> QED BY <1>5, <2>1, AnsweredDoes, OwnsRest
<1>6. ASSUME NEW u \in Uploads, checkUploadedStatement(u) \/ handleStatementUpload(u) PROVE OwnWork'
  <2>1. ups[u].got = {} /\ ever \subseteq ever'
    BY <1>6, CheckDoes DEF OwnWork
  <2> QED BY <1>6, <2>1, CheckDoes, OwnsSame
<1>7. CASE ups' = ups /\ ever \subseteq ever'
  BY <1>7 DEF OwnWork, Mine
<1>8. CASE Dies
  <2>1. ASSUME NEW u \in Uploads PROVE Owns(u)'
    <3>1. ups'[u].got = {} /\ (ups'[u] = ups[u] \/ ups'[u].todo = <<>>)
      BY <1>8, CrashDoes DEF Dies
    <3>2. ups'[u].todo \in Seq(Mine(u)')
      BY <3>1, EmptySeq DEF OwnWork, Mine
    <3> QED BY <3>1, <3>2 DEF Owns
  <2> QED BY <2>1 DEF OwnWork, Owns
<1>9. CASE signs(0) \/ signs(1)
  BY <1>7, <1>9 DEF signs, ingestVars
<1>10. CASE \E c \in Claims : listSessionRecord(c) \/ listDeviceRevocation(c) \/ Gone(c)
  BY <1>7, <1>10 DEF listSessionRecord, listDeviceRevocation, Gone, Release, Hold
<1> QED BY <1>1, <1>2, <1>3, <1>4, <1>5, <1>6, <1>8, <1>9, <1>10
        DEF Next, Arrives, Receives, Stores, Answered, revokeDevice, copyRevocation

-----------------------------------------------------------------------------
(***************************************************************************)
(* The receipts of a claim are numbered, and one of them is kept.          *)
(***************************************************************************)
LEMMA OneWorks ==
    ASSUME Inv, NEW u \in Uploads, NEW v \in Uploads, ClaimOf[u] = ClaimOf[v], holdsLock(u),
           ups[v].isNew \/ ups[v].pc = "ingesting"
    PROVE  u = v
BY DEF Inv, Locks, holdsLock

\* A set of numbers that has every number below its own is an interval.
LEMMA NoGaps ==
    ASSUME NEW M \in Nat, NEW S \in SUBSET (1 .. M), \A n \in S : \A m \in 1 .. n : m \in S
    PROVE  Cardinality(S) \in Nat /\ S = 1 .. Cardinality(S)
<1>1. IsFiniteSet(1 .. M)
  BY FS_Interval
<1>2. IsFiniteSet(S) /\ Cardinality(S) \in Nat
  BY <1>1, FS_Subset, FS_CardinalityType
<1> DEFINE k == Cardinality(S)
<1>3. ASSUME NEW n \in S PROVE n \in 1 .. k
  <2>1. n \in Nat \ {0}
    OBVIOUS
  <2>2. 1 .. n \in SUBSET S
    OBVIOUS
  <2>3. Cardinality(1 .. n) <= k
    BY <1>2, <2>2, FS_Subset
  <2>4. Cardinality(1 .. n) = n
    BY <2>1, FS_Interval
  <2> HIDE DEF k
  <2> QED BY <1>2, <2>1, <2>3, <2>4 DEF k
<1>4. IsFiniteSet(1 .. k) /\ Cardinality(1 .. k) = k
  <2> HIDE DEF k
  <2> QED BY <1>2, FS_Interval DEF k
<1>5. S \in SUBSET (1 .. k)
  BY <1>3
<1>6. S = 1 .. k
  BY <1>4, <1>5, FS_Subset, Zenon
<1> QED BY <1>2, <1>6

LEMMA HeldIs ==
    ASSUME Inv, NEW c \in Claims
    PROVE  /\ Held(c) = 1 .. Cardinality(Held(c))
           /\ Cardinality(Held(c)) \in Nat
BY NoGaps, Constants DEF Inv, Numbered, Held

\* No receipt of the claim is being made: the next is after those once held.
LEMMA NextReceipt ==
    ASSUME Inv, NEW u \in Uploads, receiptFor(u)
    PROVE  LET c == ClaimOf[u]
               k == Cardinality(signedFor(c))
           IN  k \in Nat /\ Held(c) = 1 .. k
<1> DEFINE c == ClaimOf[u]
<1>1. c \in Claims /\ holdsLock(u) /\ ~ups[u].isNew
  BY Constants DEF receiptFor, Inv, Locks
<1>2. ASSUME NEW v \in Uploads, ClaimOf[v] = c PROVE ~ups[v].isNew
  BY <1>1, <1>2, OneWorks
<1>3. signedFor(c) = Held(c)
  BY <1>2 DEF signedFor, Held
<1> QED BY <1>1, <1>3, HeldIs

\* No statement is added but the receipts that were there.
NoNewReceipt == \A x \in ever' \ ever : x[1] = "receipt" => x[3] = 0

LEMMA HeldSame ==
    ASSUME ever \subseteq ever', NoNewReceipt, NEW c
    PROVE  Held(c)' = Held(c)
BY DEF Held, NoNewReceipt

LEMMA NumberedSame ==
    ASSUME Inv, held' \subseteq ever', ever \subseteq ever', NoNewReceipt, index' = index,
           \A v \in Uploads : ups'[v].isNew => /\ ups[v].isNew /\ ups'[v].mine = ups[v].mine
                                               /\ ups[v].got \subseteq ups'[v].got
    PROVE  Numbered'
<1> USE DEF Inv
<1>1. \A c \in Claims : Held(c)' = Held(c)
  BY HeldSame
<1>2. \A u \in Uploads : ClaimOf[u] \in Claims
  BY Constants
<1>3. \A c \in Claims : \A n \in Held(c)' : \A m \in 1 .. n : m \in Held(c)'
  BY <1>1 DEF Numbered
<1>4. \A c \in Claims : index'[c] # 0 => index'[c] \in Held(c)'
  BY <1>1 DEF Numbered
<1>5. ASSUME NEW u \in Uploads, ups'[u].isNew
      PROVE  /\ ups'[u].mine # 0
             /\ \A m \in 1 .. ups'[u].mine - 1 : m \in Held(ClaimOf[u])'
             /\ \A n \in Held(ClaimOf[u])' : n <= ups'[u].mine
             /\ ups'[u].mine \in Held(ClaimOf[u])' =>
                   <<"receipt", ClaimOf[u], ups'[u].mine>> \in ups'[u].got
  <2>1. Held(ClaimOf[u])' = Held(ClaimOf[u])
    BY <1>1, <1>2
  <2> QED BY <1>5, <2>1 DEF Numbered
<1> QED BY <1>3, <1>4, <1>5 DEF Numbered

\* The receipt an upload works with is once held, or is the next.
LEMMA NumberedStore ==
    ASSUME Inv, NEW u \in Uploads, storeStatements(u)
    PROVE  Numbered'
<1> USE DEF Inv
<1> DEFINE c == ClaimOf[u]
           mine == ups[u].mine
<1>1. /\ Others(u) /\ ups[u].pc = "ingesting" /\ index' = index
      /\ ups'[u].mine = mine /\ ups'[u].isNew = ups[u].isNew
  BY StoreDoes
<1>2. PICK S \in SUBSET Mine(u) : /\ ups'[u].got = ups[u].got \cup S
                                  /\ held' = held \cup S /\ ever' = ever \cup S
  BY StoreDoes
<1>3. c \in Claims /\ mine \in 0 .. MaxReceipts /\ holdsLock(u)
  BY <1>1, Fields DEF Locks
<1>4. \A d \in Claims, n \in 1 .. MaxReceipts : <<"receipt", d, n>> \in S => d = c /\ n = mine
  BY <1>2 DEF Mine, The
<1>5. ASSUME NEW v \in Uploads, ups[v].isNew, ClaimOf[v] = c PROVE v = u
  BY <1>3, <1>5, OneWorks
<1>6. ASSUME ~ups[u].isNew, mine # 0 PROVE mine \in Held(c)
  BY <1>1, <1>3, <1>6 DEF OneKept, Numbered
<1>7. \A d \in Claims : d # c => Held(d)' = Held(d)
  BY <1>2, <1>4 DEF Held
<1>8. /\ Held(c) \subseteq Held(c)'
      /\ \A n \in Held(c)' : n \in Held(c) \/ (n = mine /\ <<"receipt", c, mine>> \in S)
  BY <1>2, <1>3, <1>4 DEF Held
<1>9. Held(c) \subseteq Nat /\ Held(c)' \subseteq Nat
  BY DEF Held
<1>10. CASE ups[u].isNew
  <2>1. /\ mine # 0 /\ (\A m \in 1 .. mine - 1 : m \in Held(c)) /\ (\A n \in Held(c) : n <= mine)
        /\ mine \in Held(c) => <<"receipt", c, mine>> \in ups[u].got
    BY <1>10 DEF Numbered
  <2>2. \A d \in Claims : \A n \in Held(d)' : \A m \in 1 .. n : m \in Held(d)'
    <3>1. ASSUME NEW n \in Held(c)', NEW m \in 1 .. n PROVE m \in Held(c)'
      <4>1. CASE n \in Held(c)
        BY <1>3, <1>8, <4>1 DEF Numbered
      <4>2. CASE n = mine
        BY <1>3, <1>8, <2>1, <4>2
      <4> QED BY <1>8, <4>1, <4>2
    <3> QED BY <1>7, <3>1 DEF Numbered
  <2>3. ASSUME NEW v \in Uploads, ups'[v].isNew
        PROVE  /\ ups'[v].mine # 0
               /\ \A m \in 1 .. ups'[v].mine - 1 : m \in Held(ClaimOf[v])'
               /\ \A n \in Held(ClaimOf[v])' : n <= ups'[v].mine
               /\ ups'[v].mine \in Held(ClaimOf[v])' =>
                     <<"receipt", ClaimOf[v], ups'[v].mine>> \in ups'[v].got
    <3>1. CASE v = u
      <4>1. \A n \in Held(c)' : n <= mine
        BY <1>3, <1>8, <2>1
      <4>2. mine \in Held(c)' => <<"receipt", c, mine>> \in ups'[u].got
        BY <1>2, <1>8, <2>1
      <4> QED BY <1>1, <1>8, <2>1, <3>1, <4>1, <4>2
    <3>2. CASE v # u
      <4>1. ups'[v] = ups[v] /\ ups[v].isNew
        BY <1>1, <2>3, <3>2 DEF Others
      <4>2. ClaimOf[v] \in Claims /\ ClaimOf[v] # c
        BY <1>5, <3>2, <4>1, Constants
      <4>3. Held(ClaimOf[v])' = Held(ClaimOf[v])
        BY <1>7, <4>2
      <4> QED BY <4>1, <4>3 DEF Numbered
    <3> QED BY <3>1, <3>2
  <2>4. \A d \in Claims : index'[d] # 0 => index'[d] \in Held(d)'
    BY <1>1, <1>7, <1>8 DEF Numbered
  <2>5. held' \subseteq ever'
    BY <1>2 DEF Numbered
  <2> QED BY <2>2, <2>3, <2>4, <2>5 DEF Numbered
<1>11. CASE ~ups[u].isNew
  <2>1. \A d \in Claims : Held(d)' = Held(d)
    <3>1. Held(c)' = Held(c)
      <4>1. mine = 0 => 0 \notin Held(c)'
        BY DEF Held
      <4> QED BY <1>6, <1>8, <1>11, <4>1
    <3> QED BY <1>7, <3>1
  <2>2. ASSUME NEW v \in Uploads, ups'[v].isNew
        PROVE  v # u /\ ups'[v] = ups[v] /\ Held(ClaimOf[v])' = Held(ClaimOf[v])
    BY <1>1, <1>11, <2>1, <2>2, Constants DEF Others
  <2>3. \A d \in Claims : \A n \in Held(d)' : \A m \in 1 .. n : m \in Held(d)'
    BY <2>1 DEF Numbered
  <2>4. \A d \in Claims : index'[d] # 0 => index'[d] \in Held(d)'
    BY <1>1, <2>1 DEF Numbered
  <2>5. ASSUME NEW v \in Uploads, ups'[v].isNew
        PROVE  /\ ups'[v].mine # 0
               /\ \A m \in 1 .. ups'[v].mine - 1 : m \in Held(ClaimOf[v])'
               /\ \A n \in Held(ClaimOf[v])' : n <= ups'[v].mine
               /\ ups'[v].mine \in Held(ClaimOf[v])' =>
                     <<"receipt", ClaimOf[v], ups'[v].mine>> \in ups'[v].got
    BY <2>2, <2>5 DEF Numbered
  <2>6. held' \subseteq ever'
    BY <1>2 DEF Numbered
  <2> QED BY <2>3, <2>4, <2>5, <2>6 DEF Numbered
<1> QED BY <1>10, <1>11

\* What each step adds to what was held.
LEMMA AddsNoReceipt ==
    ASSUME Inv, NEW u \in Uploads, handleUpload(u) \/ checkUploadedStatement(u) \/ handleStatementUpload(u)
    PROVE  /\ ever \subseteq ever' /\ held' \subseteq ever' /\ NoNewReceipt
           /\ \A x \in held' \ held : x[1] = "receipt" => x[3] = 0
<1> USE DEF Inv
<1>1. PICK x : /\ x[3] = 0
               /\ \E S \in SUBSET {x} : held' = held \cup S /\ ever' = ever \cup S
  <2>1. CASE handleUpload(u)
    <3> DEFINE x == The("audio", ClaimOf[u])
    <3>1. x[3] = 0
      BY DEF The
    <3>2. held' = held \cup {x} /\ ever' = ever \cup {x}
      BY <2>1, UploadDoes
    <3> HIDE DEF x
    <3>3. \E S \in SUBSET {x} : held' = held \cup S /\ ever' = ever \cup S
      BY <3>2
    <3> QED BY <3>1, <3>3
  <2>2. CASE checkUploadedStatement(u) \/ handleStatementUpload(u)
    <3> DEFINE x == The(BodyOf[u], ClaimOf[u])
    <3>1. x[3] = 0
      BY DEF The
    <3>2. \E S \in SUBSET {x} : held' = held \cup S /\ ever' = ever \cup S
      BY <2>2, CheckDoes
    <3> HIDE DEF x
    <3> QED BY <3>1, <3>2
  <2> QED BY <2>1, <2>2
<1> QED BY <1>1 DEF Numbered, NoNewReceipt

LEMMA NumberedStep == Inv /\ Next => Numbered'
<1> SUFFICES ASSUME Inv, Next PROVE Numbered'
  OBVIOUS
<1> USE DEF Inv
<1>1. ASSUME NEW u \in Uploads, handleUpload(u) PROVE Numbered'
  <2>1. \A v \in Uploads : ups'[v].isNew => /\ ups[v].isNew /\ ups'[v].mine = ups[v].mine
                                            /\ ups[v].got \subseteq ups'[v].got
    BY <1>1, UploadDoes DEF Others
  <2> QED BY <1>1, <2>1, UploadDoes, AddsNoReceipt, NumberedSame
<1>2. ASSUME NEW u \in Uploads, receiptFor(u) PROVE Numbered'
  <2> DEFINE c == ClaimOf[u]
             k == Cardinality(signedFor(c))
  <2>1. k \in Nat /\ Held(c) = 1 .. k
    BY <1>2, NextReceipt
  <2>2. Others(u) /\ UNCHANGED <<held, index, ever>>
    BY <1>2, ReceiptDoes
  <2>3. ups'[u].isNew => ups'[u].mine = k + 1
    BY <1>2, ReceiptDoes
  <2> HIDE DEF k
  <2>4. \A d : Held(d)' = Held(d)
    BY <2>2 DEF Held
  <2>5. ASSUME NEW v \in Uploads, ups'[v].isNew
        PROVE  /\ ups'[v].mine # 0
               /\ \A m \in 1 .. ups'[v].mine - 1 : m \in Held(ClaimOf[v])
               /\ \A n \in Held(ClaimOf[v]) : n <= ups'[v].mine
               /\ ups'[v].mine \in Held(ClaimOf[v]) =>
                     <<"receipt", ClaimOf[v], ups'[v].mine>> \in ups'[v].got
    <3>1. CASE v = u
      <4>1. ups'[v].mine = k + 1
        BY <2>3, <2>5, <3>1
      <4>2. k + 1 # 0 /\ (\A m \in 1 .. (k + 1) - 1 : m \in Held(c))
            /\ (\A n \in Held(c) : n <= k + 1) /\ k + 1 \notin Held(c)
        BY <2>1
      <4> QED BY <3>1, <4>1, <4>2
    <3>2. CASE v # u
      BY <2>2, <2>5, <3>2 DEF Others, Numbered
    <3> QED BY <3>1, <3>2
  <2> QED BY <2>2, <2>4, <2>5 DEF Numbered
<1>3. ASSUME NEW u \in Uploads, storeStatements(u) PROVE Numbered'
  BY <1>3, NumberedStore
<1>4. ASSUME NEW u \in Uploads, indexReceipt(u) PROVE Numbered'
  <2> DEFINE c == ClaimOf[u]
             mine == ups[u].mine
             r == <<"receipt", c, mine>>
  <2>1. /\ Others(u) /\ ups'[u].isNew = FALSE /\ UNCHANGED <<held, ever>>
        /\ index' # index => ups[u].isNew /\ r \in ups[u].got /\ index' = [index EXCEPT ![c] = mine]
    BY <1>4, IndexDoes
  <2>2. \A d : Held(d)' = Held(d)
    BY <2>1 DEF Held
  <2>3. index' # index => mine \in Held(c)
    <3>1. ups[u].isNew => mine # 0
      BY DEF Numbered
    <3>2. ups[u].got \subseteq ever /\ mine \in 0 .. MaxReceipts
      BY Fields DEF OwnWork
    <3> QED BY <2>1, <3>1, <3>2 DEF Held
  <2>4. \A d \in Claims : index'[d] # 0 => index'[d] \in Held(d)
    BY <2>1, <2>3 DEF Numbered, TypeOK
  <2>5. \A v \in Uploads : ups'[v].isNew => ups'[v] = ups[v] /\ ups[v].isNew
    BY <2>1 DEF Others
  <2> QED BY <2>1, <2>2, <2>4, <2>5 DEF Numbered
<1>5. ASSUME NEW u \in Uploads, verifyClaimOnIngest(u) PROVE Numbered'
  <2>1. \A v \in Uploads : ups'[v].isNew => ups'[v] = ups[v]
    BY <1>5, AnsweredDoes DEF Others
  <2>2. /\ held' \subseteq ever' /\ ever' = ever /\ index' = index
    BY <1>5, AnsweredDoes DEF Numbered
  <2> QED BY <2>1, <2>2, NumberedSame DEF NoNewReceipt
<1>6. ASSUME NEW u \in Uploads, checkUploadedStatement(u) \/ handleStatementUpload(u) PROVE Numbered'
  <2>1. \A v \in Uploads : ups'[v].isNew => /\ ups[v].isNew /\ ups'[v].mine = ups[v].mine
                                            /\ ups[v].got \subseteq ups'[v].got
    BY <1>6, CheckDoes DEF Others
  <2> QED BY <1>6, <2>1, CheckDoes, AddsNoReceipt, NumberedSame
<1>7. ASSUME ups' = ups, index' = index, held' \subseteq ever', ever \subseteq ever', NoNewReceipt
      PROVE  Numbered'
  BY <1>7, NumberedSame
<1>8. CASE Dies
  <2>1. \A u \in Uploads : ups'[u].isNew = FALSE
    BY <1>8, CrashDoes DEF Dies
  <2>2. held' \subseteq ever' /\ ever' = ever /\ index' = index
    BY <1>8, CrashDoes DEF Dies, Numbered
  <2> QED BY <2>1, <2>2, NumberedSame DEF NoNewReceipt
<1>9. CASE signs(0) \/ signs(1)
  BY <1>7, <1>9 DEF signs, ingestVars, Numbered, NoNewReceipt
<1>10. ASSUME NEW c \in Claims, listSessionRecord(c) \/ listDeviceRevocation(c) \/ Gone(c)
       PROVE  Numbered'
  <2>1. CASE listSessionRecord(c)
    BY <1>7, <2>1 DEF listSessionRecord, Hold, Numbered, NoNewReceipt, The
  <2>2. CASE listDeviceRevocation(c)
    BY <1>7, <2>2 DEF listDeviceRevocation, Hold, Numbered, NoNewReceipt, Withdrawal
  <2>3. CASE Gone(c)
    BY <1>7, <2>3 DEF Gone, Release, Numbered, NoNewReceipt
  <2> QED BY <1>10, <2>1, <2>2, <2>3
<1> QED BY <1>1, <1>2, <1>3, <1>4, <1>5, <1>6, <1>8, <1>9, <1>10
        DEF Next, Arrives, Receives, Stores, Answered, revokeDevice, copyRevocation

\* A step that neither stores a receipt nor writes the index.
LEMMA KeptSame ==
    ASSUME Inv, index' = index, lostIndex \subseteq lostIndex',
           \A x \in held' \ held : x[1] = "receipt" => x[3] = 0,
           \A v \in Uploads : /\ ups'[v].isNew <=> ups[v].isNew
                              /\ ups'[v].isNew => ups'[v].mine = ups[v].mine
                              /\ ups'[v].pc = "ingesting" => ups'[v] = ups[v]
    PROVE  OneKept'
<1> USE DEF Inv
<1>0. \A u \in Uploads : ClaimOf[u] \in Claims
  BY Constants
<1>1. ASSUME NEW c \in Claims, NEW n \in 1 .. MaxReceipts, <<"receipt", c, n>> \in held' \ lostIndex'
      PROVE  index'[c] = n \/ \E u \in Uploads : ClaimOf[u] = c /\ ups'[u].isNew /\ ups'[u].mine = n
  <2>1. <<"receipt", c, n>> \in held \ lostIndex
    BY <1>1
  <2> QED BY <2>1 DEF OneKept
<1>2. ASSUME NEW u \in Uploads, ups'[u].isNew
      PROVE  /\ ups'[u].mine # index'[ClaimOf[u]]
             /\ index'[ClaimOf[u]] # 0 => <<"receipt", ClaimOf[u], index'[ClaimOf[u]]>> \notin held'
  BY <1>0, <1>2 DEF OneKept
<1>3. ASSUME NEW u \in Uploads, ups'[u].pc = "ingesting" /\ ~ups'[u].isNew /\ ups'[u].mine # 0
      PROVE  ups'[u].mine = index'[ClaimOf[u]]
  BY <1>3 DEF OneKept
<1> QED BY <1>1, <1>2, <1>3 DEF OneKept

LEMMA KeptReceive ==
    ASSUME Inv, NEW u \in Uploads, receiptFor(u)
    PROVE  OneKept'
<1> USE DEF Inv
<1> DEFINE c == ClaimOf[u]
           k == Cardinality(signedFor(c))
<1>1. k \in Nat /\ Held(c) = 1 .. k
  BY NextReceipt
<1>2. /\ Others(u) /\ UNCHANGED <<held, index, lostIndex>> /\ ups[u].pc = "locked"
      /\ \/ ups'[u].isNew = FALSE /\ ups'[u].mine = 0
         \/ ups'[u].isNew = FALSE /\ ups'[u].mine = index[c]
         \/ ups'[u].isNew = TRUE /\ ups'[u].mine = k + 1 /\ readOwnReceipt(c) = 0
  BY ReceiptDoes
<1> HIDE DEF k
<1>3. ~ups[u].isNew /\ c \in Claims /\ index[c] \in 0 .. MaxReceipts
  BY <1>2, Constants DEF Locks, TypeOK
<1>4. ASSUME NEW d \in Claims, NEW n \in 1 .. MaxReceipts, <<"receipt", d, n>> \in held' \ lostIndex'
      PROVE  index'[d] = n \/ \E v \in Uploads : ClaimOf[v] = d /\ ups'[v].isNew /\ ups'[v].mine = n
  <2>1. index[d] = n \/ \E v \in Uploads : ClaimOf[v] = d /\ ups[v].isNew /\ ups[v].mine = n
    BY <1>2, <1>4 DEF OneKept
  <2> QED BY <1>2, <1>3, <2>1 DEF Others
<1>5. ASSUME NEW v \in Uploads, ups'[v].isNew
      PROVE  /\ ups'[v].mine # index'[ClaimOf[v]]
             /\ index'[ClaimOf[v]] # 0 => <<"receipt", ClaimOf[v], index'[ClaimOf[v]]>> \notin held'
  <2>1. CASE v = u
    <3>1. ups'[u].mine = k + 1 /\ readOwnReceipt(c) = 0
      BY <1>2, <1>5, <2>1
    <3>2. index[c] # k + 1
      <4>1. index[c] # 0 => index[c] \in Held(c)
        BY <1>3 DEF Numbered
      <4> QED BY <1>1, <1>3, <4>1
    <3>3. index[c] # 0 => <<"receipt", c, index[c]>> \notin held
      BY <3>1 DEF readOwnReceipt
    <3> QED BY <1>2, <2>1, <3>1, <3>2, <3>3
  <2>2. CASE v # u
    BY <1>2, <1>5, <2>2 DEF Others, OneKept
  <2> QED BY <2>1, <2>2
<1>6. ASSUME NEW v \in Uploads, ups'[v].pc = "ingesting" /\ ~ups'[v].isNew /\ ups'[v].mine # 0
      PROVE  ups'[v].mine = index'[ClaimOf[v]]
  BY <1>2, <1>6 DEF Others, OneKept
<1> QED BY <1>4, <1>5, <1>6 DEF OneKept

LEMMA KeptStore ==
    ASSUME Inv, NEW u \in Uploads, storeStatements(u)
    PROVE  OneKept'
<1> USE DEF Inv
<1> DEFINE c == ClaimOf[u]
           mine == ups[u].mine
<1>1. /\ Others(u) /\ ups[u].pc = "ingesting" /\ UNCHANGED <<index, lostIndex>>
      /\ ups'[u].mine = mine /\ ups'[u].isNew = ups[u].isNew
  BY StoreDoes
<1>2. PICK S \in SUBSET Mine(u) : held' = held \cup S
  BY StoreDoes
<1>3. c \in Claims /\ mine \in 0 .. MaxReceipts /\ holdsLock(u)
  BY <1>1, Fields DEF Locks
<1>4. \A d \in Claims, n \in 1 .. MaxReceipts : <<"receipt", d, n>> \in S => d = c /\ n = mine
  BY <1>2 DEF Mine, The
<1>5. \A v \in Uploads : ups'[v].isNew = ups[v].isNew /\ ups'[v].mine = ups[v].mine
  BY <1>1 DEF Others
<1>6. ASSUME NEW d \in Claims, NEW n \in 1 .. MaxReceipts, <<"receipt", d, n>> \in held' \ lostIndex'
      PROVE  index'[d] = n \/ \E v \in Uploads : ClaimOf[v] = d /\ ups'[v].isNew /\ ups'[v].mine = n
  <2>1. CASE <<"receipt", d, n>> \in held
    <3>1. index[d] = n \/ \E v \in Uploads : ClaimOf[v] = d /\ ups[v].isNew /\ ups[v].mine = n
      BY <1>1, <1>6, <2>1 DEF OneKept
    <3> QED BY <1>1, <1>5, <3>1
  <2>2. CASE <<"receipt", d, n>> \in S
    <3>1. d = c /\ n = mine
      BY <1>4, <2>2
    <3>2. ups[u].isNew \/ mine = index[c]
      BY <1>1, <3>1 DEF OneKept
    <3> QED BY <1>1, <1>5, <3>1, <3>2
  <2> QED BY <1>2, <1>6, <2>1, <2>2
<1>7. ASSUME NEW v \in Uploads, ups'[v].isNew
      PROVE  /\ ups'[v].mine # index'[ClaimOf[v]]
             /\ index'[ClaimOf[v]] # 0 => <<"receipt", ClaimOf[v], index'[ClaimOf[v]]>> \notin held'
  <2> DEFINE d == ClaimOf[v]
             i == index[d]
  <2>1. d \in Claims /\ i \in 0 .. MaxReceipts
    BY Constants DEF TypeOK
  <2>2. ups[v].isNew /\ ups[v].mine # i /\ (i # 0 => <<"receipt", d, i>> \notin held)
    BY <1>5, <1>7 DEF OneKept
  <2>3. ASSUME i # 0, <<"receipt", d, i>> \in S PROVE FALSE
    <3>1. d = c /\ i = mine
      BY <1>4, <2>1, <2>3
    <3>2. v = u
      BY <1>3, <2>2, <3>1, OneWorks
    <3> QED BY <2>2, <3>1, <3>2
  <2> QED BY <1>1, <1>2, <1>5, <2>2, <2>3
<1>8. ASSUME NEW v \in Uploads, ups'[v].pc = "ingesting" /\ ~ups'[v].isNew /\ ups'[v].mine # 0
      PROVE  ups'[v].mine = index'[ClaimOf[v]]
  <2>1. ups[v].pc = "ingesting"
    BY <1>1, <1>8 DEF Others
  <2> QED BY <1>1, <1>5, <1>8, <2>1 DEF OneKept
<1> QED BY <1>6, <1>7, <1>8 DEF OneKept

\* The one receipt is the index's, or it is the new one and the index is behind.
LEMMA KeptIndex ==
    ASSUME Inv, NEW u \in Uploads, indexReceipt(u)
    PROVE  OneKept'
<1> USE DEF Inv
<1> DEFINE c == ClaimOf[u]
           mine == ups[u].mine
           r == <<"receipt", c, mine>>
           inUse == ups[u].isNew /\ r \in ups[u].got
<1>1. /\ Others(u) /\ ups[u].pc = "ingesting" /\ ups'[u].pc = "verified" /\ ups'[u].isNew = FALSE
      /\ held' = held
      /\ IF inUse
           THEN \/ index' = [index EXCEPT ![c] = mine] /\ lostIndex' = lostIndex
                \/ index' = index /\ lostIndex' = lostIndex \cup {r}
           ELSE index' = index /\ lostIndex' = lostIndex
  BY IndexDoes
<1>2. c \in Claims /\ mine \in 0 .. MaxReceipts /\ holdsLock(u)
  BY <1>1, Fields DEF Locks
<1>3. ASSUME NEW v \in Uploads \ {u}, ups'[v].isNew \/ ups'[v].pc = "ingesting"
      PROVE  ups'[v] = ups[v] /\ ClaimOf[v] # c /\ index'[ClaimOf[v]] = index[ClaimOf[v]]
  <2>1. ups'[v] = ups[v]
    BY <1>1 DEF Others
  <2>2. ClaimOf[v] # c
    BY <1>2, <1>3, <2>1, OneWorks
  <2>3. index' = index \/ index' = [index EXCEPT ![c] = mine]
    BY <1>1
  <2> QED BY <2>1, <2>2, <2>3, Constants DEF TypeOK
<1>4. ASSUME NEW d \in Claims, NEW n \in 1 .. MaxReceipts, <<"receipt", d, n>> \in held' \ lostIndex'
      PROVE  index'[d] = n \/ \E v \in Uploads : ClaimOf[v] = d /\ ups'[v].isNew /\ ups'[v].mine = n
  <2>0. <<"receipt", d, n>> \in held \ lostIndex
    BY <1>1, <1>4
  <2>1. index[d] = n \/ \E v \in Uploads : ClaimOf[v] = d /\ ups[v].isNew /\ ups[v].mine = n
    BY <2>0 DEF OneKept
  <2>2. CASE d # c
    <3>1. index'[d] = index[d]
      BY <1>1, <1>2, <2>2 DEF TypeOK
    <3>2. \A v \in Uploads : ClaimOf[v] = d => ups'[v] = ups[v]
      BY <1>1, <2>2 DEF Others
    <3> QED BY <2>1, <3>1, <3>2
  <2>3. CASE d = c
    <3>1. index[c] = n \/ (ups[u].isNew /\ mine = n)
      BY <1>2, <2>1, <2>3, OneWorks
    <3>2. CASE ~ups[u].isNew
      BY <1>1, <2>3, <3>1, <3>2
    <3>3. CASE ups[u].isNew
      <4>1. index[c] # n
        BY <2>0, <2>3, <3>3 DEF OneKept
      <4>2. mine = n /\ r \in held \ lostIndex
        BY <2>0, <2>3, <3>1, <4>1
      <4>3. mine \in Held(c)
        BY <4>2 DEF Held, Numbered
      <4>4. r \in ups[u].got
        BY <3>3, <4>3 DEF Numbered
      <4>5. index' = [index EXCEPT ![c] = mine] \/ r \in lostIndex'
        BY <1>1, <3>3, <4>4
      <4> QED BY <1>2, <1>4, <2>3, <4>2, <4>5 DEF TypeOK
    <3> QED BY <3>2, <3>3
  <2> QED BY <2>2, <2>3
<1>5. ASSUME NEW v \in Uploads, ups'[v].isNew
      PROVE  /\ ups'[v].mine # index'[ClaimOf[v]]
             /\ index'[ClaimOf[v]] # 0 => <<"receipt", ClaimOf[v], index'[ClaimOf[v]]>> \notin held'
  <2>1. v # u
    BY <1>1, <1>5
  <2> QED BY <1>1, <1>3, <1>5, <2>1 DEF OneKept
<1>6. ASSUME NEW v \in Uploads, ups'[v].pc = "ingesting" /\ ~ups'[v].isNew /\ ups'[v].mine # 0
      PROVE  ups'[v].mine = index'[ClaimOf[v]]
  <2>1. v # u
    BY <1>1, <1>6
  <2> QED BY <1>3, <1>6, <2>1 DEF OneKept
<1> QED BY <1>4, <1>5, <1>6 DEF OneKept

LEMMA KeptCrash ==
    ASSUME Inv, IngestCrash
    PROVE  OneKept'
<1> USE DEF Inv
<1>1. \A u \in Uploads : ups'[u].pc # "ingesting" /\ ups'[u].isNew = FALSE
  BY CrashDoes
<1>2. ASSUME NEW c \in Claims, NEW n \in 1 .. MaxReceipts, <<"receipt", c, n>> \in held' \ lostIndex'
      PROVE  index'[c] = n
  <2>1. held' = held /\ index' = index /\ lostIndex \subseteq lostIndex'
    BY CrashDoes
  <2>2. ASSUME NEW u \in Uploads, ClaimOf[u] = c, ups[u].isNew, ups[u].mine = n PROVE FALSE
    BY <1>2, <2>1, <2>2, CrashDoes
  <2>3. <<"receipt", c, n>> \in held \ lostIndex
    BY <1>2, <2>1
  <2> QED BY <2>1, <2>2, <2>3 DEF OneKept
<1> QED BY <1>1, <1>2 DEF OneKept

LEMMA KeptStep == Inv /\ Next => OneKept'
<1> SUFFICES ASSUME Inv, Next PROVE OneKept'
  OBVIOUS
<1> USE DEF Inv
<1>1. ASSUME NEW u \in Uploads,
             handleUpload(u) \/ checkUploadedStatement(u) \/ handleStatementUpload(u)
      PROVE  OneKept'
  <2>1. \A x \in held' \ held : x[1] = "receipt" => x[3] = 0
    BY <1>1, AddsNoReceipt
  <2>2. /\ Others(u) /\ index' = index /\ lostIndex' = lostIndex
        /\ ups'[u].isNew = ups[u].isNew /\ ups'[u].mine = ups[u].mine /\ ups'[u].pc # "ingesting"
    BY <1>1, UploadDoes, CheckDoes
  <2>3. \A v \in Uploads : /\ ups'[v].isNew <=> ups[v].isNew
                           /\ ups'[v].isNew => ups'[v].mine = ups[v].mine
                           /\ ups'[v].pc = "ingesting" => ups'[v] = ups[v]
    BY <2>2 DEF Others
  <2> QED BY <2>1, <2>2, <2>3, KeptSame
<1>2. ASSUME NEW u \in Uploads, verifyClaimOnIngest(u) PROVE OneKept'
  <2>1. /\ Others(u) /\ index' = index /\ lostIndex' = lostIndex /\ held' = held
        /\ ups[u].pc = "verified" /\ ups'[u].isNew = FALSE /\ ups'[u].pc = "done"
    BY <1>2, AnsweredDoes
  <2>2. ~ups[u].isNew
    BY <2>1 DEF Locks
  <2>3. \A v \in Uploads : /\ ups'[v].isNew <=> ups[v].isNew
                           /\ ups'[v].isNew => ups'[v].mine = ups[v].mine
                           /\ ups'[v].pc = "ingesting" => ups'[v] = ups[v]
    BY <2>1, <2>2 DEF Others
  <2> QED BY <2>1, <2>3, KeptSame
<1>3. ASSUME ups' = ups, index' = index, lostIndex' = lostIndex,
             \A x \in held' \ held : x[1] = "receipt" => x[3] = 0
      PROVE  OneKept'
  BY <1>3, KeptSame
<1>4. CASE signs(0) \/ signs(1)
  BY <1>3, <1>4 DEF signs, ingestVars
<1>5. ASSUME NEW c \in Claims, listSessionRecord(c) \/ listDeviceRevocation(c) \/ Gone(c)
      PROVE  OneKept'
  BY <1>3, <1>5 DEF listSessionRecord, listDeviceRevocation, Gone, Release, Hold, The, Withdrawal
<1> QED BY <1>1, <1>2, <1>4, <1>5, KeptReceive, KeptStore, KeptIndex, KeptCrash
        DEF Next, Arrives, Receives, Stores, Answered, revokeDevice, copyRevocation, Dies

-----------------------------------------------------------------------------
(***************************************************************************)
(* A revocation is signed once, and listed beside what it withdraws.       *)
(***************************************************************************)
\* What is said of a listed revocation, and of one on its way.
Backed(c, x) == x[3] \in ToSet(revoked) /\ The("link", c) \in listed[c]
Awaited(u) ==
    /\ 0 \in ToSet(revoked)
    /\ ClaimOf[u] \in deleted \/ The("link", ClaimOf[u]) \in listed[ClaimOf[u]]

LEMMA MineKinds ==
    ASSUME NEW u \in Uploads, NEW x \in Mine(u)
    PROVE  /\ x[1] \in {"claim", "link", "receipt"}
           /\ x[1] = "receipt" => x = <<"receipt", ClaimOf[u], ups[u].mine>> /\ ups[u].mine # 0
<1>1. CASE x = The("claim", ClaimOf[u]) \/ x = The("link", ClaimOf[u])
  BY <1>1 DEF The
<1>2. CASE ups[u].mine # 0 /\ x = <<"receipt", ClaimOf[u], ups[u].mine>>
  BY <1>2
<1> QED BY <1>1, <1>2 DEF Mine

LEMMA WithdrawnGrows ==
    ASSUME Inv, revoked' = revoked, deleted' = deleted,
           \A c \in Claims : listed[c] \subseteq listed'[c],
           \A c \in deleted : listed'[c] = listed[c],
           \A c \in Claims : \A x \in listed'[c] \ listed[c] : x[1] = "revocation" => Backed(c, x),
           \A u \in Uploads : ups'[u].pc = "checked" /\ BodyOf[u] = "revocation" =>
              ups[u].pc = "checked" \/ Awaited(u)
    PROVE  Withdrawn'
<1> USE DEF Inv
<1>1. \A c \in Claims : \A x \in listed'[c] : x[1] = "revocation" =>
          x[3] \in ToSet(revoked) /\ The("link", c) \in listed'[c]
  BY DEF Withdrawn, Backed
<1>2. ASSUME NEW u \in Uploads, ups'[u].pc = "checked" /\ BodyOf[u] = "revocation"
      PROVE  /\ 0 \in ToSet(revoked)
             /\ ClaimOf[u] \in deleted \/ The("link", ClaimOf[u]) \in listed'[ClaimOf[u]]
  <2>1. Awaited(u)
    BY <1>2 DEF Awaited, Withdrawn
  <2> QED BY <2>1, Constants DEF Awaited
<1>3. \A c \in deleted' : listed'[c] = {}
  BY DEF Withdrawn
<1> QED BY <1>1, <1>2, <1>3 DEF Withdrawn

LEMMA WithdrawnLists ==
    ASSUME Inv, revoked' = revoked, deleted' = deleted,
           NEW c \in Claims, NEW S \in SUBSET Statements, Lists(c, S),
           \A x \in S : x[1] = "revocation" => c \in deleted \/ Backed(c, x),
           \A u \in Uploads : ups'[u].pc = "checked" => ups[u].pc = "checked"
    PROVE  Withdrawn'
<1> USE DEF Inv
<1>1. /\ \A d \in Claims \ {c} : listed'[d] = listed[d]
      /\ c \in deleted => listed'[c] = listed[c]
      /\ c \notin deleted => listed'[c] = listed[c] \cup S
  BY ListsTypes
<1>2. \A d \in Claims : listed[d] \subseteq listed'[d]
  BY <1>1
<1>3. \A d \in deleted : listed'[d] = listed[d]
  BY <1>1 DEF TypeOK
<1>4. \A d \in Claims : \A x \in listed'[d] \ listed[d] : x[1] = "revocation" => Backed(d, x)
  BY <1>1
<1> QED BY <1>2, <1>3, <1>4, WithdrawnGrows

LEMMA WithdrawnStep == Inv /\ Next => Withdrawn'
<1> SUFFICES ASSUME Inv, Next PROVE Withdrawn'
  OBVIOUS
<1> USE DEF Inv
<1>1. ASSUME UNCHANGED <<listed, revoked, deleted>>,
             \A u \in Uploads : ups'[u].pc = "checked" => ups[u].pc = "checked"
      PROVE  Withdrawn'
  BY <1>1, WithdrawnGrows
<1>2. ASSUME NEW u \in Uploads, Arrives(u) \/ Receives(u) \/ Stores(u) PROVE Withdrawn'
  <2>1. Others(u) /\ ups'[u].pc # "checked"
    BY <1>2, UploadDoes, ReceiptDoes, StoreDoes, IndexDoes DEF Arrives, Receives, Stores
  <2> QED BY <1>1, <1>2, <2>1 DEF Others, Arrives, Receives, Stores
<1>3. ASSUME NEW u \in Uploads, Answered(u) PROVE Withdrawn'
  <2>1. Others(u) /\ ups'[u].pc = "done" /\ UNCHANGED <<revoked, deleted>>
    BY <1>3, AnsweredDoes DEF Answered
  <2>2. \A v \in Uploads : ups'[v].pc = "checked" => ups[v].pc = "checked"
    BY <2>1 DEF Others
  <2>3. CASE UNCHANGED listed
    BY <1>1, <2>1, <2>2, <2>3
  <2>4. CASE Lists(ClaimOf[u], ups[u].got)
    <3>1. \A x \in ups[u].got : x[1] # "revocation"
      BY MineKinds DEF OwnWork
    <3>2. ups[u].got \in SUBSET Statements /\ ClaimOf[u] \in Claims
      BY Fields
    <3> QED BY <2>1, <2>2, <2>4, <3>1, <3>2, WithdrawnLists
  <2> QED BY <1>3, <2>3, <2>4 DEF Answered
<1>4. ASSUME NEW u \in Uploads, revokeDevice(u) PROVE Withdrawn'
  <2>1. Others(u) /\ UNCHANGED <<listed, revoked, deleted>>
    BY <1>4, CheckDoes DEF revokeDevice
  <2>2. BodyOf[u] = "revocation" => Awaited(u)
    BY <1>4 DEF revokeDevice, Awaited
  <2> QED BY <2>1, <2>2, WithdrawnGrows DEF Others
<1>5. ASSUME NEW u \in Uploads, copyRevocation(u) PROVE Withdrawn'
  <2> DEFINE c == ClaimOf[u]
             S == {The("revocation", c)} \cap {The(BodyOf[u], c)} \cap held'
  <2>1. /\ Others(u) /\ UNCHANGED <<revoked, deleted>> /\ Lists(c, S)
        /\ ups[u].pc = "checked" /\ ups'[u].pc = "done"
    BY <1>5, CheckDoes DEF copyRevocation, handleStatementUpload
  <2>2. c \in Claims /\ S \in SUBSET Statements
    BY MineTypes, Constants
  <2>3. ASSUME NEW x \in S PROVE c \in deleted \/ Backed(c, x)
    <3>1. BodyOf[u] = "revocation" /\ x[3] = 0
      BY <2>3 DEF The
    <3> QED BY <2>1, <3>1 DEF Withdrawn, Backed
  <2>4. \A v \in Uploads : ups'[v].pc = "checked" => ups[v].pc = "checked"
    BY <2>1 DEF Others
  <2> HIDE DEF S
  <2> QED BY <2>1, <2>2, <2>3, <2>4, WithdrawnLists
<1>6. ASSUME NEW who \in {0, 1}, signs(who) PROVE Withdrawn'
  <2>1. /\ who = 1 => ViaVouch
        /\ who \notin ToSet(revoked) /\ revoked' = Append(revoked, who)
        /\ UNCHANGED <<listed, deleted, ups>>
    BY <1>6 DEF signs, ingestVars
  <2>2. /\ ToSet(revoked') = ToSet(revoked) \cup {who}
        /\ \A i, j \in 1 .. Len(revoked') : revoked'[i] = revoked'[j] => i = j
    BY <2>1, NowNat, Joins DEF Withdrawn
  <2> QED BY <2>1, <2>2 DEF Withdrawn
<1>7. ASSUME NEW c \in Claims, NEW x \in Statements, Lists(c, {x}), x[1] = "revocation" => Backed(c, x),
             UNCHANGED <<ups, revoked, deleted>>
      PROVE  Withdrawn'
  <2> DEFINE S == {x}
  <2>1. S \in SUBSET Statements /\ Lists(c, S)
        /\ \A y \in S : y[1] = "revocation" => c \in deleted \/ Backed(c, y)
    BY <1>7
  <2> HIDE DEF S
  <2> QED BY <1>7, <2>1, WithdrawnLists
<1>8. ASSUME NEW c \in Claims, listSessionRecord(c) PROVE Withdrawn'
  <2>1. The("record", c) \in Statements /\ The("record", c)[1] # "revocation"
    BY StatementsAre DEF Kinds, The
  <2> QED BY <1>7, <1>8, <2>1 DEF listSessionRecord
<1>9. ASSUME NEW c \in Claims, listDeviceRevocation(c) PROVE Withdrawn'
  <2>1. Withdrawal(c, 1) \in Statements /\ Withdrawal(c, 1)[3] = 1
    BY StatementsAre DEF Kinds, Withdrawal
  <2>2. Backed(c, Withdrawal(c, 1))
    BY <1>9, <2>1 DEF listDeviceRevocation, Backed
  <2> QED BY <1>7, <1>9, <2>1, <2>2 DEF listDeviceRevocation
<1>10. ASSUME NEW c \in Claims, Gone(c) PROVE Withdrawn'
  <2>1. /\ UNCHANGED <<ups, revoked>>
        /\ listed' = [listed EXCEPT ![c] = {}] /\ deleted' = deleted \cup {c}
    BY <1>10 DEF Gone, Release
  <2>2. \A d \in Claims : listed'[d] = IF d = c THEN {} ELSE listed[d]
    BY <2>1 DEF TypeOK
  <2>3. \A d \in deleted' : listed'[d] = {}
    BY <2>1, <2>2 DEF TypeOK, Withdrawn
  <2>4. \A u \in Uploads : ups'[u].pc = "checked" /\ BodyOf[u] = "revocation" =>
          /\ 0 \in ToSet(revoked)
          /\ ClaimOf[u] \in deleted' \/ The("link", ClaimOf[u]) \in listed'[ClaimOf[u]]
    BY <2>1, <2>2, Constants DEF Withdrawn
  <2> QED BY <2>1, <2>2, <2>3, <2>4 DEF Withdrawn
<1>11. CASE Dies
  BY <1>1, <1>11, CrashDoes DEF Dies
<1> QED BY <1>2, <1>3, <1>4, <1>5, <1>6, <1>8, <1>9, <1>10, <1>11 DEF Next

-----------------------------------------------------------------------------
(***************************************************************************)
(* Receipts are stamped after the audio came.                              *)
(***************************************************************************)
\* A receipt is stamped after the audio came, in the state after the step.
StillCame(c, n) == received'[c] <= Now' /\ received'[c] <= stamp'[c][n]

\* A step that stamps no receipt and lets no audio arrive.
LEMMA StampedSame ==
    ASSUME Inv, Now' \in Nat, Now <= Now', Now' <= 2,
           UNCHANGED <<stamp, received>>,
           \A u \in Uploads :
              /\ ups'[u].pc \in {"locked", "ingesting"} => ups[u].pc \in {"locked", "ingesting"}
              /\ ups'[u].isNew => ups[u].isNew /\ ups'[u].mine = ups[u].mine,
           \A c \in Claims : \A n \in Held(c)' :
              n \in Held(c) \/ \E u \in Uploads : ClaimOf[u] = c /\ ups[u].isNew /\ ups[u].mine = n,
           \A c \in Claims : \A x \in listed'[c] \ listed[c] : x[1] = "receipt" => x[2] = c /\ x[3] # 0
    PROVE  Stamped'
<1> USE DEF Inv
<1>0. /\ \A c \in Claims : received[c] \in Nat /\ stamp[c] \in [1 .. MaxReceipts -> Nat]
      /\ Now \in Nat
      /\ \A u \in Uploads : ClaimOf[u] \in Claims
  BY NowNat, Constants DEF TypeOK
<1>1. \A c \in Claims : received'[c] = Never \/ received'[c] <= Now'
  BY <1>0 DEF Stamped, Never
<1>2. \A u \in Uploads : ups'[u].pc \in {"locked", "ingesting"} => received'[ClaimOf[u]] <= Now'
  BY <1>0 DEF Stamped
<1>3. ASSUME NEW c \in Claims, NEW n, Came(c, n) PROVE StillCame(c, n)
  BY <1>0, <1>3 DEF Came, StillCame
<1>4. \A c \in Claims : \A n \in Held(c)' : StillCame(c, n)
  BY <1>3 DEF Stamped
<1>5. \A u \in Uploads : ups'[u].isNew => StillCame(ClaimOf[u], ups'[u].mine)
  BY <1>0, <1>3 DEF Stamped
<1>6. \A c \in Claims : \A x \in listed'[c] : x[1] = "receipt" => x[2] = c /\ x[3] # 0
  BY DEF Stamped
<1> QED BY <1>1, <1>2, <1>4, <1>5, <1>6 DEF Stamped, Came, StillCame

LEMMA StampedArrives ==
    ASSUME Inv, NEW u \in Uploads, Arrives(u)
    PROVE  Stamped'
<1> USE DEF Inv
<1> DEFINE c == ClaimOf[u]
<1>0. /\ \A d \in Claims : received[d] \in Nat
      /\ Now \in Nat /\ Now <= 2
      /\ \A v \in Uploads : ClaimOf[v] \in Claims
  BY NowNat, Constants DEF TypeOK, Stamped
<1>1. /\ received' = [received EXCEPT ![c] = IF @ = Never THEN Now ELSE @]
      /\ handleUpload(u) /\ UNCHANGED <<listed, revoked, stamp>> /\ Now' = Now
  BY DEF Arrives, Now
<1>2. \A d \in Claims : /\ received'[d] <= Now \/ received'[d] = Never
                        /\ received[d] <= Now => received'[d] = received[d]
  BY <1>0, <1>1 DEF Stamped, TypeOK, Never
<1>3. received'[c] <= Now
  BY <1>0, <1>1 DEF Stamped, TypeOK, Never
<1>4. \A d \in Claims : Held(d)' = Held(d)
  BY <1>1, AddsNoReceipt, HeldSame
<1>5. ASSUME NEW d \in Claims, NEW n, Came(d, n) PROVE StillCame(d, n)
  BY <1>0, <1>1, <1>2, <1>5 DEF Came, StillCame
<1>6. Others(u) /\ ups'[u].isNew = ups[u].isNew /\ ups'[u].mine = ups[u].mine
  BY <1>1, UploadDoes
<1>7. ASSUME NEW v \in Uploads, ups'[v].pc \in {"locked", "ingesting"}
      PROVE  received'[ClaimOf[v]] <= Now'
  BY <1>0, <1>1, <1>2, <1>3, <1>6, <1>7 DEF Others, Stamped
<1>8. ASSUME NEW v \in Uploads, ups'[v].isNew
      PROVE  StillCame(ClaimOf[v], ups'[v].mine)
  <2>1. Came(ClaimOf[v], ups[v].mine) /\ ups'[v].mine = ups[v].mine
    BY <1>6, <1>8 DEF Others, Stamped
  <2> QED BY <1>0, <1>5, <2>1
<1>9. \A d \in Claims : \A n \in Held(d)' : StillCame(d, n)
  BY <1>4, <1>5 DEF Stamped
<1>10. \A d \in Claims : received'[d] = Never \/ received'[d] <= Now'
  BY <1>1, <1>2
<1>11. \A d \in Claims : \A x \in listed'[d] : x[1] = "receipt" => x[2] = d /\ x[3] # 0
  BY <1>1 DEF Stamped
<1> QED BY <1>0, <1>1, <1>7, <1>8, <1>9, <1>10, <1>11 DEF Stamped, Came, StillCame

\* The receipt that is signed now was not held before.
LEMMA StampedReceives ==
    ASSUME Inv, NEW u \in Uploads, Receives(u)
    PROVE  Stamped'
<1> USE DEF Inv
<1> DEFINE c == ClaimOf[u]
           k == Cardinality(signedFor(c))
<1>1. /\ receiptFor(u) /\ UNCHANGED <<listed, revoked, received>> /\ Now' = Now
      /\ stamp' = IF ups'[u].isNew THEN [stamp EXCEPT ![c][ups'[u].mine] = Now] ELSE stamp
  BY DEF Receives, Now
<1>2. k \in Nat /\ Held(c) = 1 .. k
  BY <1>1, NextReceipt
<1>3. /\ Others(u) /\ ups[u].pc = "locked" /\ holdsLock(u) /\ ever' = ever
      /\ ups'[u].isNew => ups'[u].mine = k + 1
      /\ ups'[u].mine \in 0 .. MaxReceipts
  BY <1>1, ReceiptDoes DEF UploadStates
<1> HIDE DEF k
<1>4. /\ c \in Claims /\ Now \in Nat
      /\ \A d \in Claims : received[d] \in Nat /\ stamp[d] \in [1 .. MaxReceipts -> Nat]
  BY NowNat, Constants DEF TypeOK
<1>5. received[c] <= Now
  BY <1>3 DEF Stamped
<1>6. \A d : Held(d)' = Held(d)
  BY <1>3 DEF Held
<1>7. \A d \in Claims, n \in 1 .. MaxReceipts :
          stamp'[d][n] = IF d = c /\ ups'[u].isNew /\ n = ups'[u].mine THEN Now ELSE stamp[d][n]
  <2>1. CASE ups'[u].isNew
    <3>1. stamp' = [stamp EXCEPT ![c] = [stamp[c] EXCEPT ![ups'[u].mine] = Now]]
      BY <1>1, <2>1
    <3> QED BY <1>4, <2>1, <3>1 DEF TypeOK
  <2>2. CASE ~ups'[u].isNew
    BY <1>1, <2>2
  <2> QED BY <2>1, <2>2
<1>8. ASSUME NEW d \in Claims, NEW n \in Held(d) PROVE StillCame(d, n)
  <2>1. n \in 1 .. MaxReceipts /\ Came(d, n)
    BY DEF Held, Stamped
  <2>2. d = c /\ ups'[u].isNew => n # ups'[u].mine
    BY <1>2, <1>3
  <2> QED BY <1>1, <1>7, <2>1, <2>2 DEF Came, StillCame
<1>9. ASSUME NEW v \in Uploads, ups'[v].isNew PROVE StillCame(ClaimOf[v], ups'[v].mine)
  <2>1. CASE v = u
    <3>1. ups'[u].mine \in 1 .. MaxReceipts
      BY <1>2, <1>3, <1>9, <2>1
    <3>2. stamp'[c][ups'[u].mine] = Now
      BY <1>4, <1>7, <1>9, <2>1, <3>1
    <3> QED BY <1>1, <1>5, <2>1, <3>2 DEF Came, StillCame
  <2>2. CASE v # u
    <3>1. ups'[v] = ups[v]
      BY <1>3, <2>2 DEF Others
    <3>2. ClaimOf[v] # c
      BY <1>3, <1>9, <2>2, <3>1, OneWorks
    <3>3. ups[v].mine \in 1 .. MaxReceipts /\ ClaimOf[v] \in Claims
      <4>1. ups[v].mine # 0
        BY <1>9, <3>1 DEF Numbered
      <4>2. ups[v].mine \in 0 .. MaxReceipts /\ ClaimOf[v] \in Claims
        BY Fields
      <4> QED BY <4>1, <4>2, Constants
    <3>4. Came(ClaimOf[v], ups[v].mine)
      BY <1>9, <3>1 DEF Stamped
    <3> QED BY <1>1, <1>7, <3>1, <3>2, <3>3, <3>4 DEF Came, StillCame
  <2> QED BY <2>1, <2>2
<1>10. \A v \in Uploads : ups'[v].pc \in {"locked", "ingesting"} => received'[ClaimOf[v]] <= Now'
  BY <1>1, <1>3, <1>5 DEF Stamped, Others
<1> QED BY <1>1, <1>6, <1>8, <1>9, <1>10 DEF Stamped, Came, StillCame

LEMMA StampedStep == Inv /\ Next => Stamped'
<1> SUFFICES ASSUME Inv, Next PROVE Stamped'
  OBVIOUS
<1> USE DEF Inv
<1>0. Now \in Nat /\ Now <= 2
  BY NowNat DEF Stamped
<1>1. ASSUME UNCHANGED <<revoked, stamp, received>>,
             \A u \in Uploads :
                /\ ups'[u].pc \in {"locked", "ingesting"} => ups[u].pc \in {"locked", "ingesting"}
                /\ ups'[u].isNew => ups[u].isNew /\ ups'[u].mine = ups[u].mine,
             \A c \in Claims : \A n \in Held(c)' :
                n \in Held(c) \/ \E u \in Uploads : ClaimOf[u] = c /\ ups[u].isNew /\ ups[u].mine = n,
             \A c \in Claims : \A x \in listed'[c] \ listed[c] : x[1] = "receipt" => x[2] = c /\ x[3] # 0
      PROVE  Stamped'
  <2>1. Now' = Now
    BY <1>1 DEF Now
  <2> QED BY <1>0, <1>1, <2>1, StampedSame
<1>2. ASSUME NEW u \in Uploads, storeStatements(u), UNCHANGED <<listed, revoked, stamp, received>>
      PROVE  Stamped'
  <2>1. /\ Others(u) /\ ups[u].pc = "ingesting"
        /\ ups'[u].isNew = ups[u].isNew /\ ups'[u].mine = ups[u].mine
    BY <1>2, StoreDoes
  <2>2. PICK S \in SUBSET Mine(u) : ever' = ever \cup S
    BY <1>2, StoreDoes
  <2>3. ASSUME NEW c \in Claims, NEW n \in Held(c)'
        PROVE  n \in Held(c) \/ \E v \in Uploads : ClaimOf[v] = c /\ ups[v].isNew /\ ups[v].mine = n
    <3>1. n \in 1 .. MaxReceipts /\ (n \in Held(c) \/ <<"receipt", c, n>> \in S)
      BY <2>2 DEF Held
    <3>2. CASE <<"receipt", c, n>> \in S
      <4>1. c = ClaimOf[u] /\ n = ups[u].mine
        BY <2>2, <3>2, MineKinds
      <4>2. ups[u].isNew \/ n = index[c]
        BY <2>1, <3>1, <4>1 DEF OneKept
      <4>3. n = index[c] => n \in Held(c)
        BY <3>1 DEF Numbered
      <4> QED BY <4>1, <4>2, <4>3
    <3> QED BY <3>1, <3>2
  <2>4. \A v \in Uploads :
          /\ ups'[v].pc \in {"locked", "ingesting"} => ups[v].pc \in {"locked", "ingesting"}
          /\ ups'[v].isNew => ups[v].isNew /\ ups'[v].mine = ups[v].mine
    BY <2>1 DEF Others
  <2> QED BY <1>1, <1>2, <2>3, <2>4
<1>3. ASSUME NEW u \in Uploads, Stores(u) PROVE Stamped'
  <2>1. CASE storeStatements(u)
    BY <1>2, <1>3, <2>1 DEF Stores
  <2>2. CASE indexReceipt(u)
    <3>1. Others(u) /\ ups'[u].pc = "verified" /\ ups'[u].isNew = FALSE /\ ever' = ever
      BY <2>2, IndexDoes
    <3>2. \A c : Held(c)' = Held(c)
      BY <3>1 DEF Held
    <3> QED BY <1>1, <1>3, <3>1, <3>2 DEF Stores, Others
  <2> QED BY <1>3, <2>1, <2>2 DEF Stores
<1>4. ASSUME NEW u \in Uploads, Answered(u) PROVE Stamped'
  <2>1. Others(u) /\ ups'[u].pc = "done" /\ ups'[u].isNew = FALSE /\ ever' = ever
        /\ UNCHANGED <<revoked, stamp, received>>
    BY <1>4, AnsweredDoes DEF Answered
  <2>2. \A c : Held(c)' = Held(c)
    BY <2>1 DEF Held
  <2>3. \A c \in Claims : \A x \in listed'[c] \ listed[c] : x[1] = "receipt" => x[2] = c /\ x[3] # 0
    <3>1. CASE UNCHANGED listed
      BY <3>1
    <3>2. CASE Lists(ClaimOf[u], ups[u].got)
      <4>1. ups[u].got \in SUBSET Statements /\ ClaimOf[u] \in Claims
        BY Fields
      <4>2. \A x \in ups[u].got : x[1] = "receipt" => x[2] = ClaimOf[u] /\ x[3] # 0
        BY MineKinds DEF OwnWork
      <4>3. \A c \in Claims : \A x \in listed'[c] \ listed[c] : c = ClaimOf[u] /\ x \in ups[u].got
        BY <3>2, <4>1, ListsTypes
      <4> QED BY <4>2, <4>3
    <3> QED BY <1>4, <3>1, <3>2 DEF Answered
  <2> QED BY <1>1, <2>1, <2>2, <2>3 DEF Others
<1>5. ASSUME NEW u \in Uploads, revokeDevice(u) \/ copyRevocation(u) PROVE Stamped'
  <2> DEFINE c == ClaimOf[u]
             S == {The("revocation", c)} \cap {The(BodyOf[u], c)} \cap held'
  <2>1. checkUploadedStatement(u) \/ handleStatementUpload(u)
    BY <1>5 DEF revokeDevice, copyRevocation
  <2>2. /\ Others(u) /\ ups'[u].pc \in {"checked", "done"}
        /\ ups'[u].isNew = ups[u].isNew /\ ups'[u].mine = ups[u].mine
        /\ UNCHANGED <<revoked, stamp, received>>
    BY <1>5, <2>1, CheckDoes DEF revokeDevice, copyRevocation
  <2>3. \A d \in Claims : Held(d)' = Held(d)
    BY <2>1, AddsNoReceipt, HeldSame
  <2>4. \A d \in Claims : \A x \in listed'[d] \ listed[d] : x[1] = "receipt" => x[2] = d /\ x[3] # 0
    <3>1. CASE revokeDevice(u)
      BY <3>1 DEF revokeDevice
    <3>2. CASE copyRevocation(u)
      <4>1. c \in Claims /\ S \in SUBSET Statements /\ Lists(c, S)
        BY <3>2, MineTypes, Constants DEF copyRevocation
      <4>2. \A x \in S : x[1] # "receipt"
        BY DEF The
      <4> HIDE DEF S
      <4>3. \A d \in Claims : \A x \in listed'[d] \ listed[d] : x \in S
        BY <4>1, ListsTypes
      <4> QED BY <4>2, <4>3
    <3> QED BY <1>5, <3>1, <3>2
  <2> QED BY <1>1, <2>2, <2>3, <2>4 DEF Others
<1>6. ASSUME NEW who \in {0, 1}, signs(who) PROVE Stamped'
  <2>1. /\ who \notin ToSet(revoked) /\ revoked' = Append(revoked, who)
        /\ UNCHANGED <<listed, ups, ever, stamp, received>>
    BY <1>6 DEF signs, ingestVars
  <2>2. Now' = Now + 1
    BY <2>1, NowNat, AppendProperties DEF Now
  <2>3. Now # 2
    <3>1. ASSUME Now = 2 PROVE FALSE
      <4>1. revoked[1] \in {0, 1} /\ revoked[2] \in {0, 1} /\ revoked[1] # revoked[2]
        BY <3>1, NowNat DEF Now, Withdrawn
      <4>2. revoked[1] # who /\ revoked[2] # who
        BY <2>1, <3>1, NowNat, Members DEF Now
      <4> QED BY <4>1, <4>2
    <3> QED BY <3>1
  <2>4. \A c : Held(c)' = Held(c)
    BY <2>1 DEF Held
  <2> QED BY <1>0, <2>1, <2>2, <2>3, <2>4, StampedSame
<1>7. ASSUME NEW c \in Claims, NEW x \in Statements, Hold({x}), Lists(c, {x}),
             x[1] # "receipt", UNCHANGED <<ups, revoked, stamp, received>>
      PROVE  Stamped'
  <2>1. \A d : Held(d)' = Held(d)
    BY <1>7 DEF Hold, Held
  <2>2. \A d \in Claims : \A y \in listed'[d] \ listed[d] : y = x
    <3> DEFINE S == {x}
    <3>1. S \in SUBSET Statements /\ Lists(c, S) /\ \A y \in S : y = x
      BY <1>7
    <3> HIDE DEF S
    <3> QED BY <3>1, ListsTypes
  <2> QED BY <1>1, <1>7, <2>1, <2>2
<1>8. ASSUME NEW c \in Claims, listSessionRecord(c) PROVE Stamped'
  <2>1. The("record", c) \in Statements /\ The("record", c)[1] # "receipt"
    BY StatementsAre DEF Kinds, The
  <2> QED BY <1>7, <1>8, <2>1 DEF listSessionRecord
<1>9. ASSUME NEW c \in Claims, listDeviceRevocation(c) PROVE Stamped'
  <2>1. Withdrawal(c, 1) \in Statements /\ Withdrawal(c, 1)[1] # "receipt"
    BY StatementsAre DEF Kinds, Withdrawal
  <2> QED BY <1>7, <1>9, <2>1 DEF listDeviceRevocation
<1>10. ASSUME NEW c \in Claims, Gone(c) PROVE Stamped'
  <2>1. UNCHANGED <<ups, ever, revoked, stamp, received>> /\ listed' = [listed EXCEPT ![c] = {}]
    BY <1>10 DEF Gone, Release
  <2>2. \A d \in Claims : listed'[d] \subseteq listed[d]
    BY <2>1 DEF TypeOK
  <2>3. \A d : Held(d)' = Held(d)
    BY <2>1 DEF Held
  <2> QED BY <1>1, <2>1, <2>2, <2>3
<1>11. CASE Dies
  <2>1. \A u \in Uploads : ups'[u].pc \in {"idle", "done"} /\ ups'[u].isNew = FALSE
    BY <1>11, CrashDoes DEF Dies
  <2>2. UNCHANGED <<ever, listed, revoked, stamp, received>>
    BY <1>11, CrashDoes DEF Dies
  <2>3. \A d : Held(d)' = Held(d)
    BY <2>2 DEF Held
  <2> QED BY <1>1, <2>1, <2>2, <2>3
<1> QED BY <1>3, <1>4, <1>5, <1>6, <1>8, <1>9, <1>10, <1>11, StampedArrives, StampedReceives DEF Next

-----------------------------------------------------------------------------
(***************************************************************************)
(* The invariant.                                                          *)
(***************************************************************************)
LEMMA Stutter == Inv /\ UNCHANGED vars => Inv'
<1> SUFFICES ASSUME Inv, UNCHANGED vars PROVE Inv'
  OBVIOUS
<1>0. UNCHANGED <<ups, queue, held, index, told, mishaps, ever, lostIndex,
                  listed, revoked, stamp, received, deleted>>
  BY DEF vars, ingestVars
<1>1. TypeOK'
  BY <1>0 DEF Inv, TypeOK
<1>2. Locks'
  BY <1>0 DEF Inv, Locks, holdsLock
<1>3. OwnWork'
  BY <1>0 DEF Inv, OwnWork, Mine
<1>4. Numbered'
  BY <1>0 DEF Inv, Numbered, Held
<1>5. OneKept'
  BY <1>0 DEF Inv, OneKept
<1>6. Withdrawn'
  BY <1>0 DEF Inv, Withdrawn
<1>7. Stamped'
  BY <1>0 DEF Inv, Stamped, Held, Came, Now
<1> QED BY <1>1, <1>2, <1>3, <1>4, <1>5, <1>6, <1>7 DEF Inv

LEMMA InvStep == Inv /\ [Next]_vars => Inv'
<1>1. Inv /\ Next => Inv'
  BY TypeStep, LocksStep, OwnStep, NumberedStep, KeptStep, WithdrawnStep, StampedStep DEF Inv
<1> QED BY <1>1, Stutter

LEMMA Invariant == Spec => []Inv
<1>1. Init => Inv
  BY InitInv
<1>2. Inv /\ [Next]_vars => Inv'
  BY InvStep
<1> QED BY <1>1, <1>2, PTL DEF Spec

-----------------------------------------------------------------------------
(***************************************************************************)
(* The theorems.                                                           *)
(***************************************************************************)
\* Every variable keeps to the values it may have, and the uploads that are in a
\* claim's lock are those that wait or work on it (withClaimLock, claimIngest.ts).
THEOREM TypeCorrect == Spec => [](TypeOK /\ IngestTypeOK)
<1>1. Inv => TypeOK /\ IngestTypeOK
  <2> SUFFICES ASSUME Inv PROVE IngestTypeOK
    BY DEF Inv
  <2> QED BY DEF Inv, TypeOK, Locks, IngestTypeOK, UploadStates, Stages
<1> QED BY <1>1, Invariant, PTL

\* A claim gets one receipt per host (claimIngest.ts), whatever the uploads of the
\* claim do at once and whatever is deleted, fails or dies between them.
THEOREM OneReceiptEach == Spec => []OneReceipt
<1>1. Inv => OneReceipt
  <2> SUFFICES ASSUME Inv, NEW c \in Claims
               PROVE  Cardinality({x \in held \ lostIndex : x[1] = "receipt" /\ x[2] = c /\ x[3] # 0}) <= 1
    BY DEF OneReceipt
  <2> DEFINE R == {x \in held \ lostIndex : x[1] = "receipt" /\ x[2] = c /\ x[3] # 0}
  <2>1. ASSUME NEW x \in R
        PROVE  /\ x[3] \in 1 .. MaxReceipts /\ x = <<"receipt", c, x[3]>>
               /\ x \in held \ lostIndex
    <3>1. x \in Statements
      BY DEF Inv, TypeOK
    <3> QED BY <3>1, Constants DEF Statements
  <2>2. ASSUME NEW x \in R, NEW y \in R PROVE x = y
    <3>1. ASSUME NEW n \in 1 .. MaxReceipts, <<"receipt", c, n>> \in held \ lostIndex
          PROVE  index[c] = n \/ \E u \in Uploads : ClaimOf[u] = c /\ ups[u].isNew /\ ups[u].mine = n
      BY <3>1 DEF Inv, OneKept
    <3>2. ASSUME NEW u \in Uploads, ClaimOf[u] = c, ups[u].isNew
          PROVE  /\ index[c] # 0 => <<"receipt", c, index[c]>> \notin held
                 /\ \A v \in Uploads : ClaimOf[v] = c /\ ups[v].isNew => v = u
      <4>1. holdsLock(u)
        BY <3>2 DEF Inv, Locks
      <4> QED BY <3>2, <4>1, OneWorks DEF Inv, OneKept
    <3>3. \/ index[c] = x[3] /\ index[c] = y[3]
          \/ \E u \in Uploads : ClaimOf[u] = c /\ ups[u].isNew /\ ups[u].mine = x[3] /\ ups[u].mine = y[3]
      <4>1. index[c] = x[3] \/ \E u \in Uploads : ClaimOf[u] = c /\ ups[u].isNew /\ ups[u].mine = x[3]
        BY <2>1, <3>1
      <4>2. index[c] = y[3] \/ \E u \in Uploads : ClaimOf[u] = c /\ ups[u].isNew /\ ups[u].mine = y[3]
        BY <2>1, <3>1
      <4>3. ASSUME NEW u \in Uploads, ClaimOf[u] = c, ups[u].isNew
            PROVE  index[c] # x[3] /\ index[c] # y[3]
        BY <2>1, <3>2, <4>3
      <4> QED BY <3>2, <4>1, <4>2, <4>3
    <3>4. x[3] = y[3]
      BY <3>3
    <3> QED BY <2>1, <3>4
  <2>3. R = {} \/ \E x : R = {x}
    BY <2>2
  <2> HIDE DEF R
  <2>4. Cardinality(R) = 0 \/ Cardinality(R) = 1
    BY <2>3, FS_EmptySet, FS_Singleton, Zenon
  <2>5. Cardinality(R) <= 1
    BY <2>4
  <2> QED BY <2>5 DEF R
<1> QED BY <1>1, Invariant, PTL

\* A reader that has the claim, and what it names where that is listed, never sees
\* a failure in a recording that nobody tampered with (recordingProvenance.ts).
THEOREM HonestLooksHonest == Spec => []HonestPasses
<1>1. Inv => HonestPasses
  <2> SUFFICES ASSUME Inv, NEW c \in Claims, NEW F \in fetched(c), The("claim", c) \in F,
                      The("link", c) \in listed[c] => The("link", c) \in F
               PROVE  verifyRecordingStatements(c, F).state # "failed"
    BY DEF HonestPasses
  <2>1. claimNotListed(c, F) = {} /\ sessionProblem(c, F) = {}
    BY DEF claimNotListed, sessionProblem
  <2>2. ASSUME NEW x \in Of(F, "revocation") PROVE The("link", c) \in F /\ revocationCovers(x)
    <3>1. x \in listed[c] /\ x[1] = "revocation"
      BY DEF Of, checkStatement, fetched
    <3>2. x[3] \in ToSet(revoked) /\ The("link", c) \in listed[c]
      BY <3>1 DEF Inv, Withdrawn
    <3>3. x[3] = 0 \/ x[3] = 1
      BY <3>2, NowNat, Members
    <3> QED BY <3>2, <3>3 DEF Inv, Withdrawn, revocationCovers
  <2>3. revocationProblem(c, F) = {}
    BY <2>2 DEF revocationProblem
  <2>4. failures(c, F) = {}
    BY <2>1, <2>3 DEF failures
  <2> QED BY <2>4 DEF verifyRecordingStatements
<1> QED BY <1>1, Invariant, PTL

\* The least of a set of numbers that is not empty is one of them.
LEMMA LeastIs ==
    ASSUME NEW S \in SUBSET Nat, S # {}
    PROVE  Least(S) \in S /\ \A m \in S : Least(S) <= m
<1>1. PICK n \in S : \A m \in S : ~(<<m, n>> \in OpToRel(<, Nat))
  BY NatLessThanWellFounded, WFMin
<1>2. \A m \in S : ~(m < n)
  BY <1>1 DEF OpToRel
<1>3. n \in Nat /\ \A m \in S : m \in Nat
  OBVIOUS
<1>4. \A m \in S : n <= m
  BY <1>2, <1>3
<1> QED BY <1>4 DEF Least

\* A take is said to stand only if a host had it before the device was withdrawn
\* (ProvenanceSummary.tsx), whichever statements the reader could fetch.
THEOREM StandsWasReceived == Spec => []KeptWasReceived
<1>1. Inv => KeptWasReceived
  <2> SUFFICES ASSUME Inv, NEW c \in Claims, NEW F \in fetched(c), ProvenanceText(c, F) = "stands",
                      NEW i \in 1 .. Len(revoked), Withdrawal(c, revoked[i]) \in F
               PROVE  received[c] < i
    BY DEF KeptWasReceived
  <2> DEFINE times == {stamp[c][x[3]] : x \in Of(F, "receipt")}
             ends == {revokedAt(x[3]) : x \in Of(F, "revocation")}
  <2>1. Of(F, "receipt") # {} /\ receivedAt(c, F) < firstRevocation(F)
    <3> DEFINE v == verifyRecordingStatements(c, F)
    <3>1. v.receivedBeforeRevocation
      <4>1. ProvenanceText(c, F) = IF v.state \in {"verified", "device-only"} THEN Revocation(v) ELSE v.state
        BY DEF ProvenanceText
      <4>2. v.state \in {"failed", "unavailable", "verified", "device-only", "unverified"}
        BY DEF verifyRecordingStatements
      <4> HIDE DEF v
      <4> QED BY <4>1, <4>2 DEF Revocation
    <3>2. v.receivedBeforeRevocation = (Of(F, "revocation") # {} /\ revokedDeviceLink(c, F))
      BY DEF verifyRecordingStatements
    <3> HIDE DEF v
    <3> QED BY <3>1, <3>2 DEF revokedDeviceLink
  <2>2. /\ received[c] \in Nat /\ stamp[c] \in [1 .. MaxReceipts -> Nat] /\ listed[c] \subseteq Statements
        /\ revoked \in Seq({0, 1})
    BY DEF Inv, TypeOK
  <2>3. ASSUME NEW x \in Of(F, "receipt")
        PROVE  stamp[c][x[3]] \in Nat /\ received[c] <= stamp[c][x[3]]
    <3>1. x \in listed[c] /\ x \in ever /\ x[1] = "receipt"
      BY DEF Of, checkStatement, fetched
    <3>2. x[2] = c /\ x[3] # 0
      BY <3>1 DEF Inv, Stamped
    <3>3. x[3] \in 1 .. MaxReceipts /\ x = <<"receipt", c, x[3]>>
      BY <2>2, <3>1, <3>2, Constants DEF Statements
    <3>4. x[3] \in Held(c)
      BY <3>1, <3>3 DEF Held
    <3> QED BY <2>2, <3>3, <3>4 DEF Inv, Stamped, Came
  <2>4. ASSUME NEW x \in Of(F, "revocation")
        PROVE  revokedAt(x[3]) \in 1 .. Len(revoked) /\ revoked[revokedAt(x[3])] = x[3]
    <3>1. x[3] \in ToSet(revoked)
      BY DEF Of, checkStatement, fetched, Inv, Withdrawn
    <3>2. \E j \in 1 .. Len(revoked) : revoked[j] = x[3]
      BY <2>2, <3>1, Members
    <3> QED BY <3>2 DEF revokedAt
  <2>5. receivedAt(c, F) \in times /\ received[c] <= receivedAt(c, F) /\ receivedAt(c, F) \in Nat
    <3>1. times # {} /\ times \subseteq Nat
      BY <2>1, <2>3
    <3>2. Least(times) \in times
      <4> HIDE DEF times
      <4> QED BY <3>1, LeastIs
    <3>3. receivedAt(c, F) = Least(times)
      BY DEF receivedAt
    <3> QED BY <2>3, <3>2, <3>3
  <2>6. firstRevocation(F) <= i /\ firstRevocation(F) \in Nat
    <3>1. i \in ends
      <4>1. Withdrawal(c, revoked[i]) \in Of(F, "revocation") /\ Withdrawal(c, revoked[i])[3] = revoked[i]
        BY DEF Of, checkStatement, Withdrawal
      <4>2. revokedAt(revoked[i]) \in 1 .. Len(revoked) /\ revoked[revokedAt(revoked[i])] = revoked[i]
        BY <2>4, <4>1
      <4>3. revokedAt(revoked[i]) = i
        BY <4>2 DEF Inv, Withdrawn
      <4> QED BY <4>1, <4>3
    <3>2. ends \subseteq Nat
      BY <2>2, <2>4
    <3>3. Least(ends) \in Nat /\ Least(ends) <= i
      <4> HIDE DEF ends
      <4> QED BY <3>1, <3>2, LeastIs
    <3>4. firstRevocation(F) = Least(ends)
      BY DEF firstRevocation
    <3> QED BY <3>3, <3>4
  <2> QED BY <2>1, <2>2, <2>5, <2>6
<1> QED BY <1>1, Invariant, PTL


-----------------------------------------------------------------------------
(***************************************************************************)
(* PersonKey: what a page shows of a key is what is stored, what is marked *)
(* is so, and a stored key stays, for any number of tabs, keys, lost       *)
(* answers, reloads and changes of origin.                                 *)
(***************************************************************************)
PersonSet == [key : Nat, marks : SUBSET Marks]
ShownSet == [is : {"unknown", "none", "vouch", "person"}, who : PersonSet]
Ops == {"none", "status", "create", "rejoin", "restore", "join", "backup", "record", "mark"}
Steps == {"none", "person", "vouch", "roster", "read", "add", "winner", "put", "clear",
          "load", "asked", "accept", "post", "save", "check", "ceremony"}
TaskSet == [op : Ops, at : Steps, key : Nat, held : PersonSet, by : Marks \cup {"none"},
            said : BOOLEAN]
PageSet == [open : BOOLEAN, shown : ShownSet, roster : SUBSET Nat, task : TaskSet]

KeyTypes ==
  /\ db \in [person : PersonSet, vouch : Nat]
  /\ pages \in [Tabs -> PageSet]
  /\ host \in [people : SUBSET Nat, records : SUBSET [key : Nat, unlock : {"passkey"}]]
  /\ locked \subseteq [key : Nat, unlock : {"passphrase"}]
  /\ saved \subseteq locked
  /\ made \in Nat

\* What a mark on key k says is so.
SaysTrue(mark, k) ==
  /\ mark = "joined" => k \in host.people
  /\ mark = "recorded" => wrapPersonKeyWithPasskey(k) \in host.records
  /\ mark = "backedUp" => wrapPersonKey(k) \in locked

\* A page shows the stored key with true marks, and people the host has.
ShownFits(shown, roster) ==
  /\ shown.is = "person" =>
       shown.who.key = db.person.key /\ Exists(db.person) /\ TrueOf(shown.who)
  /\ roster \subseteq host.people
\* What the steps of a request rest on, operation by operation: what it read, or was
\* answered, before its last await still holds.
CreateFits(k) ==
  k.op = "create" => (k.at = "add" => k.key # 0) /\ (k.at = "winner" => Exists(db.person))
RejoinFits(k) == k.op = "rejoin" => k.key \in host.people
RestoreFits(k) ==
  k.op = "restore" =>
    /\ k.key # 0 /\ k.by \in Marks /\ SaysTrue(k.by, k.key)
    /\ k.at = "read" => TrueOf(Person(k.key, k.held.marks))
    /\ k.at \in {"put", "add", "clear"} => k.held.key = k.key /\ TrueOf(k.held)
    /\ k.at \in {"put", "clear"} => k.key = db.person.key
StoredFits(k, shown) ==
  k.op \in {"join", "backup", "record", "mark"} =>
    /\ shown = "person" /\ k.by \in Marks
    /\ k.at \notin {"ceremony", "load"} => k.key = db.person.key
    /\ k.op = "join" => k.by = "joined"
    /\ k.op = "record" => k.by = "recorded"
    /\ k.op = "backup" => k.by = "backedUp"
    /\ k.op \in {"backup", "mark"} => SaysTrue(k.by, db.person.key)
    /\ k.op = "mark" /\ k.at = "put" => k.held.key = db.person.key /\ TrueOf(k.held)
PageFits(p) ==
  /\ ShownFits(p.shown, p.roster)
  /\ CreateFits(p.task) /\ RejoinFits(p.task) /\ RestoreFits(p.task)
  /\ StoredFits(p.task, p.shown.is)

\* What is stored is so.
StoreFits == TrueOf(db.person) /\ (db.vouch # 0 => db.vouch \in host.people)
KeyInv == KeyTypes /\ StoreFits /\ \A t \in Tabs : PageFits(pages[t])

\* What no step but the loss of the storage undoes.
Grows ==
  /\ host.people \subseteq host'.people /\ host.records \subseteq host'.records
  /\ locked \subseteq locked'
  /\ db.person.key = 0 \/ db'.person.key = db.person.key

LEMMA TrueStays ==
  ASSUME Grows, NEW who, TrueOf(who)
  PROVE  TrueOf(who)'
BY DEF Grows, TrueOf

LEMMA PageStays ==
  ASSUME Grows, NEW p, PageFits(p)
  PROVE  PageFits(p)'
<1>1. Exists(db.person) => Exists(db'.person) /\ db'.person.key = db.person.key
  BY DEF Grows, Exists
<1>2. \A m, k : SaysTrue(m, k) => SaysTrue(m, k)'
  BY DEF Grows, SaysTrue
<1>3. \A who : TrueOf(who) => TrueOf(who)'
  BY TrueStays
<1>4. ShownFits(p.shown, p.roster)'
  BY <1>1, <1>3 DEF PageFits, ShownFits, Grows, Exists
<1>5. CreateFits(p.task)' /\ RejoinFits(p.task)'
  BY <1>1 DEF PageFits, CreateFits, RejoinFits, Grows
<1>6. RestoreFits(p.task)'
  BY <1>1, <1>2, <1>3 DEF PageFits, RestoreFits, Exists
<1>7. StoredFits(p.task, p.shown.is)'
  <2>1. p.task.op \in {"join", "backup", "record", "mark"} => Exists(db.person)
    BY DEF PageFits, StoredFits, ShownFits
  <2> QED
    BY <1>1, <1>2, <1>3, <2>1 DEF PageFits, StoredFits
<1> QED
  BY <1>4, <1>5, <1>6, <1>7 DEF PageFits

\* One page moves on.
LEMMA PageMoves ==
  ASSUME KeyInv, Grows, NEW t \in Tabs, pages' = [pages EXCEPT ![t] = pages'[t]],
         PageFits(pages[t])', KeyTypes', StoreFits'
  PROVE  KeyInv'
<1>1. \A u \in Tabs \ {t} : PageFits(pages[u])'
  <2> SUFFICES ASSUME NEW u \in Tabs \ {t} PROVE PageFits(pages[u])'
    OBVIOUS
  <2>1. pages'[u] = pages[u]
    BY DEF KeyInv, KeyTypes
  <2>2. \A p : PageFits(p) => PageFits(p)'
    BY PageStays
  <2> QED
    BY <2>1, <2>2 DEF KeyInv
<1> QED
  BY <1>1 DEF KeyInv

\* Nothing but the page itself moves.
Kept == UNCHANGED <<db, host, locked, saved, made>>

LEMMA KeptGrows ==
  ASSUME KeyInv, Kept, NEW t \in Tabs, pages' = [pages EXCEPT ![t] = pages'[t]],
         pages'[t] \in PageSet, PageFits(pages[t])'
  PROVE  KeyInv'
<1>1. Grows /\ StoreFits'
  BY DEF Kept, Grows, KeyInv, StoreFits, TrueOf
<1>2. KeyTypes'
  BY DEF Kept, KeyInv, KeyTypes
<1> QED
  BY <1>1, <1>2, PageMoves

LEMMA RestingTask == Resting \in TaskSet /\ Resting.op = "none" /\ Nobody \in PersonSet
BY DEF Resting, TaskSet, Ops, Steps, Nobody, PersonSet

\* A page whose task is over, or that only looks.
LEMMA RestingFits ==
  ASSUME NEW t \in Tabs, pages[t].task.op \in {"none", "status"},
         ShownFits(pages[t].shown, pages[t].roster)
  PROVE  PageFits(pages[t])
BY DEF PageFits, CreateFits, RejoinFits, RestoreFits, StoredFits

LEMMA ShownStays ==
  ASSUME KeyInv, Grows, NEW t \in Tabs, pages'[t].shown = pages[t].shown,
         pages'[t].roster \in {{}, pages[t].roster}
  PROVE  ShownFits(pages[t].shown, pages[t].roster)'
<1>1. ShownFits(pages[t].shown, pages[t].roster)
  BY DEF KeyInv, PageFits
<1>2. TrueOf(pages[t].shown.who) => TrueOf(pages[t].shown.who)'
  <2>1. \A who : TrueOf(who) => TrueOf(who)'
    BY TrueStays
  <2> QED
    BY <2>1
<1> QED
  BY <1>1, <1>2 DEF ShownFits, Grows, Exists

LEMMA Quits ==
  ASSUME KeyInv, Grows, NEW t \in Tabs, Quit(t)
  PROVE  /\ pages' = [pages EXCEPT ![t] = pages'[t]] /\ pages'[t] \in PageSet
         /\ PageFits(pages[t])'
<1>1. /\ pages' = [pages EXCEPT ![t] = pages'[t]] /\ pages'[t] \in PageSet
      /\ pages'[t].shown = pages[t].shown /\ pages'[t].roster = pages[t].roster
      /\ pages'[t].task = Resting
  BY RestingTask DEF Quit, KeyInv, KeyTypes, PageSet
<1>2. ShownFits(pages[t].shown, pages[t].roster)'
  BY <1>1, ShownStays
<1>3. PageFits(pages[t])'
  BY <1>1, <1>2, RestingTask DEF PageFits, CreateFits, RejoinFits, RestoreFits, StoredFits
<1> QED
  BY <1>1, <1>3

\* How the page of the step looks after it.
Turned(t) == pages' = [pages EXCEPT ![t] = pages'[t]] /\ pages'[t] \in PageSet
SameView(t) == pages'[t].shown = pages[t].shown /\ pages'[t].roster = pages[t].roster

LEMMA Goes ==
  ASSUME KeyTypes, NEW t \in Tabs, NEW at \in Steps, Go(t, at)
  PROVE  /\ Turned(t) /\ SameView(t)
         /\ pages'[t].task = [task(t) EXCEPT !.at = at] /\ task(t) \in TaskSet
BY DEF KeyTypes, Go, Turned, SameView, PageSet, task, TaskSet

LEMMA Shown ==
  ASSUME KeyTypes, NEW t \in Tabs, NEW is \in {"unknown", "none", "vouch", "person"},
         NEW who \in PersonSet, Show(t, is, who)
  PROVE  /\ Turned(t) /\ pages'[t].task = Resting
         /\ pages'[t].shown = Shows(is, who) /\ pages'[t].roster = {}
BY RestingTask DEF KeyTypes, Show, Turned, PageSet, ShownSet, Shows

\* The steps that only read the database.
LEMMA ReadStep ==
  ASSUME KeyInv, NEW t \in Tabs,
         loadPersonIdentity(t) \/ loadDeviceVouch(t) \/ fetchRoster(t) \/ readWinner(t)
  PROVE  KeyInv'
<1> USE DEF KeyInv
<1>1. UNCHANGED <<db, host, locked, saved, made>> /\ Kept /\ Grows
  BY DEF loadPersonIdentity, loadDeviceVouch, fetchRoster, readWinner, Kept, Grows
<1>2. db.person \in PersonSet /\ db.vouch \in Nat /\ host.people \subseteq Nat
      /\ TrueOf(db.person) /\ TrueOf(db.person)'
  BY <1>1 DEF KeyTypes, StoreFits, TrueOf
<1>3. \A at \in {"vouch", "roster"} : At(t, "status", "person") \/ At(t, "status", "vouch")
        => (Go(t, at) => KeyInv')
  <2> SUFFICES ASSUME NEW at \in {"vouch", "roster"}, Go(t, at), task(t).op = "status"
               PROVE  KeyInv'
    BY DEF At
  <2>1. Turned(t) /\ SameView(t) /\ pages'[t].task.op = "status"
    BY Goes DEF Steps, TaskSet
  <2>2. PageFits(pages[t])'
    BY <1>1, <2>1, ShownStays
       DEF SameView, PageFits, CreateFits, RejoinFits, RestoreFits, StoredFits
  <2> QED
    BY <1>1, <2>1, <2>2, KeptGrows DEF Turned
<1>4. ASSUME NEW is \in {"none", "person"}, NEW who \in PersonSet, Show(t, is, who),
             is = "person" => who = db.person /\ Exists(db.person)
      PROVE  KeyInv'
  <2>1. Turned(t) /\ pages'[t].task = Resting /\ pages'[t].roster = {}
        /\ pages'[t].shown = [is |-> is, who |-> who]
    BY <1>4, Shown DEF Shows
  <2>2. ShownFits(pages[t].shown, pages[t].roster)'
    BY <1>1, <1>2, <1>4, <2>1 DEF ShownFits, Exists
  <2>3. PageFits(pages[t])'
    BY <2>1, <2>2, RestingTask
       DEF PageFits, CreateFits, RejoinFits, RestoreFits, StoredFits
  <2> QED
    BY <1>1, <2>1, <2>3, KeptGrows DEF Turned
<1>5. CASE loadPersonIdentity(t)
  BY <1>2, <1>3, <1>4, <1>5 DEF loadPersonIdentity
<1>6. CASE loadDeviceVouch(t)
  <2>1. CASE pages' = [pages EXCEPT ![t].shown = vouchStatus(db.vouch), ![t].task = Resting]
    <3>1. vouchStatus(db.vouch) \in ShownSet /\ vouchStatus(db.vouch).is = "vouch"
      BY <1>2 DEF vouchStatus, Shows, Person, ShownSet, PersonSet, Marks
    <3>2. Turned(t) /\ pages'[t].task = Resting /\ pages'[t].roster = pages[t].roster
          /\ pages'[t].shown = vouchStatus(db.vouch)
      BY <2>1, <3>1, RestingTask DEF KeyTypes, Turned, PageSet
    <3>3. PageFits(pages[t])'
      BY <1>1, <3>1, <3>2, RestingTask
         DEF PageFits, ShownFits, CreateFits, RejoinFits, RestoreFits, StoredFits
    <3> QED
      BY <1>1, <3>2, <3>3, KeptGrows DEF Turned
  <2> QED
    BY <1>3, <1>4, <1>6, <2>1, RestingTask DEF loadDeviceVouch
<1>7. CASE fetchRoster(t)
  <2>1. CASE pages' = [pages EXCEPT ![t].shown = Shows("none", Nobody),
                                    ![t].roster = host.people, ![t].task = Resting]
    <3>1. Shows("none", Nobody) \in ShownSet /\ Shows("none", Nobody).is = "none"
      BY RestingTask DEF Shows, ShownSet
    <3>2. Turned(t) /\ pages'[t].task = Resting /\ pages'[t].roster = host.people
          /\ pages'[t].shown = Shows("none", Nobody)
      BY <1>2, <2>1, <3>1, RestingTask DEF KeyTypes, Turned, PageSet
    <3>3. PageFits(pages[t])'
      BY <1>1, <3>1, <3>2, RestingTask
         DEF PageFits, ShownFits, CreateFits, RejoinFits, RestoreFits, StoredFits
    <3> QED
      BY <1>1, <3>2, <3>3, KeptGrows DEF Turned
  <2>2. CASE Begin(t, "create", "read", 0, "none")
    <3>0. "create" \in Ops /\ "read" \in Steps /\ 0 \in Nat /\ "none" \in Marks \cup {"none"}
      BY DEF Ops, Steps
    <3>4. /\ Turned(t) /\ SameView(t)
          /\ pages'[t].task = [Resting EXCEPT !.op = "create", !.at = "read", !.key = 0,
                                              !.by = "none"]
      BY <2>2, <3>0, RestingTask DEF KeyTypes, Begin, Turned, SameView, PageSet, TaskSet
    <3>1. Turned(t) /\ SameView(t) /\ pages'[t].task.op = "create" /\ pages'[t].task.at = "read"
      BY <3>4 DEF Resting
    <3>2. PageFits(pages[t])'
      BY <1>1, <3>1, ShownStays
         DEF SameView, PageFits, CreateFits, RejoinFits, RestoreFits, StoredFits
    <3> QED
      BY <1>1, <3>1, <3>2, KeptGrows DEF Turned
  <2> QED
    BY <1>7, <2>1, <2>2 DEF fetchRoster
<1>8. CASE readWinner(t)
  <2>1. Exists(db.person)
    BY <1>8 DEF readWinner, At, task, PageFits, CreateFits
  <2> QED
    BY <1>2, <1>4, <1>8, <2>1 DEF readWinner
<1> QED
  BY <1>5, <1>6, <1>7, <1>8

\* A page that quits at a step that stores nothing.
LEMMA QuitStep ==
  ASSUME KeyInv, Kept, NEW t \in Tabs, Quit(t)
  PROVE  KeyInv'
<1>1. Grows
  BY DEF Kept, Grows
<1> QED
  BY <1>1, Quits, KeptGrows

\* A key is made, and stored unless another tab was first.
LEMMA CreateStep ==
  ASSUME KeyInv, NEW t \in Tabs, createPersonIdentity(t) \/ addCreated(t)
  PROVE  KeyInv'
<1> USE DEF KeyInv
<1>1. UNCHANGED <<host, locked, saved>>
  BY DEF createPersonIdentity, addCreated
<1>2. pages[t] \in PageSet /\ task(t) \in TaskSet /\ db.person \in PersonSet /\ made \in Nat
  BY DEF KeyTypes, task, PageSet
<1>3. CASE createPersonIdentity(t)
  <2>1. db' = db /\ Grows /\ StoreFits'
    BY <1>1, <1>3 DEF createPersonIdentity, Grows, StoreFits, TrueOf
  <2>2. CASE Exists(db.person)
    <3>1. Show(t, "person", db.person) /\ made' = made
      BY <1>3, <2>2 DEF createPersonIdentity
    <3>2. Turned(t) /\ pages'[t].task = Resting /\ pages'[t].roster = {}
          /\ pages'[t].shown = [is |-> "person", who |-> db.person]
      BY <1>2, <3>1, Shown DEF Shows
    <3>3. ShownFits(pages[t].shown, pages[t].roster)'
      BY <2>1, <2>2, <3>2 DEF ShownFits, Exists, StoreFits
    <3>4. PageFits(pages[t])'
      BY <3>2, <3>3, RestingTask
         DEF PageFits, CreateFits, RejoinFits, RestoreFits, StoredFits
    <3> QED
      BY <1>1, <2>1, <3>1, <3>2, <3>4, KeptGrows DEF Turned, Kept
  <2>3. CASE ~Exists(db.person)
    <3>1. made' = made + 1
          /\ pages' = [pages EXCEPT ![t].task.at = "add", ![t].task.key = made + 1]
      BY <1>3, <2>3 DEF createPersonIdentity
    <3>2. /\ Turned(t) /\ SameView(t)
          /\ pages'[t].task = [task(t) EXCEPT !.at = "add", !.key = made + 1]
      <4> DEFINE k == made + 1
      <4>1. k \in Nat
        BY <1>2
      <4> HIDE DEF k
      <4>2. pages' = [pages EXCEPT ![t].task.at = "add", ![t].task.key = k]
        BY <3>1 DEF k
      <4>3. /\ Turned(t) /\ SameView(t)
            /\ pages'[t].task = [task(t) EXCEPT !.at = "add", !.key = k]
        BY <1>2, <4>1, <4>2
           DEF KeyTypes, Turned, SameView, PageSet, TaskSet, Steps, task
      <4> QED
        BY <4>3 DEF k
    <3>3. task(t).op = "create"
      BY <1>3 DEF createPersonIdentity, At
    <3>4. PageFits(pages[t])'
      BY <1>2, <2>1, <3>2, <3>3, ShownStays
         DEF SameView, PageFits, CreateFits, RejoinFits, RestoreFits, StoredFits, TaskSet
    <3>5. KeyTypes'
      BY <1>1, <1>2, <2>1, <3>1, <3>2 DEF KeyTypes, Turned
    <3> QED
      BY <2>1, <3>2, <3>4, <3>5, PageMoves DEF Turned
  <2> QED
    BY <2>2, <2>3
<1>4. CASE addCreated(t)
  <2> DEFINE who == Person(task(t).key, {})
  <2>1. who \in PersonSet /\ who.key # 0 /\ who.key = task(t).key /\ who.marks = {}
    BY <1>2, <1>4 DEF addCreated, At, task, Person, PersonSet, PageFits, CreateFits, TaskSet
  <2>2. db' = [db EXCEPT !.person = IF Exists(db.person) THEN @ ELSE who] /\ made' = made
    BY <1>4 DEF addCreated, addRecord
  <2>3. /\ db'.person = IF Exists(db.person) THEN db.person ELSE who
        /\ db'.vouch = db.vouch /\ Exists(db'.person)
        /\ db' \in [person : PersonSet, vouch : Nat]
    BY <2>1, <2>2 DEF KeyTypes, Exists
  <2>4. Grows /\ StoreFits'
    BY <1>1, <2>1, <2>3 DEF Grows, StoreFits, TrueOf, Exists
  <2>5. CASE Exists(db.person)
    <3>1. "winner" \in Steps /\ Go(t, "winner")
      BY <1>4, <2>5 DEF Steps, addCreated
    <3>2. /\ Turned(t) /\ SameView(t)
          /\ pages'[t].task = [task(t) EXCEPT !.at = "winner"]
      BY <3>1, Goes
    <3>3. task(t).op = "create"
      BY <1>4 DEF addCreated, At
    <3>4. PageFits(pages[t])'
      BY <1>2, <2>3, <2>4, <3>2, <3>3, ShownStays
         DEF SameView, PageFits, CreateFits, RejoinFits, RestoreFits, StoredFits, TaskSet
    <3>5. KeyTypes'
      BY <1>1, <2>2, <2>3, <3>2 DEF KeyTypes, Turned
    <3> QED
      BY <2>4, <3>2, <3>4, <3>5, PageMoves DEF Turned
  <2>6. CASE ~Exists(db.person)
    <3>1. Show(t, "person", db'.person) /\ db'.person = who
      BY <1>4, <2>3, <2>6 DEF addCreated
    <3>2. Turned(t) /\ pages'[t].task = Resting /\ pages'[t].roster = {}
          /\ pages'[t].shown = [is |-> "person", who |-> who]
      BY <2>1, <3>1, Shown DEF Shows
    <3>3. ShownFits(pages[t].shown, pages[t].roster)'
      BY <2>1, <2>3, <2>4, <3>1, <3>2 DEF ShownFits, StoreFits
    <3>4. PageFits(pages[t])'
      BY <3>2, <3>3, RestingTask
         DEF PageFits, CreateFits, RejoinFits, RestoreFits, StoredFits
    <3>5. KeyTypes'
      BY <1>1, <2>2, <2>3, <3>2 DEF KeyTypes, Turned
    <3> QED
      BY <2>4, <3>2, <3>4, <3>5, PageMoves DEF Turned
  <2> QED
    BY <2>5, <2>6
<1> QED
  BY <1>3, <1>4

\* A restored key, checked, written over its own record or added.
LEMMA RestoreStep ==
  ASSUME KeyInv, NEW t \in Tabs,
         takeUpPersonKey(t) \/ restorePersonIdentity(t) \/ storeRestored(t)
  PROVE  KeyInv'
<1> USE DEF KeyInv
<1>1. UNCHANGED <<host, locked, saved, made>> /\ task(t).op = "restore"
  BY DEF takeUpPersonKey, restorePersonIdentity, storeRestored, At
<1>2. /\ pages[t] \in PageSet /\ task(t) \in TaskSet /\ db.person \in PersonSet
      /\ task(t).key \in Nat /\ task(t).held \in PersonSet
  BY DEF KeyTypes, task, PageSet, TaskSet
<1>3. RestoreFits(task(t)) /\ StoreFits /\ KeyTypes
  BY DEF PageFits, task
<1>4. ASSUME NEW at \in {"read", "put", "add"}, NEW who \in PersonSet, Kept,
             pages' = [pages EXCEPT ![t].task.at = at, ![t].task.held = who],
             at = "read" => TrueOf(Person(task(t).key, who.marks)),
             at # "read" => who.key = task(t).key /\ TrueOf(who),
             at = "put" => task(t).key = db.person.key
      PROVE  KeyInv'
  <2>1. /\ Turned(t) /\ SameView(t)
        /\ pages'[t].task = [task(t) EXCEPT !.at = at, !.held = who]
    BY <1>2, <1>4 DEF KeyTypes, Turned, SameView, PageSet, TaskSet, Steps, task
  <2>2. Grows /\ \A w : TrueOf(w) => TrueOf(w)'
    BY <1>4, TrueStays DEF Kept, Grows
  <2>3. SaysTrue(pages[t].task.by, pages[t].task.key)' /\ pages'[t].task.by \in Marks
    <3>1. pages'[t].task.by = task(t).by /\ pages'[t].task.key = task(t).key
      BY <1>2, <2>1 DEF TaskSet
    <3> QED
      BY <1>1, <1>3, <1>4, <3>1 DEF RestoreFits, SaysTrue, Kept
  <2>4. RestoreFits(pages[t].task)'
    <3>1. /\ pages'[t].task.key = task(t).key /\ task(t).key # 0
          /\ pages'[t].task.held = who /\ pages'[t].task.at = at
      BY <1>1, <1>2, <1>3, <2>1 DEF RestoreFits, TaskSet
    <3>3. at # "read" => TrueOf(pages[t].task.held)'
      BY <1>4, <2>2, <3>1 DEF Kept, TrueOf
    <3>4. at = "read" => TrueOf(Person(pages[t].task.key, pages[t].task.held.marks))'
      BY <1>4, <3>1 DEF Kept, TrueOf, Person
    <3> QED
      BY <1>4, <2>3, <3>1, <3>3, <3>4 DEF RestoreFits, Kept
  <2>5. PageFits(pages[t])'
    BY <1>1, <1>2, <2>1, <2>2, <2>4, ShownStays
       DEF SameView, PageFits, CreateFits, RejoinFits, StoredFits, TaskSet
  <2> QED
    BY <1>4, <2>1, <2>5, KeptGrows DEF Turned
<1>5. CASE takeUpPersonKey(t)
  <2>1. Kept
    BY <1>1, <1>5 DEF takeUpPersonKey, Kept
  <2>2. CASE db.vouch \in {0, task(t).key}
    <3> DEFINE who == Person(0, IF db.vouch # 0 THEN {"joined"} ELSE {})
    <3>1. who \in PersonSet /\ pages' = [pages EXCEPT ![t].task.at = "read", ![t].task.held = who]
      BY <1>5, <2>2 DEF takeUpPersonKey, Person, PersonSet, Marks
    <3>2. TrueOf(Person(task(t).key, who.marks))
      BY <1>3, <2>2 DEF StoreFits, TrueOf, Person
    <3> QED
      BY <1>4, <2>1, <3>1, <3>2
  <2> QED
    BY <1>5, <2>1, <2>2, QuitStep DEF takeUpPersonKey
<1>6. CASE restorePersonIdentity(t)
  <2>1. Kept /\ task(t).at = "read"
    BY <1>1, <1>6 DEF restorePersonIdentity, Kept, At
  <2>2. task(t).by \in Marks /\ SaysTrue(task(t).by, task(t).key)
        /\ TrueOf(Person(task(t).key, task(t).held.marks))
    BY <1>1, <1>3, <2>1 DEF RestoreFits
  <2>3. CASE ~holdsOther(db.person, task(t).key) /\ Exists(db.person)
    <3> DEFINE who == Person(task(t).key, db.person.marks \cup {task(t).by})
    <3>1. who \in PersonSet /\ pages' = [pages EXCEPT ![t].task.at = "put", ![t].task.held = who]
      BY <1>2, <1>6, <2>2, <2>3 DEF restorePersonIdentity, Person, PersonSet
    <3>2. who.key = task(t).key /\ TrueOf(who) /\ task(t).key = db.person.key
      BY <1>3, <2>2, <2>3 DEF StoreFits, TrueOf, SaysTrue, Person, holdsOther
    <3> QED
      BY <1>4, <2>1, <3>1, <3>2
  <2>4. CASE ~holdsOther(db.person, task(t).key) /\ ~Exists(db.person)
    <3> DEFINE who == Person(task(t).key, task(t).held.marks \cup {task(t).by})
    <3>1. who \in PersonSet
      BY <1>2, <2>2 DEF Person, PersonSet
    <3>2. pages' = [pages EXCEPT ![t].task.at = "add", ![t].task.held = who]
      <4>1. pages' = [pages EXCEPT ![t].task.at = "add",
                      ![t].task.held = Person(task(t).key, @.marks \cup {task(t).by})]
        BY <1>6, <2>4 DEF restorePersonIdentity
      <4> QED
        BY <4>1, <1>2 DEF KeyTypes, PageSet, TaskSet, task
    <3>3. who.key = task(t).key /\ TrueOf(who)
      BY <2>2 DEF TrueOf, SaysTrue, Person
    <3> QED
      BY <1>4, <2>1, <3>1, <3>2, <3>3
  <2> QED
    BY <1>6, <2>1, <2>3, <2>4, QuitStep DEF restorePersonIdentity
<1>7. CASE storeRestored(t)
  <2> DEFINE who == task(t).held
  <2>1. task(t).at \in {"put", "add"} /\ who.key = task(t).key /\ who.key # 0 /\ TrueOf(who)
        /\ (task(t).at = "put" => who.key = db.person.key)
    BY <1>1, <1>3, <1>7 DEF storeRestored, RestoreFits
  <2>2. db' = [db EXCEPT !.person = IF task(t).at = "add" /\ Exists(db.person) THEN @ ELSE who]
    BY <1>7 DEF storeRestored, addRecord
  <2>3. /\ db'.person = IF task(t).at = "add" /\ Exists(db.person) THEN db.person ELSE who
        /\ db'.vouch = db.vouch /\ db' \in [person : PersonSet, vouch : Nat]
    BY <1>2, <2>2 DEF KeyTypes
  <2>4. Grows /\ StoreFits'
    BY <1>1, <1>3, <2>1, <2>3 DEF Grows, StoreFits, TrueOf, Exists
  <2>5. CASE Quit(t)
    <3>1. Turned(t) /\ PageFits(pages[t])'
      BY <2>4, <2>5, Quits DEF Turned
    <3>2. KeyTypes'
      BY <1>1, <2>3, <3>1 DEF KeyTypes, Turned
    <3> QED
      BY <2>4, <3>1, <3>2, PageMoves DEF Turned
  <2>6. CASE Go(t, "clear") /\ db'.person = who
    <3>1. "clear" \in Steps
      BY DEF Steps
    <3>2. /\ Turned(t) /\ SameView(t)
          /\ pages'[t].task = [task(t) EXCEPT !.at = "clear"]
      BY <2>6, <3>1, Goes
    <3>3. RestoreFits(pages[t].task)'
      <4>1. /\ pages'[t].task.by = task(t).by /\ pages'[t].task.key = task(t).key
            /\ pages'[t].task.held = who /\ pages'[t].task.at = "clear"
        BY <1>2, <3>2 DEF TaskSet
      <4>2. SaysTrue(pages[t].task.by, pages[t].task.key)' /\ pages'[t].task.by \in Marks
        BY <1>1, <1>3, <4>1 DEF RestoreFits, SaysTrue
      <4>3. TrueOf(pages[t].task.held)'
        BY <1>1, <2>1, <4>1 DEF TrueOf
      <4> QED
        BY <2>1, <2>6, <4>1, <4>2, <4>3 DEF RestoreFits
    <3>4. PageFits(pages[t])'
      BY <1>1, <1>2, <2>4, <3>2, <3>3, ShownStays
         DEF SameView, PageFits, CreateFits, RejoinFits, StoredFits, TaskSet
    <3>5. KeyTypes'
      BY <1>1, <2>3, <3>2 DEF KeyTypes, Turned
    <3> QED
      BY <2>4, <3>2, <3>4, <3>5, PageMoves DEF Turned
  <2> QED
    BY <1>7, <2>3, <2>5, <2>6 DEF storeRestored
<1> QED
  BY <1>5, <1>6, <1>7

\* The page takes the key it restored, and the vouch goes.
LEMMA ClearStep ==
  ASSUME KeyInv, NEW t \in Tabs, clearDeviceVouch(t)
  PROVE  KeyInv'
<1> USE DEF KeyInv
<1> DEFINE who == task(t).held
           notes == "joined" \notin who.marks /\ who.key \in pages[t].roster
<1>1. UNCHANGED <<host, locked, saved, made>> /\ db' = [db EXCEPT !.vouch = 0]
  BY DEF clearDeviceVouch
<1>2. pages[t] \in PageSet /\ task(t) \in TaskSet /\ who \in PersonSet
  BY DEF KeyTypes, task, PageSet, TaskSet
<1>3. who.key = db.person.key /\ who.key # 0 /\ TrueOf(who)
      /\ (notes => who.key \in host.people)
  BY DEF clearDeviceVouch, At, PageFits, ShownFits, RestoreFits, task
<1>4. db'.person = db.person /\ db'.vouch = 0 /\ db' \in [person : PersonSet, vouch : Nat]
  BY <1>1 DEF KeyTypes
<1>5. Grows /\ StoreFits'
  BY <1>1, <1>4 DEF Grows, StoreFits, TrueOf
<1>6. statusOf(who) = [is |-> "person", who |-> who] /\ statusOf(who) \in ShownSet
  BY <1>2 DEF statusOf, Shows, ShownSet
<1>7. [Resting EXCEPT !.op = "mark", !.at = "load", !.by = "joined"] \in TaskSet
  BY DEF Resting, TaskSet, Ops, Steps, Nobody, PersonSet, Marks
<1>8. /\ Turned(t) /\ pages'[t].shown = statusOf(who) /\ pages'[t].roster = {}
      /\ pages'[t].task = IF notes THEN [Resting EXCEPT !.op = "mark", !.at = "load",
                                                         !.by = "joined"]
                                   ELSE Resting
  <2> DEFINE k == IF notes THEN [Resting EXCEPT !.op = "mark", !.at = "load", !.by = "joined"]
                           ELSE Resting
             shown == statusOf(who)
  <2>1. k \in TaskSet /\ shown \in ShownSet
    BY <1>6, <1>7, RestingTask
  <2>2. pages' = [pages EXCEPT ![t].shown = shown, ![t].roster = {}, ![t].task = k]
    BY DEF clearDeviceVouch
  <2> HIDE DEF k, shown
  <2>3. Turned(t) /\ pages'[t].shown = shown /\ pages'[t].roster = {} /\ pages'[t].task = k
    BY <1>2, <2>1, <2>2 DEF KeyTypes, Turned, PageSet
  <2> QED
    BY <2>3 DEF k, shown
<1>9. ShownFits(pages[t].shown, pages[t].roster)'
  <2>1. TrueOf(pages[t].shown.who)'
    BY <1>1, <1>3, <1>6, <1>8 DEF TrueOf
  <2> QED
    BY <1>3, <1>4, <1>6, <1>8, <2>1 DEF ShownFits, Exists
<1>10. PageFits(pages[t])'
  <2>1. CASE notes
    <3>1. pages'[t].task.op = "mark" /\ pages'[t].task.at = "load" /\ pages'[t].task.by = "joined"
      BY <1>8, <2>1 DEF Resting
    <3>2. StoredFits(pages[t].task, pages[t].shown.is)'
      BY <1>1, <1>3, <1>4, <1>6, <1>8, <2>1, <3>1 DEF StoredFits, SaysTrue, Marks
    <3> QED
      BY <1>9, <3>1, <3>2 DEF PageFits, CreateFits, RejoinFits, RestoreFits
  <2>2. CASE ~notes
    BY <1>8, <1>9, <2>2, RestingTask
       DEF PageFits, CreateFits, RejoinFits, RestoreFits, StoredFits
  <2> QED
    BY <2>1, <2>2
<1>11. KeyTypes'
  BY <1>1, <1>4, <1>8 DEF KeyTypes, Turned
<1> QED
  BY <1>5, <1>8, <1>10, <1>11, PageMoves DEF Turned

\* A mark is read for and written.
LEMMA MarkStep ==
  ASSUME KeyInv, NEW t \in Tabs, markStored(t) \/ updateStored(t) \/ putRecord(t)
  PROVE  KeyInv'
<1> USE DEF KeyInv
<1>1. UNCHANGED <<host, locked, saved, made>> /\ task(t).op = "mark"
  BY DEF markStored, updateStored, putRecord, At
<1>2. /\ pages[t] \in PageSet /\ task(t) \in TaskSet /\ db.person \in PersonSet
      /\ pages[t].shown.who \in PersonSet
  BY DEF KeyTypes, task, PageSet, ShownSet
<1>3. StoredFits(task(t), pages[t].shown.is) /\ ShownFits(pages[t].shown, pages[t].roster)
      /\ StoreFits
  BY DEF PageFits, task
<1>4. pages[t].shown.is = "person" /\ task(t).by \in Marks /\ SaysTrue(task(t).by, db.person.key)
  BY <1>1, <1>3 DEF StoredFits
<1>5. CASE markStored(t)
  <2>1. Kept /\ Grows
    BY <1>1, <1>5 DEF markStored, Kept, Grows
  <2>2. /\ Turned(t) /\ SameView(t)
        /\ pages'[t].task = [task(t) EXCEPT !.at = "read", !.key = db.person.key]
    BY <1>2, <1>5 DEF markStored, KeyTypes, Turned, SameView, PageSet, TaskSet, Steps,
                      PersonSet, task
  <2>3. pages'[t].task.op = "mark" /\ pages'[t].task.at = "read"
        /\ pages'[t].task.key = db.person.key /\ pages'[t].task.by = task(t).by
    BY <1>1, <1>2, <2>2 DEF TaskSet
  <2>4. StoredFits(pages[t].task, pages[t].shown.is)'
    BY <1>4, <2>1, <2>2, <2>3 DEF StoredFits, SaysTrue, Kept, SameView
  <2>5. PageFits(pages[t])'
    BY <2>1, <2>2, <2>3, <2>4, ShownStays
       DEF SameView, PageFits, CreateFits, RejoinFits, RestoreFits
  <2> QED
    BY <2>1, <2>2, <2>5, KeptGrows DEF Turned
<1>6. CASE updateStored(t)
  <2>1. Kept /\ Grows
    BY <1>1, <1>6 DEF updateStored, Kept, Grows
  <2>2. CASE db.person.key = task(t).key
    <3>1. /\ Turned(t) /\ SameView(t)
          /\ pages'[t].task = [task(t) EXCEPT !.at = "put", !.held = db.person]
      <4> DEFINE who == db.person
      <4>1. who \in PersonSet
            /\ pages' = [pages EXCEPT ![t].task.at = "put", ![t].task.held = who]
        BY <1>2, <1>6, <2>2 DEF updateStored
      <4> HIDE DEF who
      <4>2. /\ Turned(t) /\ SameView(t)
            /\ pages'[t].task = [task(t) EXCEPT !.at = "put", !.held = who]
        BY <1>2, <4>1 DEF KeyTypes, Turned, SameView, PageSet, TaskSet, Steps, task
      <4> QED
        BY <4>2 DEF who
    <3>2. pages'[t].task.op = "mark" /\ pages'[t].task.at = "put"
          /\ pages'[t].task.key = db.person.key /\ pages'[t].task.by = task(t).by
          /\ pages'[t].task.held = db.person
      BY <1>1, <1>2, <2>2, <3>1 DEF TaskSet
    <3>3. StoredFits(pages[t].task, pages[t].shown.is)'
      <4>1. TrueOf(pages[t].task.held)'
        BY <1>3, <2>1, <3>2 DEF StoreFits, TrueOf, Kept
      <4> QED
        BY <1>4, <2>1, <3>1, <3>2, <4>1 DEF StoredFits, SaysTrue, Kept, SameView
    <3>4. PageFits(pages[t])'
      BY <2>1, <3>1, <3>2, <3>3, ShownStays
         DEF SameView, PageFits, CreateFits, RejoinFits, RestoreFits
    <3> QED
      BY <2>1, <3>1, <3>4, KeptGrows DEF Turned
  <2> QED
    BY <1>6, <2>1, <2>2, QuitStep DEF updateStored
<1>7. CASE putRecord(t)
  <2> DEFINE own == task(t).held
             by == task(t).by
             who == Person(own.key, own.marks \cup {by})
  <2>1. own \in PersonSet /\ who \in PersonSet /\ who.key = own.key
        /\ who.marks = own.marks \cup {by}
    BY <1>2, <1>4 DEF Person, PersonSet, TaskSet
  <2>2. own.key = db.person.key /\ TrueOf(own)
    BY <1>1, <1>3, <1>7 DEF StoredFits, putRecord, At
  <2>3. db' = [db EXCEPT !.person = who]
        /\ pages' = [pages EXCEPT ![t].shown.who.marks = @ \cup {by}, ![t].task = Resting]
    BY <1>7 DEF putRecord
  <2>4. db'.person = who /\ db'.vouch = db.vouch /\ db' \in [person : PersonSet, vouch : Nat]
    BY <2>1, <2>3 DEF KeyTypes
  <2>5. Grows /\ StoreFits'
    <3>1. TrueOf(db.person)'
      BY <1>1, <1>4, <2>1, <2>2, <2>4 DEF TrueOf, SaysTrue
    <3> QED
      BY <1>1, <1>3, <2>1, <2>2, <2>4, <3>1 DEF Grows, StoreFits
  <2>6. /\ Turned(t) /\ pages'[t].task = Resting /\ pages'[t].roster = pages[t].roster
        /\ pages'[t].shown.is = "person"
        /\ pages'[t].shown.who.key = pages[t].shown.who.key
        /\ pages'[t].shown.who.marks = pages[t].shown.who.marks \cup {by}
    <3> HIDE DEF by
    <3>1. by \in Marks
      BY <1>4 DEF by
    <3> QED
      BY <1>2, <1>4, <2>3, <3>1, RestingTask
         DEF KeyTypes, Turned, PageSet, ShownSet, PersonSet
  <2>7. ShownFits(pages[t].shown, pages[t].roster)'
    <3>1. TrueOf(pages[t].shown.who) /\ pages[t].shown.who.key = db.person.key
          /\ Exists(db.person)
      BY <1>3, <1>4 DEF ShownFits
    <3>2. TrueOf(pages[t].shown.who)'
      BY <1>1, <1>4, <2>6, <3>1 DEF TrueOf, SaysTrue
    <3> QED
      BY <1>1, <1>3, <2>1, <2>2, <2>4, <2>6, <3>1, <3>2 DEF ShownFits, Exists
  <2>8. PageFits(pages[t])'
    BY <2>6, <2>7, RestingTask DEF PageFits, CreateFits, RejoinFits, RestoreFits, StoredFits
  <2>9. KeyTypes'
    BY <1>1, <2>4, <2>6 DEF KeyTypes, Turned
  <2> QED
    BY <2>5, <2>6, <2>8, <2>9, PageMoves DEF Turned
<1> QED
  BY <1>5, <1>6, <1>7

\* The person's side: a page is opened, closed, or begins one thing.
LEMMA OpenStep ==
  ASSUME KeyInv, NEW t \in Tabs, openPage(t) \/ closePage(t)
  PROVE  KeyInv'
<1>1. UNCHANGED <<db, host, locked, saved, made>> /\ Kept /\ Grows
  BY DEF openPage, closePage, Kept, Grows
<1>2. Closed \in PageSet /\ Closed.shown.is = "unknown" /\ Closed.roster = {}
      /\ Closed.task = Resting
  BY RestingTask DEF Closed, PageSet, ShownSet, Unknown
<1>3. ASSUME NEW q \in PageSet, pages' = [pages EXCEPT ![t] = q], q.shown.is = "unknown",
             q.roster = {}, q.task.op \in {"none", "status"}
      PROVE  KeyInv'
  <2>1. pages'[t] = q
    BY <1>3 DEF KeyInv, KeyTypes
  <2>2. PageFits(pages[t])'
    BY <1>3, <2>1 DEF PageFits, ShownFits, CreateFits, RejoinFits, RestoreFits, StoredFits
  <2> QED
    BY <1>1, <1>3, <2>1, <2>2, KeptGrows
<1>4. CASE closePage(t)
  BY <1>2, <1>3, <1>4, RestingTask DEF closePage
<1>5. CASE openPage(t)
  <2> DEFINE k == [Resting EXCEPT !.op = "status", !.at = "person"]
             q == [Closed EXCEPT !.open = TRUE, !.task = k]
  <2>1. k \in TaskSet /\ k.op = "status"
    BY DEF Resting, TaskSet, Ops, Steps, Nobody, PersonSet
  <2> HIDE DEF k
  <2>2. q \in PageSet /\ q.shown.is = "unknown" /\ q.roster = {} /\ q.task = k
    BY <1>2, <2>1 DEF PageSet
  <2>3. pages' = [pages EXCEPT ![t] = q]
    BY <1>5 DEF openPage, k
  <2> QED
    BY <1>3, <2>1, <2>2, <2>3
<1> QED
  BY <1>4, <1>5

\* A task that begins on the page as it is.
LEMMA BeginStep ==
  ASSUME KeyInv, Grows, NEW t \in Tabs, NEW k \in TaskSet, KeyTypes', StoreFits',
         pages' = [pages EXCEPT ![t].task = k],
         CreateFits(k)', RejoinFits(k)', RestoreFits(k)', StoredFits(k, pages[t].shown.is)'
  PROVE  KeyInv'
<1>1. Turned(t) /\ SameView(t) /\ pages'[t].task = k
  BY DEF KeyInv, KeyTypes, Turned, SameView, PageSet
<1>2. PageFits(pages[t])'
  BY <1>1, ShownStays DEF SameView, PageFits
<1> QED
  BY <1>1, <1>2, PageMoves DEF Turned

\* What is begun, field by field.
TaskIs(k, op, at, key, by) == k.op = op /\ k.at = at /\ k.key = key /\ k.by = by

LEMMA BegunTask ==
  ASSUME NEW op \in Ops, NEW at \in Steps, NEW key \in Nat, NEW by \in Marks \cup {"none"}
  PROVE  \E k \in TaskSet : /\ k = [Resting EXCEPT !.op = op, !.at = at, !.key = key, !.by = by]
                            /\ TaskIs(k, op, at, key, by)
<1> DEFINE k == [Resting EXCEPT !.op = op, !.at = at, !.key = key, !.by = by]
<1>1. k \in TaskSet /\ TaskIs(k, op, at, key, by)
  BY RestingTask DEF TaskSet, TaskIs, Resting
<1> QED
  BY <1>1

\* What the person begins that writes nothing.
LEMMA PersonStep ==
  ASSUME KeyInv, NEW t \in Tabs,
         \/ onNew(t) \/ askForVouch(t) \/ signJoinRequest(t) \/ protect(t)
         \/ \E copy \in saved \cup host.records, method \in {"passphrase", "passkey"} :
              restoreWith(t, copy, method)
  PROVE  KeyInv'
<1> USE DEF KeyInv
<1>1. Kept /\ Grows
  BY DEF onNew, askForVouch, signJoinRequest, protect, restoreWith, Kept, Grows
<1>2. KeyTypes /\ StoreFits /\ StoreFits' /\ PageFits(pages[t]) /\ pages[t] \in PageSet
  BY <1>1 DEF Kept, StoreFits, TrueOf, KeyTypes
<1>3. ASSUME NEW k \in TaskSet, pages' = [pages EXCEPT ![t].task = k], CreateFits(k),
             RejoinFits(k), RestoreFits(k), StoredFits(k, pages[t].shown.is)
      PROVE  KeyInv'
  <2>1. KeyTypes'
    BY <1>1, <1>2, <1>3 DEF KeyTypes, Kept, PageSet
  <2>2. CreateFits(k)' /\ RejoinFits(k)' /\ RestoreFits(k)'
    BY <1>1, <1>3 DEF Kept, CreateFits, RejoinFits, RestoreFits, SaysTrue, TrueOf
  <2>3. StoredFits(k, pages[t].shown.is)'
    <3>1. pages'[t].shown.is = pages[t].shown.is
      BY <1>2, <1>3 DEF KeyTypes, PageSet
    <3> QED
      BY <1>1, <1>3, <3>1 DEF Kept, StoredFits, SaysTrue, TrueOf
  <2> QED
    BY <1>1, <1>2, <1>3, <2>1, <2>2, <2>3, BeginStep
<1>4. CASE onNew(t)
  <2> DEFINE k == [Resting EXCEPT !.op = "create", !.at = "read", !.said = TRUE]
  <2>1. k \in TaskSet /\ k.op = "create" /\ k.at = "read"
    BY DEF Resting, TaskSet, Ops, Steps, Nobody, PersonSet
  <2>2. pages' = [pages EXCEPT ![t].task = k]
    BY <1>4 DEF onNew
  <2>3. CreateFits(k) /\ RejoinFits(k) /\ RestoreFits(k) /\ StoredFits(k, pages[t].shown.is)
    BY <2>1 DEF CreateFits, RejoinFits, RestoreFits, StoredFits
  <2> QED
    BY <1>3, <2>1, <2>2, <2>3
<1>5. CASE askForVouch(t)
  <2>1. PICK p \in host.people : Begin(t, "rejoin", "asked", p, "none")
    BY <1>5 DEF askForVouch
  <2>2. p \in Nat /\ "rejoin" \in Ops /\ "asked" \in Steps
    BY <1>2 DEF KeyTypes, Ops, Steps
  <2>3. PICK k \in TaskSet : /\ k = [Resting EXCEPT !.op = "rejoin", !.at = "asked",
                                                   !.key = p, !.by = "none"]
                            /\ TaskIs(k, "rejoin", "asked", p, "none")
    BY <2>2, BegunTask
  <2>4. CreateFits(k) /\ RejoinFits(k) /\ RestoreFits(k) /\ StoredFits(k, pages[t].shown.is)
    BY <2>1, <2>3 DEF TaskIs, CreateFits, RejoinFits, RestoreFits, StoredFits
  <2> QED
    BY <1>3, <2>1, <2>3, <2>4 DEF Begin
<1>6. CASE signJoinRequest(t)
  <2> DEFINE key == db.person.key
  <2>1. key \in Nat /\ "join" \in Ops /\ "post" \in Steps /\ "joined" \in Marks
    BY <1>2 DEF KeyTypes, PersonSet, Ops, Steps, Marks
  <2>2. pages[t].shown.is = "person" /\ Begin(t, "join", "post", key, "joined")
    BY <1>6 DEF signJoinRequest, HasKey
  <2>3. PICK k \in TaskSet : /\ k = [Resting EXCEPT !.op = "join", !.at = "post",
                                                   !.key = key, !.by = "joined"]
                            /\ TaskIs(k, "join", "post", key, "joined")
    BY <2>1, BegunTask
  <2>4. CreateFits(k) /\ RejoinFits(k) /\ RestoreFits(k) /\ StoredFits(k, pages[t].shown.is)
    BY <2>1, <2>2, <2>3 DEF TaskIs, CreateFits, RejoinFits, RestoreFits, StoredFits
  <2> QED
    BY <1>3, <2>2, <2>3, <2>4 DEF Begin
<1>7. CASE protect(t)
  <2>1. "record" \in Ops /\ "ceremony" \in Steps /\ "recorded" \in Marks
    BY DEF Ops, Steps, Marks
  <2>2. pages[t].shown.is = "person" /\ Begin(t, "record", "ceremony", 0, "recorded")
    BY <1>7 DEF protect, HasKey
  <2>3. PICK k \in TaskSet : /\ k = [Resting EXCEPT !.op = "record", !.at = "ceremony",
                                                   !.key = 0, !.by = "recorded"]
                            /\ TaskIs(k, "record", "ceremony", 0, "recorded")
    BY <2>1, BegunTask
  <2>4. CreateFits(k) /\ RejoinFits(k) /\ RestoreFits(k) /\ StoredFits(k, pages[t].shown.is)
    BY <2>1, <2>2, <2>3 DEF TaskIs, CreateFits, RejoinFits, RestoreFits, StoredFits
  <2> QED
    BY <1>3, <2>2, <2>3, <2>4 DEF Begin
<1>8. ASSUME NEW copy \in saved \cup host.records, NEW method \in {"passphrase", "passkey"},
             restoreWith(t, copy, method)
      PROVE  KeyInv'
  <2> DEFINE by == unlockedBy(method)
             key == opensTo(copy, method)
  <2>1. /\ key # 0 /\ copy.unlock = method /\ key = copy.key /\ key \in Nat
        /\ copy = [key |-> key, unlock |-> method]
        /\ by = IF method = "passphrase" THEN "backedUp" ELSE "recorded"
        /\ (method = "passphrase" => copy \in locked)
        /\ (method = "passkey" => copy \in host.records)
    BY <1>2, <1>8 DEF restoreWith, KeyTypes, opensTo, unlockedBy
  <2>2. by \in Marks /\ SaysTrue(by, key) /\ "restore" \in Ops /\ "vouch" \in Steps
    BY <2>1 DEF SaysTrue, Marks, Ops, Steps, wrapPersonKey, wrapPersonKeyWithPasskey, wrapWith
  <2>3. Begin(t, "restore", "vouch", key, by)
    BY <1>8 DEF restoreWith
  <2> HIDE DEF by, key
  <2>4. PICK k \in TaskSet : /\ k = [Resting EXCEPT !.op = "restore", !.at = "vouch",
                                                   !.key = key, !.by = by]
                            /\ TaskIs(k, "restore", "vouch", key, by)
    BY <2>1, <2>2, BegunTask
  <2>5. CreateFits(k) /\ RejoinFits(k) /\ RestoreFits(k) /\ StoredFits(k, pages[t].shown.is)
    BY <2>1, <2>2, <2>4 DEF TaskIs, CreateFits, RejoinFits, RestoreFits, StoredFits
  <2> QED
    BY <1>3, <2>3, <2>4, <2>5 DEF Begin
<1> QED
  BY <1>4, <1>5, <1>6, <1>7, <1>8

\* A backup: the stored key is locked, saved or not, and opened again.
LEMMA BackupStep ==
  ASSUME KeyInv, NEW t \in Tabs,
         backUpPersonKey(t) \/ saveBackupFile(t) \/ checkPersonKeyBackup(t)
  PROVE  KeyInv'
<1> USE DEF KeyInv
<1>1. KeyTypes /\ StoreFits /\ PageFits(pages[t]) /\ pages[t] \in PageSet /\ task(t) \in TaskSet
      /\ StoredFits(task(t), pages[t].shown.is)
  BY DEF KeyTypes, PageFits, PageSet, task
<1>2. UNCHANGED <<db, host, made>>
  BY DEF backUpPersonKey, saveBackupFile, checkPersonKeyBackup
<1>3. CASE backUpPersonKey(t)
  <2> DEFINE key == db.person.key
  <2>1. key \in Nat /\ "backup" \in Ops /\ "save" \in Steps /\ "backedUp" \in Marks
    BY <1>1 DEF KeyTypes, PersonSet, Ops, Steps, Marks
  <2>2. /\ pages[t].shown.is = "person" /\ Begin(t, "backup", "save", key, "backedUp")
        /\ locked' = locked \cup {wrapPersonKey(key)} /\ saved' = saved
    BY <1>3 DEF backUpPersonKey, HasKey
  <2>3. Grows /\ StoreFits'
    BY <1>1, <1>2, <2>2 DEF Grows, StoreFits, TrueOf
  <2>4. PICK k \in TaskSet : /\ k = [Resting EXCEPT !.op = "backup", !.at = "save",
                                                   !.key = key, !.by = "backedUp"]
                            /\ TaskIs(k, "backup", "save", key, "backedUp")
    BY <2>1, BegunTask
  <2>5. wrapPersonKey(key) \in [key : Nat, unlock : {"passphrase"}]
    BY <2>1 DEF wrapPersonKey, wrapWith
  <2>6. KeyTypes'
    BY <1>1, <1>2, <2>2, <2>4, <2>5 DEF KeyTypes, PageSet, Begin
  <2>7. CreateFits(k)' /\ RejoinFits(k)' /\ RestoreFits(k)' /\ StoredFits(k, pages[t].shown.is)'
    <3>1. pages'[t].shown.is = "person"
      BY <1>1, <2>2 DEF KeyTypes, PageSet, Begin
    <3> QED
      BY <1>2, <2>1, <2>2, <2>4, <3>1
         DEF TaskIs, CreateFits, RejoinFits, RestoreFits, StoredFits, SaysTrue
  <2> QED
    BY <2>2, <2>3, <2>4, <2>6, <2>7, BeginStep DEF Begin
<1>4. CASE saveBackupFile(t)
  <2>1. task(t).op = "backup" /\ task(t).at = "save" /\ locked' = locked /\ "check" \in Steps
        /\ Go(t, "check")
    BY <1>4 DEF saveBackupFile, At, Steps
  <2>2. wrapPersonKey(task(t).key) \in locked
    BY <1>1, <2>1 DEF StoredFits, SaysTrue
  <2>3. Grows /\ StoreFits'
    BY <1>1, <1>2, <2>1 DEF Grows, StoreFits, TrueOf
  <2>4. /\ Turned(t) /\ SameView(t) /\ pages'[t].task = [task(t) EXCEPT !.at = "check"]
    BY <1>1, <2>1, Goes
  <2>5. pages'[t].task.op = "backup" /\ pages'[t].task.at = "check"
        /\ pages'[t].task.key = task(t).key /\ pages'[t].task.by = task(t).by
    BY <1>1, <2>1, <2>4 DEF TaskSet
  <2>6. StoredFits(pages[t].task, pages[t].shown.is)'
    BY <1>1, <1>2, <2>1, <2>4, <2>5 DEF StoredFits, SaysTrue, SameView
  <2>7. PageFits(pages[t])'
    BY <2>3, <2>4, <2>5, <2>6, ShownStays
       DEF SameView, PageFits, CreateFits, RejoinFits, RestoreFits
  <2>8. saved' \subseteq locked'
    BY <1>1, <1>4, <2>1, <2>2 DEF saveBackupFile, KeyTypes
  <2>9. KeyTypes'
    BY <1>1, <1>2, <2>1, <2>4, <2>8 DEF KeyTypes, Turned
  <2> QED
    BY <2>3, <2>4, <2>7, <2>9, PageMoves DEF Turned
<1>5. CASE checkPersonKeyBackup(t)
  <2>1. Kept /\ Grows
    BY <1>2, <1>5 DEF checkPersonKeyBackup, Kept, Grows
  <2>2. CASE Quit(t)
    BY <2>1, <2>2, QuitStep
  <2>3. CASE pages' = [pages EXCEPT ![t].task.op = "mark", ![t].task.at = "read"]
    <3>1. /\ Turned(t) /\ SameView(t)
          /\ pages'[t].task = [task(t) EXCEPT !.op = "mark", !.at = "read"]
      BY <1>1, <2>3 DEF KeyTypes, Turned, SameView, PageSet, TaskSet, Ops, Steps, task
    <3>2. pages'[t].task.op = "mark" /\ pages'[t].task.at = "read"
          /\ pages'[t].task.key = task(t).key /\ pages'[t].task.by = task(t).by
      BY <1>1, <3>1 DEF TaskSet
    <3>3. task(t).op = "backup" /\ task(t).at = "check"
      BY <1>5 DEF checkPersonKeyBackup, At
    <3>4. StoredFits(pages[t].task, pages[t].shown.is)'
      BY <1>1, <2>1, <3>1, <3>2, <3>3 DEF StoredFits, SaysTrue, SameView, Kept
    <3>5. PageFits(pages[t])'
      BY <2>1, <3>1, <3>2, <3>4, ShownStays
         DEF SameView, PageFits, CreateFits, RejoinFits, RestoreFits
    <3> QED
      BY <2>1, <3>1, <3>5, KeptGrows DEF Turned
  <2> QED
    BY <1>5, <2>2, <2>3 DEF checkPersonKeyBackup
<1> QED
  BY <1>3, <1>4, <1>5

\* What the host has taken, or what a backup showed, is noted next.
LEMMA MarkingStep ==
  ASSUME KeyInv, Grows, NEW t \in Tabs, pages' = [pages EXCEPT ![t].task = Marking(t)],
         UNCHANGED <<db, locked, saved, made>>,
         host' \in [people : SUBSET Nat, records : SUBSET [key : Nat, unlock : {"passkey"}]],
         pages[t].shown.is = "person", NEW by \in Marks, task(t).by = by,
         SaysTrue(by, db.person.key)', StoreFits'
  PROVE  KeyInv'
<1> USE DEF KeyInv
<1>1. PICK k \in TaskSet : k = Marking(t) /\ k.op = "mark" /\ k.at = "load" /\ k.by = by
  <2>1. Marking(t) = [Resting EXCEPT !.op = "mark", !.at = "load", !.by = by]
    BY DEF Marking
  <2>2. Marking(t) \in TaskSet /\ Marking(t).op = "mark" /\ Marking(t).at = "load"
        /\ Marking(t).by = by
    BY <2>1, RestingTask DEF TaskSet, Ops, Steps, Resting
  <2> QED
    BY <2>2
<1>2. KeyTypes' /\ pages'[t].shown = pages[t].shown
  BY <1>1 DEF KeyTypes, PageSet
<1>3. StoredFits(k, pages[t].shown.is)'
  BY <1>1, <1>2 DEF StoredFits, SaysTrue, Grows
<1>4. CreateFits(k)' /\ RejoinFits(k)' /\ RestoreFits(k)'
  BY <1>1 DEF CreateFits, RejoinFits, RestoreFits
<1> QED
  BY <1>1, <1>2, <1>3, <1>4, BeginStep

\* The host's answer is lost or an error: the page quits, the host may have taken it.
LEMMA LostStep ==
  ASSUME KeyInv, Grows, NEW t \in Tabs, Quit(t), UNCHANGED <<db, locked, saved, made>>,
         host' \in [people : SUBSET Nat, records : SUBSET [key : Nat, unlock : {"passkey"}]],
         StoreFits'
  PROVE  KeyInv'
<1>1. Turned(t) /\ PageFits(pages[t])'
  BY Quits DEF Turned
<1>2. KeyTypes'
  BY <1>1 DEF KeyInv, KeyTypes, Turned
<1> QED
  BY <1>1, <1>2, PageMoves DEF Turned

LEMMA HostGrows ==
  ASSUME KeyInv, UNCHANGED <<db, locked>>, host.people \subseteq host'.people,
         host.records \subseteq host'.records
  PROVE  Grows /\ StoreFits'
BY DEF KeyInv, StoreFits, Grows, TrueOf

LEMMA JoinStep ==
  ASSUME KeyInv, NEW t \in Tabs, joinHostRoster(t)
  PROVE  KeyInv'
<1> USE DEF KeyInv
<1> DEFINE key == task(t).key
<1>1. UNCHANGED <<db, locked, saved, made>> /\ KeyTypes /\ task(t) \in TaskSet
  BY DEF joinHostRoster, KeyTypes, PageSet, task
<1>2. pages[t].shown.is = "person" /\ task(t).by = "joined" /\ key = db.person.key /\ key \in Nat
  <2>1. StoredFits(task(t), pages[t].shown.is) /\ At(t, "join", "post")
    BY DEF PageFits, task, joinHostRoster
  <2> QED
    BY <1>1, <2>1 DEF StoredFits, At, TaskSet
<1>3. CASE host' = [host EXCEPT !.people = @ \cup {key}]
  <2>1. /\ host'.people = host.people \cup {key} /\ host'.records = host.records
        /\ host' \in [people : SUBSET Nat, records : SUBSET [key : Nat, unlock : {"passkey"}]]
    BY <1>1, <1>2, <1>3 DEF KeyTypes
  <2>2. Grows /\ StoreFits'
    BY <1>1, <2>1, HostGrows
  <2>3. SaysTrue("joined", db.person.key)' /\ "joined" \in Marks
    BY <1>1, <1>2, <2>1 DEF SaysTrue, Marks
  <2>4. CASE Quit(t)
    BY <1>1, <2>1, <2>2, <2>4, LostStep
  <2>5. CASE pages' = [pages EXCEPT ![t].task = Marking(t)]
    BY <1>1, <1>2, <2>1, <2>2, <2>3, <2>5, MarkingStep
  <2> QED
    BY <1>2, <2>4, <2>5 DEF joinHostRoster
<1>4. CASE Quit(t) /\ UNCHANGED host
  BY <1>1, <1>4, QuitStep DEF Kept
<1> QED
  BY <1>3, <1>4 DEF joinHostRoster

LEMMA RecordStep ==
  ASSUME KeyInv, NEW t \in Tabs, runPasskeyCeremony(t) \/ storePasskeyRecord(t)
  PROVE  KeyInv'
<1> USE DEF KeyInv
<1>1. UNCHANGED <<db, locked, saved, made>> /\ KeyTypes /\ task(t) \in TaskSet /\ pages[t] \in PageSet
      /\ StoredFits(task(t), pages[t].shown.is) /\ task(t).op = "record"
  BY DEF runPasskeyCeremony, storePasskeyRecord, KeyTypes, PageSet, PageFits, task, At
<1>2. pages[t].shown.is = "person" /\ task(t).by = "recorded" /\ "recorded" \in Marks
  BY <1>1 DEF StoredFits, Marks
<1>3. CASE runPasskeyCeremony(t)
  <2>1. Kept /\ Grows /\ StoreFits'
    BY <1>1, <1>3 DEF runPasskeyCeremony, Kept, Grows, StoreFits, TrueOf
  <2>2. CASE Quit(t)
    BY <2>1, <2>2, QuitStep
  <2>3. CASE Begin(t, "record", "post", db.person.key, "recorded")
    <3> DEFINE key == db.person.key
    <3>1. key \in Nat /\ "record" \in Ops /\ "post" \in Steps
      BY <1>1 DEF KeyTypes, PersonSet, Ops, Steps
    <3>2. PICK k \in TaskSet : /\ k = [Resting EXCEPT !.op = "record", !.at = "post",
                                                     !.key = key, !.by = "recorded"]
                              /\ TaskIs(k, "record", "post", key, "recorded")
      BY <1>2, <3>1, BegunTask
    <3>3. pages' = [pages EXCEPT ![t].task = k]
      BY <2>3, <3>2 DEF Begin
    <3>4. pages'[t].shown.is = "person" /\ KeyTypes'
      BY <1>1, <1>2, <2>1, <3>3 DEF KeyTypes, PageSet, Kept
    <3>5. CreateFits(k)' /\ RejoinFits(k)' /\ RestoreFits(k)'
          /\ StoredFits(k, pages[t].shown.is)'
      BY <1>1, <1>2, <3>2, <3>4 DEF TaskIs, CreateFits, RejoinFits, RestoreFits, StoredFits
    <3> QED
      BY <2>1, <3>3, <3>4, <3>5, BeginStep
  <2> QED
    BY <1>3, <2>2, <2>3 DEF runPasskeyCeremony
<1>4. CASE storePasskeyRecord(t)
  <2> DEFINE key == task(t).key
  <2>1. key = db.person.key /\ key \in Nat /\ host' = hostStores(key)
    BY <1>1, <1>4 DEF storePasskeyRecord, StoredFits, At, TaskSet
  <2>2. CASE takesRecord(key)
    <3>1. wrapPersonKeyWithPasskey(key) \in [key : Nat, unlock : {"passkey"}]
      BY <2>1 DEF wrapPersonKeyWithPasskey, wrapWith
    <3>2. host' = [host EXCEPT !.records = @ \cup {wrapPersonKeyWithPasskey(key)}]
      BY <2>1, <2>2 DEF hostStores
    <3>3. /\ host'.people = host.people
          /\ host'.records = host.records \cup {wrapPersonKeyWithPasskey(key)}
          /\ host' \in [people : SUBSET Nat, records : SUBSET [key : Nat, unlock : {"passkey"}]]
      BY <1>1, <3>1, <3>2 DEF KeyTypes
    <3>4. Grows /\ StoreFits'
      BY <1>1, <3>3, HostGrows
    <3>5. SaysTrue("recorded", db.person.key)'
      BY <1>1, <2>1, <3>3 DEF SaysTrue, wrapPersonKeyWithPasskey
    <3>6. CASE Quit(t)
      BY <1>1, <3>3, <3>4, <3>6, LostStep
    <3>7. CASE pages' = [pages EXCEPT ![t].task = Marking(t)]
      BY <1>1, <1>2, <3>3, <3>4, <3>5, <3>7, MarkingStep
    <3> QED
      BY <1>4, <2>2, <3>6, <3>7 DEF storePasskeyRecord
  <2>3. CASE ~takesRecord(key)
    BY <1>1, <1>4, <2>1, <2>3, QuitStep DEF storePasskeyRecord, hostStores, Kept
  <2> QED
    BY <2>2, <2>3
<1> QED
  BY <1>3, <1>4

LEMMA VouchStep ==
  ASSUME KeyInv, NEW t \in Tabs, vouched(t) \/ turnedAway(t) \/ storeDeviceVouch(t)
  PROVE  KeyInv'
<1> USE DEF KeyInv
<1>1. KeyTypes /\ StoreFits /\ task(t) \in TaskSet /\ pages[t] \in PageSet /\ task(t).op = "rejoin"
      /\ task(t).key \in host.people /\ task(t).key \in Nat
      /\ UNCHANGED <<host, locked, saved, made>>
  BY DEF KeyTypes, PageSet, PageFits, RejoinFits, task, TaskSet, At, vouched, turnedAway,
         storeDeviceVouch
<1>2. CASE vouched(t)
  <2>1. Kept /\ Grows /\ "accept" \in Steps /\ Go(t, "accept")
    BY <1>1, <1>2 DEF vouched, Kept, Grows, Steps
  <2>2. /\ Turned(t) /\ SameView(t) /\ pages'[t].task = [task(t) EXCEPT !.at = "accept"]
    BY <1>1, <2>1, Goes
  <2>3. pages'[t].task.op = "rejoin" /\ pages'[t].task.key = task(t).key
    BY <1>1, <2>2 DEF TaskSet
  <2>4. PageFits(pages[t])'
    BY <1>1, <2>1, <2>2, <2>3, ShownStays
       DEF SameView, PageFits, CreateFits, RejoinFits, RestoreFits, StoredFits, Kept
  <2> QED
    BY <2>1, <2>2, <2>4, KeptGrows DEF Turned
<1>3. CASE turnedAway(t)
  BY <1>3, QuitStep DEF turnedAway, Kept
<1>4. CASE storeDeviceVouch(t)
  <2>1. CASE Quit(t) /\ UNCHANGED db
    BY <1>1, <2>1, QuitStep DEF Kept
  <2>2. CASE /\ db' = [db EXCEPT !.vouch = task(t).key]
             /\ pages' = [pages EXCEPT ![t].shown = vouchStatus(task(t).key),
                                       ![t].task = Resting, ![t].roster = {}]
    <3>1. db'.person = db.person /\ db'.vouch = task(t).key
          /\ db' \in [person : PersonSet, vouch : Nat]
      BY <1>1, <2>2 DEF KeyTypes
    <3>2. Grows /\ StoreFits'
      BY <1>1, <3>1 DEF Grows, StoreFits, TrueOf
    <3>3. vouchStatus(task(t).key) \in ShownSet /\ vouchStatus(task(t).key).is = "vouch"
      BY <1>1 DEF vouchStatus, Shows, Person, ShownSet, PersonSet, Marks
    <3>4. Turned(t) /\ pages'[t].task = Resting /\ pages'[t].roster = {}
          /\ pages'[t].shown = vouchStatus(task(t).key)
      BY <1>1, <2>2, <3>3, RestingTask DEF KeyTypes, Turned, PageSet
    <3>5. PageFits(pages[t])'
      BY <3>3, <3>4, RestingTask
         DEF PageFits, ShownFits, CreateFits, RejoinFits, RestoreFits, StoredFits
    <3>6. KeyTypes'
      BY <1>1, <3>1, <3>4 DEF KeyTypes, Turned
    <3> QED
      BY <3>2, <3>4, <3>5, <3>6, PageMoves DEF Turned
  <2> QED
    BY <1>4, <2>1, <2>2 DEF storeDeviceVouch
<1> QED
  BY <1>2, <1>3, <1>4

LEMMA ClosedFits ==
  /\ Closed \in PageSet
  /\ PageFits(Closed)
  /\ PageFits(Closed)'
<1>1. Closed \in PageSet /\ Closed.shown.is = "unknown" /\ Closed.roster = {}
      /\ Closed.task = Resting
  BY RestingTask DEF Closed, PageSet, ShownSet, Unknown
<1> QED
  BY <1>1, RestingTask
     DEF PageFits, ShownFits, CreateFits, RejoinFits, RestoreFits, StoredFits

LEMMA MoveStep == KeyInv /\ newOrigin => KeyInv'
<1> SUFFICES ASSUME KeyInv, newOrigin PROVE KeyInv'
  OBVIOUS
<1>1. StoreFits'
  BY DEF newOrigin, StoreFits, TrueOf, Nobody
<1>2. KeyTypes'
  BY ClosedFits, RestingTask DEF newOrigin, KeyInv, KeyTypes
<1>3. ASSUME NEW t \in Tabs PROVE PageFits(pages[t])'
  <2>1. pages'[t] = Closed
    BY DEF newOrigin
  <2> QED
    BY <2>1, ClosedFits DEF PageFits
<1> QED
  BY <1>1, <1>2, <1>3 DEF KeyInv

LEMMA KeyStart == KeyInit => KeyInv
<1> SUFFICES ASSUME KeyInit PROVE KeyInv
  OBVIOUS
<1>1. StoreFits
  BY DEF KeyInit, StoreFits, TrueOf, Nobody
<1>2. KeyTypes
  BY ClosedFits, RestingTask DEF KeyInit, KeyTypes
<1>3. ASSUME NEW t \in Tabs PROVE PageFits(pages[t])
  BY ClosedFits DEF KeyInit
<1> QED
  BY <1>1, <1>2, <1>3 DEF KeyInv

LEMMA KeyStep == KeyInv /\ [KeyNext]_keyVars => KeyInv'
<1> SUFFICES ASSUME KeyInv, [KeyNext]_keyVars PROVE KeyInv'
  OBVIOUS
<1>1. ASSUME NEW t \in Tabs, Worker(t) PROVE KeyInv'
  BY <1>1, ReadStep, CreateStep, RestoreStep, ClearStep, MarkStep DEF Worker
<1>2. ASSUME NEW t \in Tabs, Answers(t) \/ vouched(t) PROVE KeyInv'
  BY <1>2, ReadStep, VouchStep, JoinStep, BackupStep, RecordStep DEF Answers
<1>3. ASSUME NEW t \in Tabs, Acts(t) PROVE KeyInv'
  BY <1>3, OpenStep, PersonStep, BackupStep DEF Acts
<1>4. CASE UNCHANGED keyVars
  BY <1>4 DEF keyVars, KeyInv, KeyTypes, StoreFits, TrueOf, PageFits, ShownFits, CreateFits,
              RejoinFits, RestoreFits, StoredFits, SaysTrue
<1> QED
  BY <1>1, <1>2, <1>3, <1>4, MoveStep DEF KeyNext

LEMMA KeyInvariant == KeySpec => []KeyInv
<1> QED
  BY KeyStart, KeyStep, PTL DEF KeySpec

\* Whichever tab made, joined with or restored a key, every page shows the one that is
\* stored (personKey.ts, provenanceDatabase.ts, usePersonKey.ts).
THEOREM TheShownKeyIsStored == KeySpec => []ShownIsStored
<1>1. KeyInv => ShownIsStored
  BY DEF KeyInv, PageFits, ShownFits, ShownIsStored
<1> QED
  BY <1>1, KeyInvariant, PTL

\* A mark is written only after what it says, for the key it says it of, through every
\* await in between (personKeyRequests.ts, personKey.ts).
THEOREM TheMarksAreTrue == KeySpec => []MarksAreTrue
<1>1. KeyInv => MarksAreTrue
  BY DEF KeyInv, StoreFits, PageFits, ShownFits, MarksAreTrue
<1> QED
  BY <1>1, KeyInvariant, PTL

\* Steps are counted, so that a move shows.
SpentCounts == spent \in [opens : Nat, faults : Nat, moves : Nat]

LEMMA SpentStep == SpentCounts /\ [KeyNext]_keyVars => SpentCounts'
<1> SUFFICES ASSUME SpentCounts, [KeyNext]_keyVars PROVE SpentCounts'
  OBVIOUS
<1>1. ASSUME NEW what \in {"opens", "faults", "moves"}, Spend(what) PROVE SpentCounts'
  BY <1>1 DEF Spend, SpentCounts
<1>2. CASE UNCHANGED spent
  BY <1>2 DEF SpentCounts
<1>3. ASSUME NEW t \in Tabs, Worker(t) PROVE UNCHANGED spent
  BY <1>3 DEF Worker, loadPersonIdentity, loadDeviceVouch, createPersonIdentity, addCreated,
     readWinner, takeUpPersonKey, restorePersonIdentity, storeRestored, clearDeviceVouch,
     markStored, updateStored, putRecord
<1>4. ASSUME NEW t \in Tabs, Answers(t) \/ vouched(t)
      PROVE  UNCHANGED spent \/ Spend("faults")
  BY <1>4 DEF Answers, vouched, fetchRoster, turnedAway, storeDeviceVouch, joinHostRoster,
     checkPersonKeyBackup, runPasskeyCeremony, storePasskeyRecord, Fault
<1>5. ASSUME NEW t \in Tabs, Acts(t) PROVE UNCHANGED spent \/ Spend("opens")
  BY <1>5 DEF Acts, openPage, onNew, askForVouch, restoreWith, signJoinRequest,
     backUpPersonKey, saveBackupFile, protect, closePage
<1>6. CASE newOrigin
  BY <1>1, <1>6 DEF newOrigin
<1>7. CASE UNCHANGED keyVars
  BY <1>2, <1>7 DEF keyVars
<1> QED
  BY <1>1, <1>2, <1>3, <1>4, <1>5, <1>6, <1>7 DEF KeyNext

\* Only four steps write the stored identity, and each knows its key.
LEMMA KeyIsKept ==
  ASSUME KeyInv, NEW t \in Tabs, Worker(t) \/ Answers(t) \/ vouched(t) \/ Acts(t)
  PROVE  ~Exists(db.person) \/ db'.person.key = db.person.key
<1> USE DEF KeyInv
<1>1. db \in [person : PersonSet, vouch : Nat]
  BY DEF KeyTypes
<1>2. CASE addCreated(t)
  BY <1>1, <1>2 DEF addCreated, addRecord
<1>3. CASE storeRestored(t)
  <2>1. RestoreFits(task(t))
    BY DEF PageFits, task
  <2> QED
    BY <1>1, <1>3, <2>1 DEF storeRestored, addRecord, RestoreFits
<1>4. CASE putRecord(t)
  <2>1. StoredFits(task(t), pages[t].shown.is)
    BY DEF PageFits, task
  <2>2. task(t).held.key = db.person.key
    BY <1>4, <2>1 DEF putRecord, At, StoredFits
  <2> QED
    BY <1>1, <1>4, <2>2 DEF putRecord, Person
<1>5. CASE clearDeviceVouch(t) \/ storeDeviceVouch(t)
  BY <1>1, <1>5 DEF clearDeviceVouch, storeDeviceVouch
<1>6. CASE UNCHANGED db
  BY <1>6
<1>7. CASE Worker(t)
  BY <1>2, <1>3, <1>4, <1>5, <1>6, <1>7
     DEF Worker, loadPersonIdentity, loadDeviceVouch, createPersonIdentity, readWinner,
         takeUpPersonKey, restorePersonIdentity, markStored, updateStored
<1>8. CASE Answers(t) \/ vouched(t)
  BY <1>5, <1>6, <1>8
     DEF Answers, vouched, fetchRoster, turnedAway, joinHostRoster, checkPersonKeyBackup,
         runPasskeyCeremony, storePasskeyRecord
<1>9. CASE Acts(t)
  BY <1>6, <1>9 DEF Acts, openPage, onNew, askForVouch, restoreWith, signJoinRequest,
     backUpPersonKey, saveBackupFile, protect, closePage
<1> QED
  BY <1>7, <1>8, <1>9

\* A stored key stays until the storage is lost: of two tabs that add one, the second
\* takes the first's (addRecord of provenanceDatabase.ts).
THEOREM TheKeyStays == KeySpec => KeyStays
<1>1. KeyInit => SpentCounts
  BY DEF KeyInit, SpentCounts
<1>2. ASSUME KeyInv, SpentCounts, [KeyNext]_keyVars
      PROVE  [\/ ~Exists(db.person)
              \/ db'.person.key = db.person.key
              \/ spent'.moves # spent.moves]_keyVars
  <2>1. CASE newOrigin
    BY <1>2, <2>1 DEF newOrigin, Spend, SpentCounts
  <2>2. CASE UNCHANGED keyVars
    BY <2>2
  <2> QED
    BY <1>2, <2>1, <2>2, KeyIsKept DEF KeyNext
<1> QED
  BY <1>1, <1>2, SpentStep, KeyInvariant, PTL DEF KeySpec, KeyStays
=============================================================================
