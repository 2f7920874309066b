------------------------------- MODULE PlayQueue -------------------------------
(***************************************************************************)
(* The guest's side of the play counts: the stored queues of eventQueue.ts *)
(* and the flushing hook of usePlayEventQueue.ts.                          *)
(*                                                                         *)
(* Queues live in localStorage, one per host, and are shared by all tabs   *)
(* of the origin; what is in flight, what is pending and which retry       *)
(* timers are armed belongs to one tab.  The host is its contract only:    *)
(* it answers a batch event by event, refuses it whole, or is not reached. *)
(***************************************************************************)
EXTENDS Naturals, Sequences, SequencesExt

CONSTANTS
    Tabs,          \* mounted copies of the app that share one localStorage
    Hosts,         \* the hosts a device may know, one queue each
    LocalHost,     \* the device's own host, if it is one
    Cap,           \* DEFAULT_MAX_QUEUED_EVENTS
    MaxPlays,      \* bound: plays recorded in a behaviour
    MayRefuse      \* whether a host may answer 400, 413 or 415

ASSUME QueueAssumption ==
    /\ Cap \in Nat \ {0}
    /\ MaxPlays \in Nat
    /\ MayRefuse \in BOOLEAN

Plays == 1 .. MaxPlays      \* play n is the n-th one recorded

VARIABLES
    queue,      \* queue[h]: the stored queue for host h
    plays,      \* plays recorded so far
    mounted,    \* tabs whose hook is mounted
    known,      \* known[t]: endpointsRef of tab t
    flight,     \* flight[t][h]: the flush of tab t to host h
    pending,    \* pending[t]: hosts asked for while a flush was open
    timers,     \* timers[t]: hosts with a retry timer armed
    taken,      \* taken[h]: plays host h has stored, or rejected for good
    dropped     \* ghost: plays the cap pushed out or a refusal wiped

vars == <<queue, plays, mounted, known, flight, pending, timers, taken, dropped>>

NoFlight   == [stage |-> "none", batch |-> <<>>, keep |-> {}]
Sent(q)    == [stage |-> "sent", batch |-> q, keep |-> {}]
Open(t, h) == flight[t][h].stage # "none"

\* resolveEventTarget: a remote host when one is known, else the device's own.
Targets(t) ==
    IF known[t] \ {LocalHost} # {} THEN known[t] \ {LocalHost} ELSE known[t]

\* enqueueEvent: append, dropping the oldest beyond the cap.
Enqueued(q, e) ==
    LET longer == Append(q, e)
    IN IF Len(longer) > Cap THEN Tail(longer) ELSE longer

(***************************************************************************)
(* flushEndpoint of tab t, called for every host in H when the stored      *)
(* queues are q.  A host with an open flush is remembered as pending.  An  *)
(* empty queue settles at once, which disarms the retry timer.             *)
(***************************************************************************)
Begins(t, H)    == {h \in H : ~Open(t, h)}
Empties(t, H, q) == {h \in Begins(t, H) : q[h] = <<>>}

\* Mutant: what is asked for during a flush is not remembered.
FlushEndpoints_Forgets(t, H, q) ==
    /\ flight' = [flight EXCEPT ![t] = [h \in Hosts |->
                     IF h \in Begins(t, H) \ Empties(t, H, q) THEN Sent(q[h])
                                                             ELSE @[h]]]
    /\ pending' = [pending EXCEPT ![t] = @ \ Begins(t, H)]

FlushEndpoints(t, H, q) ==
    /\ flight' = [flight EXCEPT ![t] = [h \in Hosts |->
                     IF h \in Begins(t, H) \ Empties(t, H, q) THEN Sent(q[h])
                                                             ELSE @[h]]]
    /\ pending' = [pending EXCEPT ![t] = (@ \cup H) \ Begins(t, H)]

Flush(t, H, q) ==
    /\ FlushEndpoints(t, H, q)
    /\ timers' = [timers EXCEPT ![t] = @ \ Empties(t, H, q)]

-----------------------------------------------------------------------------
Init ==
    /\ queue = [h \in Hosts |-> <<>>]
    /\ plays = 0
    /\ mounted = {}
    /\ known \in [Tabs -> SUBSET Hosts]
    /\ flight = [t \in Tabs |-> [h \in Hosts |-> NoFlight]]
    /\ pending = [t \in Tabs |-> {}]
    /\ timers = [t \in Tabs |-> {}]
    /\ taken = [h \in Hosts |-> {}]
    /\ dropped = {}

\* Mount, and every later trigger of flushAll (online, visible, a new token).
Mount(t) ==
    /\ t \notin mounted
    /\ \A h \in Hosts : ~Open(t, h)
    /\ mounted' = mounted \cup {t}
    /\ Flush(t, known[t], queue)
    /\ UNCHANGED <<queue, plays, known, taken, dropped>>

FlushAll(t) ==
    /\ t \in mounted
    /\ Flush(t, known[t], queue)
    /\ UNCHANGED <<queue, plays, mounted, known, taken, dropped>>

\* A host is paired or forgotten: the list changes and its effect flushes all.
SetEndpoints(t, H) ==
    /\ known[t] # H
    /\ known' = [known EXCEPT ![t] = H]
    /\ IF t \in mounted
         THEN Flush(t, H, queue)
         ELSE UNCHANGED <<flight, pending, timers>>
    /\ UNCHANGED <<queue, plays, mounted, taken, dropped>>

Unmount(t) ==
    /\ t \in mounted
    /\ mounted' = mounted \ {t}
    /\ timers' = [timers EXCEPT ![t] = {}]
    /\ pending' = [pending EXCEPT ![t] = {}]
    /\ UNCHANGED <<queue, plays, known, flight, taken, dropped>>

\* The page itself closes: nobody is left to read the answer.
Abandon(t, h) ==
    /\ t \notin mounted
    /\ Open(t, h)
    /\ flight' = [flight EXCEPT ![t][h] = NoFlight]
    /\ UNCHANGED <<queue, plays, mounted, known, pending, timers, taken, dropped>>

\* recordPlaySession; with no host known the play is not recorded at all.
RecordPlay(t, h) ==
    /\ t \in mounted
    /\ h \in Targets(t)
    /\ plays < MaxPlays
    /\ plays' = plays + 1
    /\ queue' = [queue EXCEPT ![h] = Enqueued(@, plays')]
    /\ dropped' = dropped \cup (ToSet(queue[h]) \ ToSet(queue'[h]))
    /\ Flush(t, {h}, queue')
    /\ UNCHANGED <<mounted, known, taken>>

TimerFires(t, h) ==
    /\ h \in timers[t]
    /\ timers' = [timers EXCEPT ![t] = @ \ {h}]
    /\ IF h \in known[t]
         THEN FlushEndpoints(t, {h}, queue)
         ELSE UNCHANGED <<flight, pending>>
    /\ UNCHANGED <<queue, plays, mounted, known, taken, dropped>>

-----------------------------------------------------------------------------
(***************************************************************************)
(* The other end of the request.                                           *)
(***************************************************************************)
\* 200: the host has done with the events it accepted, had already, or will
\* never accept; those in keep were rejected as retryable or not mentioned.
HostAnswers(t, h, keep) ==
    /\ flight[t][h].stage = "sent"
    /\ keep \subseteq ToSet(flight[t][h].batch)
    /\ taken' = [taken EXCEPT ![h] = @ \cup (ToSet(flight[t][h].batch) \ keep)]
    /\ flight' = [flight EXCEPT ![t][h].stage = "answered", ![t][h].keep = keep]
    /\ UNCHANGED <<queue, plays, mounted, known, pending, timers, dropped>>

HostRefuses(t, h) ==
    /\ MayRefuse
    /\ flight[t][h].stage = "sent"
    /\ flight' = [flight EXCEPT ![t][h].stage = "refused"]
    /\ UNCHANGED <<queue, plays, mounted, known, pending, timers, taken, dropped>>

\* 401, 405, 429 or 500: the token was dropped, the host has no such route yet,
\* the connection's budget is spent, or the store failed.  Nothing is taken.
HostTurnsAway(t, h) ==
    /\ flight[t][h].stage = "sent"
    /\ flight' = [flight EXCEPT ![t][h].stage = "failed"]
    /\ UNCHANGED <<queue, plays, mounted, known, pending, timers, taken, dropped>>

\* Unreachable before it took the batch, or the answer is lost or unreadable.
FetchFails(t, h) ==
    /\ flight[t][h].stage \in {"sent", "answered"}
    /\ flight' = [flight EXCEPT ![t][h].stage = "failed"]
    /\ UNCHANGED <<queue, plays, mounted, known, pending, timers, taken, dropped>>

-----------------------------------------------------------------------------
(***************************************************************************)
(* The rest of flushQueue and flushEndpoint once the request has settled.  *)
(***************************************************************************)
\* The members of S in q, in their order (Array.filter).  A recursive function,
\* which can be reasoned about, where SelectSeq cannot.
Filtered(q, S) ==
    LET kept[i \in 0 .. Len(q)] ==
            IF i = 0 THEN <<>>
            ELSE IF q[i] \in S THEN Append(kept[i - 1], q[i])
                               ELSE kept[i - 1]
    IN kept[Len(q)]

\* Mutant: what was not taken of the batch is written back over the queue.
AfterFlush_Stale(f, q) ==
    CASE f.stage = "failed"   -> q
      [] f.stage = "refused"  -> <<>>
      [] f.stage = "answered" -> Filtered(f.batch, f.keep)

\* Mutant: what can be retried goes to the end of the queue.
AfterFlush_Requeues(f, q) ==
    CASE f.stage = "failed"   -> q
      [] f.stage = "refused"  -> <<>>
      [] f.stage = "answered" ->
            Filtered(q, Plays \ ToSet(f.batch)) \o Filtered(q, ToSet(f.batch) \cap f.keep)

\* The stored queue is read again: plays recorded meanwhile are in it.
AfterFlush(f, q) ==
    CASE f.stage = "failed"   -> q
      [] f.stage = "refused"  -> <<>>
      [] f.stage = "answered" -> Filtered(q, (Plays \ ToSet(f.batch)) \cup f.keep)

\* Mutant: any answer counts as settled, also one that left events to retry.
Settled_AnyAnswer(f) == f.stage # "failed"

Settled(f) == f.stage = "refused" \/ (f.stage = "answered" /\ f.keep = {})

FlushEnds(t, h) ==
    LET f     == flight[t][h]
        again == Settled(f) /\ h \in pending[t]
    IN /\ f.stage \in {"answered", "refused", "failed"}
       /\ queue' = [queue EXCEPT ![h] = AfterFlush(f, @)]
       /\ dropped' = IF f.stage = "refused" THEN dropped \cup ToSet(queue[h])
                                            ELSE dropped
       /\ flight' = [flight EXCEPT ![t][h] =
                        IF again /\ queue'[h] # <<>> THEN Sent(queue'[h])
                                                     ELSE NoFlight]
       /\ pending' = IF again THEN [pending EXCEPT ![t] = @ \ {h}] ELSE pending
       /\ timers' = IF t \notin mounted THEN timers
                    ELSE IF Settled(f) THEN [timers EXCEPT ![t] = @ \ {h}]
                                       ELSE [timers EXCEPT ![t] = @ \cup {h}]
       /\ UNCHANGED <<plays, mounted, known, taken>>

-----------------------------------------------------------------------------
Next ==
    \E t \in Tabs :
        \/ Mount(t)
        \/ FlushAll(t)
        \/ \E H \in SUBSET Hosts : SetEndpoints(t, H)
        \/ Unmount(t)
        \/ \E h \in Hosts :
              \/ Abandon(t, h)
              \/ RecordPlay(t, h)
              \/ TimerFires(t, h)
              \/ \E keep \in SUBSET Plays : HostAnswers(t, h, keep)
              \/ HostRefuses(t, h)
              \/ HostTurnsAway(t, h)
              \/ FetchFails(t, h)
              \/ FlushEnds(t, h)

Spec == Init /\ [][Next]_vars

-----------------------------------------------------------------------------
Flights == [stage : {"none", "sent", "answered", "refused", "failed"},
            batch : Seq(Plays), keep : SUBSET Plays]

(***************************************************************************)
(* Every variable keeps its type, and no queue outgrows the cap, so that a *)
(* full queue fits the host's batch limit (eventQueue.ts).                 *)
(***************************************************************************)
TypeOK ==
    /\ queue \in [Hosts -> Seq(Plays)]
    /\ \A h \in Hosts : Len(queue[h]) <= Cap
    /\ plays \in 0 .. MaxPlays
    /\ mounted \subseteq Tabs
    /\ known \in [Tabs -> SUBSET Hosts]
    /\ flight \in [Tabs -> [Hosts -> Flights]]
    /\ pending \in [Tabs -> SUBSET Hosts]
    /\ timers \in [Tabs -> SUBSET Hosts]
    /\ taken \in [Hosts -> SUBSET Plays]
    /\ dropped \subseteq Plays

(***************************************************************************)
(* A recorded play is queued, or a host has answered for it, or it was     *)
(* dropped with the cap or by the host's refusal of a whole batch.         *)
(* Above all a play recorded while a flush is open survives the answer     *)
(* ("writing back a batch that predates it would throw that play away").   *)
(***************************************************************************)
PlaysAccountedFor ==
    \A e \in 1 .. plays :
        \/ e \in dropped
        \/ \E h \in Hosts : e \in ToSet(queue[h]) \cup taken[h]

(***************************************************************************)
(* A refusal costs the batch that was refused and no play recorded while   *)
(* it was out (the comment in flushQueue).  The code writes an empty queue *)
(* instead: see the disagreements in the README.                           *)
(***************************************************************************)
RefusalSparesLaterPlays ==
    [][\A t \in Tabs, h \in Hosts :
          flight[t][h].stage = "refused" /\ flight[t][h] # flight'[t][h] /\ t \in mounted
          => ToSet(queue[h]) \ ToSet(flight[t][h].batch) \subseteq ToSet(queue'[h])]_vars

(***************************************************************************)
(* Each queue stays in the order the plays finished, without repetition,   *)
(* whatever answers and tabs interleave; the cap can then drop the oldest  *)
(* by position, and a batch never repeats an id.                           *)
(***************************************************************************)
QueueInOrder ==
    \A h \in Hosts : \A i, j \in 1 .. Len(queue[h]) :
        i < j => queue[h][i] < queue[h][j]

Attended(h) == mounted = Tabs /\ \A t \in Tabs : h \in known[t]

(***************************************************************************)
(* While every tab is open and knows the host, a queued play never waits   *)
(* for a reconnect or a reload: a flush to that host is open or a retry    *)
(* timer is armed ("forgetting it would leave that play waiting for the    *)
(* next reconnect", usePlayEventQueue.ts).                                 *)
(***************************************************************************)
NoStrandedPlay ==
    \A h \in Hosts :
        Attended(h) /\ queue[h] # <<>> =>
            \E t \in Tabs : Open(t, h) \/ h \in timers[t]
=============================================================================
