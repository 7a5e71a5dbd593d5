------------------------------ MODULE Webhooks ------------------------------
(***************************************************************************)
(* Delivery of registry events to webhooks.  fireWebhooks does not await   *)
(* its deliveries; a delivery that failed waits in retryQueue until a tick *)
(* of the retry timer takes it.  processRetryQueue awaits its deliveries   *)
(* one after the other, which may take longer than the timer's interval:   *)
(* runs of it overlap.  The timer is cleared by a run that ends with an    *)
(* empty queue, and set by a delivery that fills it.                       *)
(***************************************************************************)
EXTENDS Integers, Sequences, FiniteSets

CONSTANTS
    Deliveries,  \* one for each event and webhook that wants it
    Runs,        \* bound: runs of processRetryQueue that overlap
    MAX_RETRIES

ASSUME WebhookAssumption == MAX_RETRIES \in Nat

VARIABLES
    firing,      \* deliveries whose first send is under way
    retryQueue,  \* entries; ripe once their nextRetryAt has passed
    run,         \* what each run sends, and the entries it took
    retryTimer,  \* the interval is set
    outcome      \* of each delivery

vars == <<firing, retryQueue, run, retryTimer, outcome>>

Idle == [sending |-> "nothing"]

QueueEntry == [delivery: Deliveries, attempt: 1..MAX_RETRIES, ripe: BOOLEAN]

-----------------------------------------------------------------------------
(* deliverWithRetry *)

\* variant: one attempt more
RetriesOnceMore(attempt) == attempt <= MAX_RETRIES

Retries(attempt) == attempt < MAX_RETRIES

\* nextRetryAt lies in the future
Entry(d, attempt) == [delivery |-> d, attempt |-> attempt, ripe |-> FALSE]

QueueAfter(d, attempt, ok) ==
    IF ~ok /\ Retries(attempt)
    THEN Append(retryQueue, Entry(d, attempt + 1))
    ELSE retryQueue

\* ensureRetryTimer
TimerAfter(attempt, ok) == retryTimer \/ (~ok /\ Retries(attempt))

OutcomeAfter(d, attempt, ok) ==
    [outcome EXCEPT ![d] = IF ok THEN "delivered"
                           ELSE IF Retries(attempt) THEN "open" ELSE "failed"]

-----------------------------------------------------------------------------
\* fireWebhooks: the deliveries D of one event begin together
NewDeliveries == {d \in Deliveries : outcome[d] = "new"}

Fire(D) ==
    /\ D \subseteq NewDeliveries
    /\ outcome' = [d \in Deliveries |-> IF d \in D THEN "open" ELSE outcome[d]]
    /\ firing' = firing \cup D
    /\ UNCHANGED <<retryQueue, run, retryTimer>>

\* The receiver answers with success or not, or ten seconds are over.
FireEnds(d) ==
    \E ok \in BOOLEAN :
        /\ d \in firing
        /\ firing' = firing \ {d}
        /\ retryQueue' = QueueAfter(d, 0, ok)
        /\ retryTimer' = TimerAfter(0, ok)
        /\ outcome' = OutcomeAfter(d, 0, ok)
        /\ UNCHANGED run

\* The loop over the queue puts each entry into one of two lists, in order: the
\* entries at the indices I, the one at the k-th of them as the k-th.
Nth(I, k) == CHOOSE i \in I : Cardinality({j \in I : j <= i}) = k
Entries(I) == [k \in 1..Cardinality(I) |-> retryQueue[Nth(I, k)]]

Ripe == {i \in DOMAIN retryQueue : retryQueue[i].ripe}

Ripen(i) ==
    /\ i \in DOMAIN retryQueue
    /\ ~retryQueue[i].ripe
    /\ retryQueue' = [retryQueue EXCEPT ![i].ripe = TRUE]
    /\ UNCHANGED <<firing, run, retryTimer, outcome>>

\* variant: the entries taken stay in the queue
EverythingRemains == retryQueue

Remaining == Entries(DOMAIN retryQueue \ Ripe)

\* The next entry of a run's list, or its end.
Continue(ready) ==
    IF ready = <<>> THEN Idle
    ELSE [sending |-> Head(ready), ready |-> Tail(ready)]

\* variant: the run that ends clears the timer
AlwaysCleared(next, queue, timer) == timer /\ next # Idle

\* A run that ends clears the timer if the queue is empty now.
TimerOnceRan(next, queue, timer) == timer /\ ~(next = Idle /\ queue = <<>>)

\* processRetryQueue up to its first await, or to its end if nothing is ripe.
StartRun(r) ==
    /\ retryTimer
    /\ run[r] = Idle
    /\ run' = [run EXCEPT ![r] = Continue(Entries(Ripe))]
    /\ retryQueue' = Remaining
    /\ retryTimer' = TimerOnceRan(run'[r], retryQueue', retryTimer)
    /\ UNCHANGED <<firing, outcome>>

\* One of its deliveries ends.
RunContinues(r) ==
    \E ok \in BOOLEAN :
        LET e == run[r].sending
        IN  /\ run[r] # Idle
            /\ run' = [run EXCEPT ![r] = Continue(@.ready)]
            /\ retryQueue' = QueueAfter(e.delivery, e.attempt, ok)
            /\ retryTimer' = TimerOnceRan(run'[r], retryQueue',
                                            TimerAfter(e.attempt, ok))
            /\ outcome' = OutcomeAfter(e.delivery, e.attempt, ok)
            /\ UNCHANGED firing

\* The queue, the timer and everything under way are in memory.
Crash ==
    /\ firing' = {} /\ retryQueue' = <<>> /\ retryTimer' = FALSE
    /\ run' = [r \in Runs |-> Idle]
    /\ outcome' = [d \in Deliveries |->
                      IF outcome[d] = "open" THEN "lost" ELSE outcome[d]]

Init ==
    /\ firing = {} /\ retryQueue = <<>> /\ retryTimer = FALSE
    /\ run = [r \in Runs |-> Idle]
    /\ outcome = [d \in Deliveries |-> "new"]

\* what goes on without a request
Deliver ==
    \/ \E d \in Deliveries : FireEnds(d)
    \/ \E i \in DOMAIN retryQueue : Ripen(i)
    \/ \E r \in Runs : StartRun(r) \/ RunContinues(r)

Next ==
    \/ \E D \in SUBSET Deliveries : D # {} /\ Fire(D)
    \/ Deliver
    \/ Crash

Spec == Init /\ [][Next]_vars

RipenAny == \E i \in DOMAIN retryQueue : Ripen(i)

\* Sends end by their abort signal, delays pass, and the interval fires while it
\* is set.
Fairness ==
    /\ \A d \in Deliveries : WF_vars(FireEnds(d))
    /\ \A r \in Runs : WF_vars(RunContinues(r))
    /\ WF_vars(RipenAny)
    /\ WF_vars(\E r \in Runs : StartRun(r))

FairSpec == Spec /\ Fairness

-----------------------------------------------------------------------------
(* Properties *)

Busy == {r \in Runs : run[r] # Idle}

\* Every variable has its type; no entry exceeds the number of retries.
TypeOK ==
    /\ firing \subseteq Deliveries
    /\ retryQueue \in Seq(QueueEntry)
    /\ \A r \in Busy : /\ run[r].sending \in QueueEntry
                       /\ run[r].ready \in Seq(QueueEntry)
    /\ retryTimer \in BOOLEAN
    /\ outcome \in [Deliveries -> {"new", "open", "delivered", "failed", "lost"}]

\* The ways a delivery may be under way: its first send, the queue, a run.
Places(d) ==
    (IF d \in firing THEN {<<"firing">>} ELSE {})
    \cup {<<"queue", i>> : i \in {j \in DOMAIN retryQueue :
                                      retryQueue[j].delivery = d}}
    \cup {<<"sending", r>> : r \in {s \in Busy : run[s].sending.delivery = d}}
    \cup UNION {{<<"ready", r, i>> : i \in {j \in DOMAIN run[r].ready :
                                      run[r].ready[j].delivery = d}} : r \in Busy}

\* However runs overlap, a delivery that is open is in exactly one place, and
\* one that ended in none: nothing is dropped, and nothing is sent by two runs.
InOnePlace ==
    \A d \in Deliveries :
        IF outcome[d] = "open" THEN \E p \in Places(d) : Places(d) = {p}
                               ELSE Places(d) = {}

\* No run clears the timer from under an entry that another one just queued, and
\* an entry has not been tried too often.
QueueHasTimer ==
    retryQueue # <<>> => /\ retryTimer
                         /\ \A i \in DOMAIN retryQueue :
                                retryQueue[i].attempt <= MAX_RETRIES

\* Every delivery succeeds, fails for the last time, or is lost in a crash, and
\* the timer does not keep ticking once nothing is left to retry.
DeliveriesEnd ==
    /\ \A d \in Deliveries :
        (outcome[d] = "open") ~> (outcome[d] \in {"delivered", "failed", "lost"})
    /\ []<>(retryTimer = FALSE)
=============================================================================
