--------------------------- MODULE WebhooksProofs ---------------------------
(***************************************************************************)
(* Deliveries and webhook configurations for any organisations, events,    *)
(* deliveries and number of overlapping runs.  A run that sends an entry   *)
(* and has others left is here the list of all of them: the invariant is   *)
(* about which deliveries are in which list.                               *)
(***************************************************************************)
EXTENDS WebhookConfigs, FiniteSetTheorems, SequenceTheorems, TLAPS

\* What a run has taken and not finished, the entry it sends included
Listed(state) == IF state = Idle THEN <<>> ELSE <<state.sending>> \o state.ready

Of(list) == {list[i].delivery : i \in DOMAIN list}

\* No delivery is in a list twice.
Distinct(list) ==
    \A i, j \in DOMAIN list : list[i].delivery = list[j].delivery => i = j

RunStates == {Idle} \cup [sending: QueueEntry, ready: Seq(QueueEntry)]

Outcomes == {"new", "open", "delivered", "failed", "lost"}

Typed ==
    /\ firing \subseteq Deliveries
    /\ retryQueue \in Seq(QueueEntry)
    /\ run \in [Runs -> RunStates]
    /\ retryTimer \in BOOLEAN
    /\ outcome \in [Deliveries -> Outcomes]

NoneTwice ==
    /\ Distinct(retryQueue)
    /\ \A r \in Runs : Distinct(Listed(run[r]))

\* Nor is it in two of them: they are first sends, the queue and the runs.
NoneInTwo ==
    /\ firing \cap Of(retryQueue) = {}
    /\ \A r \in Runs : Of(Listed(run[r])) \cap (firing \cup Of(retryQueue)) = {}
    /\ \A r, s \in Runs : r # s => Of(Listed(run[r])) \cap Of(Listed(run[s])) = {}

\* Those that are open are in one of them, the others in none.
Somewhere ==
    \A d \in Deliveries :
        outcome[d] = "open" <=> \/ d \in firing
                                \/ d \in Of(retryQueue)
                                \/ \E r \in Runs : d \in Of(Listed(run[r]))

QueueTimed == retryQueue # <<>> => retryTimer

\* What a configuration that was deleted has left behind is no row.
DeletedGone == deleted \cap DOMAIN configs = {}

DeliveryInv == Typed /\ NoneTwice /\ NoneInTwo /\ Somewhere /\ QueueTimed

WebhooksInv == DeliveryInv /\ DeletedGone

-----------------------------------------------------------------------------
(* The loop that splits the queue *)

\* How many of the indices I come up to i
Rank(I, i) == Cardinality({j \in I : j <= i})

\* Ranks number the members of a set of places from one, in order.
LEMMA RanksAscend ==
  ASSUME NEW n \in Nat, NEW I \in SUBSET (1..n)
  PROVE  /\ IsFiniteSet(I) /\ Cardinality(I) \in Nat
         /\ \A i \in I : Rank(I, i) \in 1..Cardinality(I)
         /\ \A i, j \in I : i < j => Rank(I, i) < Rank(I, j)
<1>1. IsFiniteSet(I)
  <2>1. IsFiniteSet(1..n)
    BY FS_Interval
  <2> QED
    BY <2>1, FS_Subset
<1>2. Cardinality(I) \in Nat
  BY <1>1, FS_CardinalityType
<1> DEFINE Upto(i) == {j \in I : j <= i}
<1>3. ASSUME NEW i \in I
      PROVE  /\ IsFiniteSet(Upto(i)) /\ Cardinality(Upto(i)) \in Nat
             /\ Cardinality(Upto(i)) <= Cardinality(I)
             /\ Cardinality(Upto(i)) # 0
  <2>1. IsFiniteSet(Upto(i)) /\ Cardinality(Upto(i)) <= Cardinality(I)
    BY <1>1, FS_Subset
  <2>2. i \in Upto(i)
    OBVIOUS
  <2> HIDE DEF Upto
  <2>3. Cardinality(Upto(i)) \in Nat
    BY <2>1, FS_CardinalityType
  <2> QED
    BY <2>1, <2>2, <2>3, FS_EmptySet
<1>4. ASSUME NEW i \in I, NEW j \in I, i < j
      PROVE  Cardinality(Upto(i)) < Cardinality(Upto(j))
  <2>1. Upto(i) \in SUBSET Upto(j) /\ j \in Upto(j) /\ j \notin Upto(i)
    <3>1. i \in Int /\ j \in Int /\ \A x \in I : x \in Int
      OBVIOUS
    <3>2. j \in Upto(j) /\ j \notin Upto(i)
      BY <1>4, <3>1
    <3>3. \A x \in I : x <= i => x <= j
      BY <1>4, <3>1
    <3> QED
      BY <3>2, <3>3
  <2> HIDE DEF Upto
  <2>2. /\ Cardinality(Upto(i)) <= Cardinality(Upto(j))
        /\ Cardinality(Upto(i)) # Cardinality(Upto(j))
    BY <1>3, <2>1, FS_Subset
  <2> QED
    BY <1>3, <2>2
<1>5. \A i \in I : Rank(I, i) = Cardinality(Upto(i))
  BY DEF Rank
<1> HIDE DEF Upto
<1> QED
  BY <1>1, <1>2, <1>3, <1>4, <1>5

\* Every one of the indices is the k-th for exactly one k.
LEMMA NthIsOneToOne ==
  ASSUME NEW n \in Nat, NEW I \in SUBSET (1..n)
  PROVE  /\ Cardinality(I) \in Nat
         /\ \A k \in 1..Cardinality(I) : Nth(I, k) \in I /\ Rank(I, Nth(I, k)) = k
         /\ \A i \in I : Rank(I, i) \in 1..Cardinality(I) /\ Nth(I, Rank(I, i)) = i
<1> DEFINE c == Cardinality(I)
           f == [i \in I |-> Rank(I, i)]
<1>1. /\ IsFiniteSet(I) /\ c \in Nat
      /\ \A i \in I : Rank(I, i) \in 1..c
      /\ \A i, j \in I : i < j => Rank(I, i) < Rank(I, j)
  BY RanksAscend
<1>2. \A i, j \in I : Rank(I, i) = Rank(I, j) => i = j
  <2> SUFFICES ASSUME NEW i \in I, NEW j \in I, i # j
               PROVE  Rank(I, i) # Rank(I, j)
    OBVIOUS
  <2>1. i < j \/ j < i
    OBVIOUS
  <2>2. Rank(I, i) \in Int /\ Rank(I, j) \in Int
    BY <1>1
  <2> QED
    BY <1>1, <2>1, <2>2
<1>3. f \in Injection(I, 1..c)
  BY <1>1, <1>2 DEF Injection, IsInjective
<1>4. IsFiniteSet(1..c) /\ Cardinality(1..c) = c
  BY <1>1, FS_Interval
<1>5. f \in Surjection(I, 1..c)
  BY <1>3, <1>4, FS_Injection
<1>6. \A k \in 1..c : \E i \in I : Rank(I, i) = k
  BY <1>5 DEF Surjection
<1>7. \A k \in 1..c : Nth(I, k) \in I /\ Rank(I, Nth(I, k)) = k
  BY <1>6 DEF Nth, Rank
<1> QED
  BY <1>1, <1>2, <1>7

\* The list that the loop makes of some indices: entries of the queue, each in
\* one place.
LEMMA EntriesOfQueue ==
  ASSUME retryQueue \in Seq(QueueEntry), Distinct(retryQueue),
         NEW I \in SUBSET DOMAIN retryQueue
  PROVE  /\ Entries(I) \in Seq(QueueEntry)
         /\ Of(Entries(I)) = {retryQueue[i].delivery : i \in I}
         /\ Distinct(Entries(I))
<1>1. /\ Cardinality(I) \in Nat
      /\ \A k \in 1..Cardinality(I) : Nth(I, k) \in I /\ Rank(I, Nth(I, k)) = k
      /\ \A i \in I : Rank(I, i) \in 1..Cardinality(I) /\ Nth(I, Rank(I, i)) = i
  BY NthIsOneToOne
<1>2. /\ DOMAIN Entries(I) = 1..Cardinality(I)
      /\ \A k \in 1..Cardinality(I) : Entries(I)[k] = retryQueue[Nth(I, k)]
  BY DEF Entries
<1>3. Entries(I) \in [1..Cardinality(I) -> QueueEntry]
  BY <1>1 DEF Entries
<1>4. Entries(I) \in Seq(QueueEntry)
  BY <1>1, <1>3
<1>5. Of(Entries(I)) = {retryQueue[i].delivery : i \in I}
  BY <1>1, <1>2 DEF Of
<1>6. Distinct(Entries(I))
  BY <1>1, <1>2 DEF Distinct
<1> QED
  BY <1>4, <1>5, <1>6

-----------------------------------------------------------------------------
(* The lists of the runs *)

\* A run that is idle has listed nothing.
LEMMA NoList ==
  /\ Listed(Idle) = <<>> /\ Of(<<>>) = {} /\ Distinct(<<>>)
  /\ Idle \in RunStates
BY DEF Listed, Of, Distinct, RunStates

\* What a run of a list goes on with is that list.
LEMMA ContinueLists ==
  ASSUME NEW list \in Seq(QueueEntry)
  PROVE  /\ Continue(list) \in RunStates
         /\ Listed(Continue(list)) = list
         /\ Continue(list) = Idle <=> list = <<>>
<1>1. CASE list = <<>>
  BY <1>1, NoList DEF Continue
<1>2. CASE list # <<>>
  <2>1. /\ Head(list) \in QueueEntry /\ Tail(list) \in Seq(QueueEntry)
        /\ list = <<Head(list)>> \o Tail(list)
    BY <1>2
  <2> DEFINE state == [sending |-> Head(list), ready |-> Tail(list)]
  <2>2. Continue(list) = state
    BY <1>2 DEF Continue
  <2>3. state \in RunStates /\ state # Idle
    BY <2>1 DEF RunStates, Idle
  <2>4. state.sending = Head(list) /\ state.ready = Tail(list)
    OBVIOUS
  <2> HIDE DEF state
  <2> QED
    BY <1>2, <2>1, <2>2, <2>3, <2>4 DEF Listed
<1> QED
  BY <1>1, <1>2

\* A run is what it sends and what it has left.
LEMMA RestOfRun ==
  ASSUME NEW state \in RunStates, state # Idle
  PROVE  /\ state.sending \in QueueEntry /\ state.ready \in Seq(QueueEntry)
         /\ Listed(state) \in Seq(QueueEntry)
         /\ DOMAIN Listed(state) = 1..Len(state.ready) + 1
         /\ Listed(state)[1] = state.sending
         /\ \A i \in DOMAIN state.ready : Listed(state)[i + 1] = state.ready[i]
         /\ Of(Listed(state)) = {state.sending.delivery} \cup Of(state.ready)
         /\ Distinct(Listed(state)) => /\ state.sending.delivery \notin Of(state.ready)
                                       /\ Distinct(state.ready)
<1> DEFINE e == state.sending
           rest == state.ready
           list == <<e>> \o rest
<1>1. e \in QueueEntry /\ rest \in Seq(QueueEntry)
  BY DEF RunStates
<1>2. Listed(state) = list
  BY DEF Listed
<1> HIDE DEF e, rest
<1>3. /\ list \in Seq(QueueEntry)
      /\ DOMAIN list = 1..Len(rest) + 1
      /\ list[1] = e
      /\ \A i \in DOMAIN rest : list[i + 1] = rest[i] /\ i + 1 \in DOMAIN list
      /\ \A j \in DOMAIN list : j # 1 => (j - 1 \in DOMAIN rest /\ list[j] = rest[j - 1])
  <2>1. <<e>> \in Seq(QueueEntry) /\ Len(<<e>>) = 1 /\ <<e>>[1] = e
    BY <1>1
  <2>2. /\ list \in Seq(QueueEntry) /\ Len(list) = 1 + Len(rest)
        /\ \A j \in 1..1 + Len(rest) :
              list[j] = IF j <= 1 THEN <<e>>[j] ELSE rest[j - 1]
    BY <1>1, <2>1, ConcatProperties
  <2> HIDE DEF list
  <2>3. /\ Len(rest) \in Nat /\ DOMAIN rest = 1..Len(rest)
        /\ DOMAIN list = 1..1 + Len(rest)
    BY <1>1, <2>2
  <2>4. \A i \in DOMAIN rest : list[i + 1] = rest[i] /\ i + 1 \in DOMAIN list
    BY <2>2, <2>3
  <2>5. \A j \in DOMAIN list : j # 1 => (j - 1 \in DOMAIN rest /\ list[j] = rest[j - 1])
    <3> SUFFICES ASSUME NEW j \in 1..1 + Len(rest), j # 1
                 PROVE  j - 1 \in 1..Len(rest) /\ list[j] = rest[j - 1]
      BY <2>3
    <3>1. j - 1 \in 1..Len(rest) /\ ~(j <= 1)
      BY <2>3
    <3> QED
      BY <2>2, <3>1
  <2>6. list[1] = e
    BY <2>1, <2>2, <2>3
  <2> QED
    BY <2>2, <2>3, <2>4, <2>5, <2>6
<1> HIDE DEF list
<1>4. Of(list) = {e.delivery} \cup Of(rest)
  <2>1. ASSUME NEW x \in Of(list)
        PROVE  x \in {e.delivery} \cup Of(rest)
    BY <1>3, <2>1 DEF Of
  <2>2. ASSUME NEW x \in Of(rest)
        PROVE  x \in Of(list)
    <3>1. PICK i \in DOMAIN rest : x = rest[i].delivery
      BY <2>2 DEF Of
    <3> QED
      BY <1>3, <3>1 DEF Of
  <2>3. e.delivery \in Of(list)
    BY <1>1, <1>3 DEF Of
  <2> QED
    BY <2>1, <2>2, <2>3
<1>5. ASSUME Distinct(list)
      PROVE  e.delivery \notin Of(rest) /\ Distinct(rest)
  <2>1. \A i \in DOMAIN rest : rest[i].delivery # e.delivery
    <3> SUFFICES ASSUME NEW i \in DOMAIN rest, rest[i].delivery = e.delivery
                 PROVE  FALSE
      OBVIOUS
    <3>1. i \in Nat /\ i >= 1 /\ 1 \in DOMAIN list /\ i + 1 \in DOMAIN list
      BY <1>1, <1>3
    <3>2. list[i + 1].delivery = list[1].delivery
      BY <1>3
    <3>3. i + 1 = 1
      BY <1>5, <3>1, <3>2 DEF Distinct
    <3> QED
      BY <3>1, <3>3
  <2>2. Distinct(rest)
    <3> SUFFICES ASSUME NEW i \in DOMAIN rest, NEW j \in DOMAIN rest,
                        rest[i].delivery = rest[j].delivery
                 PROVE  i = j
      BY DEF Distinct
    <3>1. i + 1 = j + 1 /\ i \in Nat /\ j \in Nat
      BY <1>1, <1>3, <1>5 DEF Distinct
    <3> QED
      BY <3>1
  <2> QED
    BY <2>1, <2>2 DEF Of
<1> QED
  BY <1>1, <1>2, <1>3, <1>4, <1>5 DEF e, rest

\* An entry of another delivery at the end of a list leaves its entries distinct.
LEMMA AppendedList ==
  ASSUME NEW list \in Seq(QueueEntry), Distinct(list),
         NEW e \in QueueEntry, e.delivery \notin Of(list)
  PROVE  /\ Append(list, e) \in Seq(QueueEntry) /\ Append(list, e) # <<>>
         /\ Of(Append(list, e)) = Of(list) \cup {e.delivery}
         /\ Distinct(Append(list, e))
<1> DEFINE more == Append(list, e)
           n == Len(list) + 1
<1>1. /\ more \in Seq(QueueEntry) /\ more # <<>>
      /\ DOMAIN more = DOMAIN list \cup {n} /\ n \notin DOMAIN list
      /\ more[n] = e /\ \A i \in DOMAIN list : more[i] = list[i]
  OBVIOUS
<1> HIDE DEF more, n
<1>2. Of(more) = Of(list) \cup {e.delivery}
  BY <1>1 DEF Of
<1>3. Distinct(more)
  BY <1>1 DEF Distinct, Of
<1> QED
  BY <1>1, <1>2, <1>3 DEF more

\* A delivery that ends: retried, it is in the queue now and open; otherwise it
\* is not open any more.
LEMMA DeliveryEnds ==
  ASSUME retryQueue \in Seq(QueueEntry), Distinct(retryQueue),
         outcome \in [Deliveries -> {"new", "open", "delivered", "failed", "lost"}],
         NEW d \in Deliveries, d \notin Of(retryQueue),
         NEW attempt \in 0..MAX_RETRIES, NEW ok \in BOOLEAN,
         retryQueue' = QueueAfter(d, attempt, ok),
         outcome' = OutcomeAfter(d, attempt, ok)
  PROVE  /\ retryQueue' \in Seq(QueueEntry) /\ Distinct(retryQueue')
         /\ outcome' \in [Deliveries -> {"new", "open", "delivered", "failed", "lost"}]
         /\ IF ~ok /\ Retries(attempt)
            THEN Of(retryQueue') = Of(retryQueue) \cup {d} /\ outcome'[d] = "open"
            ELSE retryQueue' = retryQueue /\ outcome'[d] # "open"
         /\ \A c \in Deliveries \ {d} : outcome'[c] = outcome[c]
<1>1. CASE ~ok /\ Retries(attempt)
  <2> DEFINE e == Entry(d, attempt + 1)
  <2>1. e \in QueueEntry /\ e.delivery = d
    BY <1>1, WebhookAssumption DEF Entry, QueueEntry, Retries
  <2>2. retryQueue' = Append(retryQueue, e)
    BY <1>1 DEF QueueAfter
  <2> HIDE DEF e
  <2>3. outcome' = [outcome EXCEPT ![d] = "open"]
    BY <1>1 DEF OutcomeAfter
  <2> QED
    BY <1>1, <2>1, <2>2, <2>3, AppendedList
<1>2. CASE ~(~ok /\ Retries(attempt))
  <2>1. retryQueue' = retryQueue
    BY <1>2 DEF QueueAfter
  <2>2. outcome' = [outcome EXCEPT ![d] = IF ok THEN "delivered" ELSE "failed"]
    BY <1>2 DEF OutcomeAfter
  <2> QED
    BY <1>2, <2>1, <2>2
<1> QED
  BY <1>1, <1>2

-----------------------------------------------------------------------------
(* Every step *)

\* The entries of a list are for deliveries.
LEMMA ListOfDeliveries ==
  ASSUME NEW list \in Seq(QueueEntry)
  PROVE  Of(list) \subseteq Deliveries
<1>1. \A i \in DOMAIN list : list[i] \in QueueEntry
  OBVIOUS
<1>2. \A e \in QueueEntry : e.delivery \in Deliveries
  BY DEF QueueEntry
<1> QED
  BY <1>1, <1>2 DEF Of

\* What a run has listed is a list of entries for deliveries.
LEMMA RunOfDeliveries ==
  ASSUME NEW state \in RunStates
  PROVE  Listed(state) \in Seq(QueueEntry) /\ Of(Listed(state)) \subseteq Deliveries
<1>1. Listed(state) \in Seq(QueueEntry)
  <2>1. CASE state = Idle
    BY <2>1, NoList
  <2>2. CASE state # Idle
    BY <2>2, RestOfRun
  <2> QED
    BY <2>1, <2>2
<1> QED
  BY <1>1, ListOfDeliveries

\* The first sends of an event
LEMMA FireKeeps ==
  ASSUME DeliveryInv, NEW D, Fire(D)
  PROVE  DeliveryInv'
<1>1. /\ D \subseteq Deliveries /\ \A d \in D : outcome[d] = "new"
      /\ outcome' = [d \in Deliveries |-> IF d \in D THEN "open" ELSE outcome[d]]
      /\ firing' = firing \cup D
      /\ retryQueue' = retryQueue /\ run' = run /\ retryTimer' = retryTimer
  BY DEF Fire, NewDeliveries
<1> USE DEF DeliveryInv, Typed
<1>2. Typed'
  BY <1>1 DEF Outcomes
<1>3. Somewhere'
  BY <1>1 DEF Somewhere
<1>4. \A d \in D : d \notin Of(retryQueue) /\ \A r \in Runs : d \notin Of(Listed(run[r]))
  BY <1>1 DEF Somewhere
<1>5. NoneInTwo'
  BY <1>1, <1>4 DEF NoneInTwo
<1>6. NoneTwice' /\ QueueTimed'
  BY <1>1 DEF NoneTwice, QueueTimed
<1> QED
  BY <1>2, <1>3, <1>5, <1>6

\* The first send of a delivery ends.
LEMMA FireEndsKeeps ==
  ASSUME DeliveryInv, NEW d \in Deliveries, FireEnds(d)
  PROVE  DeliveryInv'
<1> USE DEF DeliveryInv, Typed
<1>1. PICK ok \in BOOLEAN :
         /\ d \in firing /\ firing' = firing \ {d}
         /\ retryQueue' = QueueAfter(d, 0, ok)
         /\ retryTimer' = TimerAfter(0, ok)
         /\ outcome' = OutcomeAfter(d, 0, ok)
         /\ run' = run
  BY DEF FireEnds
<1>2. d \notin Of(retryQueue) /\ \A r \in Runs : d \notin Of(Listed(run[r]))
  BY <1>1 DEF NoneInTwo
<1>3. 0 \in 0..MAX_RETRIES
  BY WebhookAssumption
<1>4. /\ retryQueue' \in Seq(QueueEntry) /\ Distinct(retryQueue')
      /\ outcome' \in [Deliveries -> Outcomes]
      /\ IF ~ok /\ Retries(0)
         THEN Of(retryQueue') = Of(retryQueue) \cup {d} /\ outcome'[d] = "open"
         ELSE retryQueue' = retryQueue /\ outcome'[d] # "open"
      /\ \A c \in Deliveries \ {d} : outcome'[c] = outcome[c]
  BY <1>1, <1>2, <1>3, DeliveryEnds DEF NoneTwice, Outcomes
<1>5. Typed'
  BY <1>1, <1>4 DEF TimerAfter
<1>6. NoneTwice' /\ NoneInTwo'
  BY <1>1, <1>2, <1>4 DEF NoneTwice, NoneInTwo
<1>7. Somewhere'
  BY <1>1, <1>2, <1>4 DEF Somewhere
<1>8. QueueTimed'
  BY <1>1, <1>4 DEF QueueTimed, TimerAfter
<1> QED
  BY <1>5, <1>6, <1>7, <1>8

\* An entry whose time has come stays where it is.
LEMMA RipenKeeps ==
  ASSUME DeliveryInv, NEW i \in DOMAIN retryQueue, Ripen(i)
  PROVE  DeliveryInv'
<1> USE DEF DeliveryInv, Typed
<1> DEFINE e == [retryQueue[i] EXCEPT !.ripe = TRUE]
<1>1. /\ retryQueue' = [retryQueue EXCEPT ![i] = e]
      /\ firing' = firing /\ run' = run /\ retryTimer' = retryTimer
      /\ outcome' = outcome
  BY DEF Ripen
<1>2. retryQueue[i] \in QueueEntry
  OBVIOUS
<1>3. e \in QueueEntry /\ e.delivery = retryQueue[i].delivery
  BY <1>2 DEF QueueEntry
<1> HIDE DEF e
<1>4. /\ retryQueue' \in Seq(QueueEntry) /\ DOMAIN retryQueue' = DOMAIN retryQueue
      /\ \A j \in DOMAIN retryQueue : retryQueue'[j].delivery = retryQueue[j].delivery
      /\ retryQueue # <<>>
  BY <1>1, <1>3
<1>5. Of(retryQueue') = Of(retryQueue) /\ Distinct(retryQueue')
  <2>1. Of(retryQueue') = Of(retryQueue)
    BY <1>4 DEF Of
  <2>2. Distinct(retryQueue')
    BY <1>4 DEF Distinct, NoneTwice
  <2> QED
    BY <2>1, <2>2
<1> QED
  BY <1>1, <1>4, <1>5 DEF NoneTwice, NoneInTwo, Somewhere, QueueTimed

\* A run takes the entries that are ripe and leaves the others.
LEMMA StartRunKeeps ==
  ASSUME DeliveryInv, NEW r \in Runs, StartRun(r)
  PROVE  DeliveryInv'
<1> USE DEF DeliveryInv, Typed
<1> DEFINE rest == DOMAIN retryQueue \ Ripe
<1>1. /\ retryTimer /\ run[r] = Idle
      /\ run' = [run EXCEPT ![r] = Continue(Entries(Ripe))]
      /\ retryQueue' = Entries(rest)
      /\ retryTimer' = TimerOnceRan(run'[r], retryQueue', retryTimer)
      /\ firing' = firing /\ outcome' = outcome
  BY DEF StartRun, Remaining
<1>2. Ripe \subseteq DOMAIN retryQueue /\ rest \subseteq DOMAIN retryQueue
  BY DEF Ripe
<1>3. /\ Entries(Ripe) \in Seq(QueueEntry)
      /\ Of(Entries(Ripe)) = {retryQueue[i].delivery : i \in Ripe}
      /\ Distinct(Entries(Ripe))
  BY <1>2, EntriesOfQueue DEF NoneTwice
<1>4. /\ Entries(rest) \in Seq(QueueEntry)
      /\ Of(Entries(rest)) = {retryQueue[i].delivery : i \in rest}
      /\ Distinct(Entries(rest))
  BY <1>2, EntriesOfQueue DEF NoneTwice
<1>5. Of(retryQueue) = Of(Entries(Ripe)) \cup Of(Entries(rest))
  BY <1>2, <1>3, <1>4 DEF Of
<1>6. Of(Entries(Ripe)) \cap Of(Entries(rest)) = {}
  <2> SUFFICES ASSUME NEW d \in Of(Entries(Ripe)), d \in Of(Entries(rest))
               PROVE  FALSE
    OBVIOUS
  <2>1. PICK i \in Ripe : d = retryQueue[i].delivery
    BY <1>3
  <2>2. PICK j \in rest : d = retryQueue[j].delivery
    BY <1>4
  <2>3. i = j
    BY <1>2, <2>1, <2>2 DEF Distinct, NoneTwice
  <2> QED
    BY <2>1, <2>2, <2>3
<1> HIDE DEF rest
<1>7. /\ Continue(Entries(Ripe)) \in RunStates
      /\ Listed(Continue(Entries(Ripe))) = Entries(Ripe)
  BY <1>3, ContinueLists
<1>8. /\ run' \in [Runs -> RunStates]
      /\ Listed(run'[r]) = Entries(Ripe)
      /\ \A s \in Runs \ {r} : run'[s] = run[s]
  BY <1>1, <1>7
<1>9. Of(Listed(run[r])) = {}
  BY <1>1, NoList
<1>10. Typed'
  BY <1>1, <1>4, <1>8 DEF TimerOnceRan
<1>11. NoneTwice'
  BY <1>1, <1>3, <1>4, <1>8 DEF NoneTwice
<1>12. NoneInTwo'
  BY <1>1, <1>5, <1>6, <1>8 DEF NoneInTwo
<1>13. Somewhere'
  BY <1>1, <1>5, <1>8, <1>9 DEF Somewhere
<1>14. QueueTimed'
  BY <1>1 DEF QueueTimed, TimerOnceRan
<1> QED
  BY <1>10, <1>11, <1>12, <1>13, <1>14

\* One of its deliveries ends, and the run goes on with the next or ends.
LEMMA RunContinuesKeeps ==
  ASSUME DeliveryInv, NEW r \in Runs, RunContinues(r)
  PROVE  DeliveryInv'
<1> USE DEF DeliveryInv, Typed
<1> DEFINE e == run[r].sending
           d == e.delivery
           ready == run[r].ready
<1>1. PICK ok \in BOOLEAN :
         /\ run[r] # Idle
         /\ run' = [run EXCEPT ![r] = Continue(ready)]
         /\ retryQueue' = QueueAfter(d, e.attempt, ok)
         /\ retryTimer' = TimerOnceRan(run'[r], retryQueue', TimerAfter(e.attempt, ok))
         /\ outcome' = OutcomeAfter(d, e.attempt, ok)
         /\ firing' = firing
  BY DEF RunContinues
<1>2. /\ e \in QueueEntry /\ ready \in Seq(QueueEntry)
      /\ Of(Listed(run[r])) = {d} \cup Of(ready)
      /\ d \notin Of(ready) /\ Distinct(ready)
  BY <1>1, RestOfRun DEF NoneTwice
<1>3. d \in Deliveries /\ e.attempt \in 0..MAX_RETRIES
  BY <1>2, WebhookAssumption DEF QueueEntry
<1>4. d \notin Of(retryQueue)
  BY <1>2 DEF NoneInTwo
<1> HIDE DEF e, d, ready
<1>5. /\ retryQueue' \in Seq(QueueEntry) /\ Distinct(retryQueue')
      /\ outcome' \in [Deliveries -> Outcomes]
      /\ IF ~ok /\ Retries(e.attempt)
         THEN Of(retryQueue') = Of(retryQueue) \cup {d} /\ outcome'[d] = "open"
         ELSE retryQueue' = retryQueue /\ outcome'[d] # "open"
      /\ \A c \in Deliveries \ {d} : outcome'[c] = outcome[c]
  BY <1>1, <1>3, <1>4, DeliveryEnds DEF NoneTwice, Outcomes
<1>6. Continue(ready) \in RunStates /\ Listed(Continue(ready)) = ready
  BY <1>2, ContinueLists
<1>7. /\ run' \in [Runs -> RunStates]
      /\ Listed(run'[r]) = ready
      /\ \A s \in Runs \ {r} : run'[s] = run[s]
  BY <1>1, <1>6
<1>8. Typed'
  BY <1>1, <1>5, <1>7 DEF TimerOnceRan, TimerAfter
<1>9. NoneTwice'
  BY <1>2, <1>5, <1>7 DEF NoneTwice
<1>10. d \notin firing /\ \A s \in Runs \ {r} : d \notin Of(Listed(run[s]))
  BY <1>2 DEF NoneInTwo
<1>11. NoneInTwo'
  BY <1>1, <1>2, <1>5, <1>7, <1>10 DEF NoneInTwo
<1>12. Somewhere'
  <2> SUFFICES ASSUME NEW c \in Deliveries
               PROVE  outcome'[c] = "open" <=>
                         \/ c \in firing' \/ c \in Of(retryQueue')
                         \/ \E s \in Runs : c \in Of(Listed(run'[s]))
    BY DEF Somewhere
  <2>1. CASE c = d
    BY <1>1, <1>2, <1>4, <1>5, <1>7, <1>10, <2>1
  <2>2. CASE c # d
    <3>1. outcome'[c] = outcome[c] /\ (c \in Of(retryQueue') <=> c \in Of(retryQueue))
      BY <1>5, <2>2
    <3>2. (\E s \in Runs : c \in Of(Listed(run'[s])))
             <=> (\E s \in Runs : c \in Of(Listed(run[s])))
      BY <1>2, <1>7, <2>2
    <3> QED
      BY <1>1, <3>1, <3>2 DEF Somewhere
  <2> QED
    BY <2>1, <2>2
<1>13. QueueTimed'
  BY <1>1, <1>5 DEF QueueTimed, TimerOnceRan, TimerAfter
<1> QED
  BY <1>8, <1>9, <1>11, <1>12, <1>13

\* A crash loses the queue, the runs and the timer together.
LEMMA CrashKeeps ==
  ASSUME DeliveryInv, Crash
  PROVE  DeliveryInv'
<1> USE DEF DeliveryInv, Typed
<1>1. /\ firing' = {} /\ retryQueue' = <<>> /\ retryTimer' = FALSE
      /\ run' = [r \in Runs |-> Idle]
      /\ outcome' = [d \in Deliveries |->
                        IF outcome[d] = "open" THEN "lost" ELSE outcome[d]]
  BY DEF Crash
<1>2. \A r \in Runs : Of(Listed(run'[r])) = {} /\ Distinct(Listed(run'[r]))
  BY <1>1, NoList
<1>3. Of(retryQueue') = {} /\ Distinct(retryQueue')
  BY <1>1, NoList
<1>4. Typed'
  <2>1. run' \in [Runs -> RunStates]
    BY <1>1, NoList
  <2>2. outcome' \in [Deliveries -> Outcomes]
    BY <1>1 DEF Outcomes
  <2>3. retryQueue' \in Seq(QueueEntry)
    BY <1>1
  <2> QED
    BY <1>1, <2>1, <2>2, <2>3
<1>5. NoneTwice' /\ NoneInTwo' /\ QueueTimed'
  BY <1>1, <1>2, <1>3 DEF NoneTwice, NoneInTwo, QueueTimed
<1>6. Somewhere'
  BY <1>1, <1>2, <1>3 DEF Somewhere
<1> QED
  BY <1>4, <1>5, <1>6

\* A send that ends, a delay that passes or a run that goes on moves one entry.
LEMMA DeliverKeeps ==
  ASSUME DeliveryInv, Deliver
  PROVE  DeliveryInv'
<1>1. CASE \E d \in Deliveries : FireEnds(d)
  BY <1>1, FireEndsKeeps
<1>2. CASE \E i \in DOMAIN retryQueue : Ripen(i)
  BY <1>2, RipenKeeps
<1>3. CASE \E r \in Runs : StartRun(r) \/ RunContinues(r)
  BY <1>3, StartRunKeeps, RunContinuesKeeps
<1> QED
  BY <1>1, <1>2, <1>3 DEF Deliver

\* At the start nothing is queued and no timer runs.
LEMMA Starts == ConfigInit => WebhooksInv
<1> SUFFICES ASSUME ConfigInit
             PROVE  WebhooksInv
  OBVIOUS
<1>1. /\ firing = {} /\ retryQueue = <<>> /\ retryTimer = FALSE
      /\ run = [r \in Runs |-> Idle]
      /\ outcome = [d \in Deliveries |-> "new"] /\ deleted = {}
  BY DEF ConfigInit, Init
<1>2. \A r \in Runs : Of(Listed(run[r])) = {} /\ Distinct(Listed(run[r]))
  BY <1>1, NoList
<1>3. Of(retryQueue) = {} /\ Distinct(retryQueue)
  BY <1>1, NoList
<1>4. Typed
  <2>1. run \in [Runs -> RunStates]
    BY <1>1, NoList
  <2>2. outcome \in [Deliveries -> Outcomes]
    BY <1>1 DEF Outcomes
  <2>3. retryQueue \in Seq(QueueEntry)
    BY <1>1
  <2> QED
    BY <1>1, <2>1, <2>2, <2>3 DEF Typed
<1>5. NoneTwice /\ NoneInTwo /\ QueueTimed
  BY <1>1, <1>2, <1>3 DEF NoneTwice, NoneInTwo, QueueTimed
<1>6. Somewhere
  BY <1>1, <1>2, <1>3 DEF Somewhere
<1> QED
  BY <1>1, <1>4, <1>5, <1>6 DEF WebhooksInv, DeliveryInv, DeletedGone

\* What leaves the deliveries alone
LEMMA DeliveriesUntouched ==
  ASSUME DeliveryInv, UNCHANGED vars
  PROVE  DeliveryInv'
<1>1. /\ firing' = firing /\ retryQueue' = retryQueue /\ run' = run
      /\ retryTimer' = retryTimer /\ outcome' = outcome
  BY DEF vars
<1> QED
  BY <1>1 DEF DeliveryInv, Typed, NoneTwice, NoneInTwo, Somewhere, QueueTimed

\* Every step of deliveries and of configurations keeps the invariant.
LEMMA StepKeeps ==
  ASSUME WebhooksInv, [ConfigNext]_allVars
  PROVE  WebhooksInv'
<1> USE DEF WebhooksInv
<1>1. ASSUME NEW o \in Orgs, CreateOrg(o)
      PROVE  WebhooksInv'
  BY <1>1, DeliveriesUntouched DEF CreateOrg, DeletedGone
<1>2. ASSUME NEW o \in Orgs, NEW event \in Events, FireEvent(o, event)
      PROVE  WebhooksInv'
  BY <1>2, FireKeeps DEF FireEvent, DeletedGone
<1>3. ASSUME NEW h, NEW o, NEW events, NEW enabled, CreateWebhook(h, o, events, enabled)
      PROVE  WebhooksInv'
  <2>1. DeliveryInv'
    BY <1>3, DeliveriesUntouched DEF CreateWebhook
  <2>2. h \notin deleted /\ DOMAIN configs' = DOMAIN configs \cup {h} /\ deleted' = deleted
    BY <1>3 DEF CreateWebhook
  <2> QED
    BY <2>1, <2>2 DEF DeletedGone
<1>4. ASSUME NEW h \in Hooks, PutStart(h)
      PROVE  WebhooksInv'
  BY <1>4, DeliveriesUntouched DEF PutStart, DeletedGone
<1>5. ASSUME NEW h \in Hooks, NEW u \in Updates, PutFinish(h, u)
      PROVE  WebhooksInv'
  <2>1. DeliveryInv'
    BY <1>5, DeliveriesUntouched DEF PutFinish
  <2>2. DOMAIN configs' = DOMAIN configs /\ deleted' = deleted
    BY <1>5 DEF PutFinish, Updated
  <2> QED
    BY <2>1, <2>2 DEF DeletedGone
<1>6. ASSUME NEW h \in Hooks, DeleteWebhook(h)
      PROVE  WebhooksInv'
  <2>1. DeliveryInv'
    BY <1>6, DeliveriesUntouched DEF DeleteWebhook
  <2>2. DOMAIN configs' = DOMAIN configs \ {h} /\ deleted' = deleted \cup {h}
    BY <1>6 DEF DeleteWebhook, Restrict
  <2> QED
    BY <2>1, <2>2 DEF DeletedGone
<1>7. CASE Deliver /\ UNCHANGED configVars
  BY <1>7, DeliverKeeps DEF configVars, DeletedGone
<1>8. CASE Restart
  BY <1>8, CrashKeeps DEF Restart, DeletedGone
<1>9. CASE UNCHANGED allVars
  BY <1>9, DeliveriesUntouched DEF allVars, configVars, DeletedGone
<1> QED
  BY <1>1, <1>2, <1>3, <1>4, <1>5, <1>6, <1>7, <1>8, <1>9 DEF ConfigNext

\* Whatever happens, every open delivery is once in one of the lists, none is in
\* two, and a queue that holds entries has its timer.
THEOREM WebhooksInvariant == ConfigSpec => []WebhooksInv
<1>1. ConfigInit => WebhooksInv
  BY Starts
<1>2. WebhooksInv /\ [ConfigNext]_allVars => WebhooksInv'
  BY StepKeeps
<1> QED
  BY <1>1, <1>2, PTL DEF ConfigSpec

-----------------------------------------------------------------------------
(* The properties *)

\* Queue and runs hold entries of the retry queue, whichever runs overlap.
THEOREM TypeCorrect == ConfigSpec => []TypeOK
<1>1. WebhooksInv => TypeOK
  <2> SUFFICES ASSUME WebhooksInv
               PROVE  TypeOK
    OBVIOUS
  <2>1. Typed
    BY DEF WebhooksInv, DeliveryInv
  <2>2. \A r \in Busy : run[r].sending \in QueueEntry /\ run[r].ready \in Seq(QueueEntry)
    BY <2>1, RestOfRun DEF Typed, Busy
  <2> QED
    BY <2>1, <2>2 DEF Typed, TypeOK, Outcomes
<1> QED
  BY <1>1, WebhooksInvariant, PTL

\* No entry of the queue was tried too often, and the timer that will take it is
\* set: no run clears it from under an entry that another one has just queued.
THEOREM QueueIsTimed == ConfigSpec => []QueueHasTimer
<1>1. WebhooksInv => QueueHasTimer
  <2> SUFFICES ASSUME WebhooksInv
               PROVE  QueueHasTimer
    OBVIOUS
  <2>1. retryQueue \in Seq(QueueEntry) /\ (retryQueue # <<>> => retryTimer)
    BY DEF WebhooksInv, DeliveryInv, Typed, QueueTimed
  <2>2. \A i \in DOMAIN retryQueue : retryQueue[i] \in QueueEntry
    BY <2>1
  <2>3. \A e \in QueueEntry : e.attempt <= MAX_RETRIES
    BY WebhookAssumption DEF QueueEntry
  <2> QED
    BY <2>1, <2>2, <2>3 DEF QueueHasTimer
<1> QED
  BY <1>1, WebhooksInvariant, PTL

\* The places of a delivery that the runs account for
InRuns(d) ==
    {<<"sending", r>> : r \in {s \in Busy : run[s].sending.delivery = d}}
    \cup UNION {{<<"ready", r, i>> : i \in {j \in DOMAIN run[r].ready :
                                      run[r].ready[j].delivery = d}} : r \in Busy}

InQueue(d) == {<<"queue", i>> : i \in {j \in DOMAIN retryQueue :
                                            retryQueue[j].delivery = d}}

\* A delivery is in the queue at one place or at none.
LEMMA PlacesInQueue ==
  ASSUME DeliveryInv, NEW d
  PROVE  IF d \in Of(retryQueue) THEN \E p \in InQueue(d) : InQueue(d) = {p}
                                  ELSE InQueue(d) = {}
<1>1. CASE d \in Of(retryQueue)
  <2>1. PICK i \in DOMAIN retryQueue : retryQueue[i].delivery = d
    BY <1>1 DEF Of
  <2>2. {j \in DOMAIN retryQueue : retryQueue[j].delivery = d} = {i}
    BY <2>1 DEF DeliveryInv, NoneTwice, Distinct
  <2>3. InQueue(d) = {<<"queue", i>>}
    BY <2>2 DEF InQueue
  <2> QED
    BY <1>1, <2>3
<1>2. CASE d \notin Of(retryQueue)
  BY <1>2 DEF Of, InQueue
<1> QED
  BY <1>1, <1>2

\* A delivery is listed by one run at one place, or by none.
LEMMA PlacesInRuns ==
  ASSUME DeliveryInv, NEW d
  PROVE  IF \E r \in Runs : d \in Of(Listed(run[r]))
         THEN \E p \in InRuns(d) : InRuns(d) = {p}
         ELSE InRuns(d) = {}
<1>1. \A r \in Runs \ Busy : Of(Listed(run[r])) = {}
  BY NoList DEF Busy
<1>2. ASSUME NEW r \in Busy
      PROVE  /\ run[r].ready \in Seq(QueueEntry)
             /\ Of(Listed(run[r])) = {run[r].sending.delivery} \cup Of(run[r].ready)
             /\ run[r].sending.delivery \notin Of(run[r].ready)
             /\ Distinct(run[r].ready)
  BY RestOfRun DEF Busy, DeliveryInv, Typed, NoneTwice
<1>3. CASE \E r \in Runs : d \in Of(Listed(run[r]))
  <2>1. PICK r \in Busy : d \in Of(Listed(run[r]))
    BY <1>1, <1>3
  <2>2. \A s \in Busy \ {r} : d \notin Of(Listed(run[s]))
    BY <2>1 DEF DeliveryInv, NoneInTwo, Busy
  <2>3. \A s \in Busy \ {r} : /\ run[s].sending.delivery # d
                              /\ \A j \in DOMAIN run[s].ready :
                                    run[s].ready[j].delivery # d
    <3> SUFFICES ASSUME NEW s \in Busy \ {r}
                 PROVE  /\ run[s].sending.delivery # d
                        /\ \A j \in DOMAIN run[s].ready : run[s].ready[j].delivery # d
      OBVIOUS
    <3>1. /\ d \notin Of(Listed(run[s]))
          /\ Of(Listed(run[s])) = {run[s].sending.delivery} \cup Of(run[s].ready)
      BY <1>2, <2>2
    <3> QED
      BY <3>1 DEF Of
  <2>4. CASE run[r].sending.delivery = d
    <3>1. \A j \in DOMAIN run[r].ready : run[r].ready[j].delivery # d
      BY <1>2, <2>4 DEF Of
    <3>2. {s \in Busy : run[s].sending.delivery = d} = {r}
      BY <2>3, <2>4
    <3>3. InRuns(d) = {<<"sending", r>>}
      BY <2>3, <3>1, <3>2 DEF InRuns
    <3> QED
      BY <1>3, <3>3
  <2>5. CASE run[r].sending.delivery # d
    <3> DEFINE ready == run[r].ready
    <3>5. d \in Of(ready)
      BY <1>2, <2>1, <2>5
    <3> HIDE DEF ready
    <3>6. \E i \in DOMAIN ready : ready[i].delivery = d
      BY <3>5 DEF Of
    <3>1. PICK i \in DOMAIN run[r].ready : run[r].ready[i].delivery = d
      BY <3>6 DEF ready
    <3>2. {j \in DOMAIN run[r].ready : run[r].ready[j].delivery = d} = {i}
      BY <1>2, <3>1 DEF Distinct
    <3>3. {s \in Busy : run[s].sending.delivery = d} = {}
      BY <2>3, <2>5
    <3>4. InRuns(d) = {<<"ready", r, i>>}
      BY <2>3, <3>2, <3>3 DEF InRuns
    <3> QED
      BY <1>3, <3>4
  <2> QED
    BY <2>4, <2>5
<1>4. CASE ~\E r \in Runs : d \in Of(Listed(run[r]))
  <2>1. \A s \in Busy : /\ run[s].sending.delivery # d
                        /\ \A j \in DOMAIN run[s].ready :
                              run[s].ready[j].delivery # d
    BY <1>2, <1>4 DEF Of, Busy
  <2> QED
    BY <1>4, <2>1 DEF InRuns
<1> QED
  BY <1>3, <1>4

\* However the runs of processRetryQueue overlap with one another and with the
\* first sends, an open delivery is in exactly one place and a closed one in none.
THEOREM DeliveriesAreInOnePlace == ConfigSpec => []InOnePlace
<1>1. WebhooksInv => InOnePlace
  <2> SUFFICES ASSUME WebhooksInv, NEW d \in Deliveries
               PROVE  IF outcome[d] = "open" THEN \E p \in Places(d) : Places(d) = {p}
                                             ELSE Places(d) = {}
    BY DEF InOnePlace
  <2> DEFINE inFiring == IF d \in firing THEN {<<"firing">>} ELSE {}
             listed == \E r \in Runs : d \in Of(Listed(run[r]))
  <2>1. Places(d) = inFiring \cup InQueue(d) \cup InRuns(d)
    BY DEF Places, InQueue, InRuns
  <2>2. DeliveryInv
    BY DEF WebhooksInv
  <2>3. IF d \in Of(retryQueue) THEN \E p \in InQueue(d) : InQueue(d) = {p}
                                 ELSE InQueue(d) = {}
    BY <2>2, PlacesInQueue
  <2>4. IF listed THEN \E p \in InRuns(d) : InRuns(d) = {p} ELSE InRuns(d) = {}
    BY <2>2, PlacesInRuns
  <2>5. outcome[d] = "open" <=> (d \in firing \/ d \in Of(retryQueue) \/ listed)
    BY <2>2 DEF DeliveryInv, Somewhere
  <2>6. /\ ~(d \in firing /\ d \in Of(retryQueue))
        /\ ~(listed /\ (d \in firing \/ d \in Of(retryQueue)))
    BY <2>2 DEF DeliveryInv, NoneInTwo
  <2>7. IF d \in firing THEN inFiring = {<<"firing">>} ELSE inFiring = {}
    OBVIOUS
  <2> HIDE DEF inFiring, listed
  <2>8. CASE d \in firing
    BY <2>1, <2>3, <2>4, <2>5, <2>6, <2>7, <2>8
  <2>9. CASE d \in Of(retryQueue)
    BY <2>1, <2>3, <2>4, <2>5, <2>6, <2>7, <2>9
  <2>10. CASE listed
    BY <2>1, <2>3, <2>4, <2>5, <2>6, <2>7, <2>10
  <2>11. CASE ~(d \in firing \/ d \in Of(retryQueue) \/ listed)
    BY <2>1, <2>3, <2>4, <2>5, <2>7, <2>11
  <2> QED
    BY <2>8, <2>9, <2>10, <2>11
<1> QED
  BY <1>1, WebhooksInvariant, PTL

\* No event is sent for the first time to a configuration that was deleted or is
\* disabled, whatever PUT was under way when it was deleted.
THEOREM DeletedGetNothing == ConfigSpec => NothingAfterDeletion
<1> DEFINE Kept == \A d \in Deliveries, h \in Hooks :
                      (sentTo[d] # h /\ sentTo'[d] = h)
                          => h \notin deleted /\ configs[h].enabled
<1>1. WebhooksInv /\ [ConfigNext]_allVars => Kept
  <2> SUFFICES ASSUME WebhooksInv, [ConfigNext]_allVars, NEW d \in Deliveries,
                      NEW h \in Hooks, sentTo[d] # h, sentTo'[d] = h
               PROVE  h \notin deleted /\ configs[h].enabled
    OBVIOUS
  <2>1. sentTo' # sentTo
    OBVIOUS
  <2>2. PICK o \in Orgs, event \in Events : FireEvent(o, event)
    BY <2>1 DEF ConfigNext, CreateOrg, CreateWebhook, PutStart, PutFinish,
                DeleteWebhook, Restart, configVars, allVars
  <2>3. PICK f \in Injection(Subscribed(o, event), NewDeliveries) :
           sentTo' = [c \in Deliveries |->
                         IF c \in Range(f) THEN Inverse(f, DOMAIN f, Range(f))[c]
                         ELSE sentTo[c]]
    BY <2>2 DEF FireEvent
  <2>4. d \in Range(f) /\ h = Inverse(f, DOMAIN f, Range(f))[d]
    BY <2>3
  <2>5. h \in DOMAIN f
    BY <2>4 DEF Inverse, Range
  <2>6. DOMAIN f = Subscribed(o, event)
    BY <2>3 DEF Injection
  <2>7. h \in DOMAIN configs /\ configs[h].enabled
    BY <2>5, <2>6 DEF Subscribed, listWebhookConfigs
  <2> QED
    BY <2>7 DEF WebhooksInv, DeletedGone
<1> QED
  BY <1>1, WebhooksInvariant, PTL DEF ConfigSpec, NothingAfterDeletion
=============================================================================
