--------------------------- MODULE SessionsProofs ---------------------------
(***************************************************************************)
(* Logins, sessions, the provider's keys and the rate limiter, for any     *)
(* clients, any number of requests under way and any lifetimes.            *)
(***************************************************************************)
EXTENDS Sessions, FiniteSetTheorems, SequenceTheorems, WellFoundedInduction, TLAPS

-----------------------------------------------------------------------------
(* The rate limiter *)

InOrder(stamps) == \A i, j \in DOMAIN stamps : i <= j => stamps[i] <= stamps[j]

\* A window holds the last of the times at which its client was let through, and
\* what it has dropped is too old to count.
Covers(time, times, window) ==
    /\ Len(window) <= Len(times)
    /\ \A i \in DOMAIN window : window[i] = times[Len(times) - Len(window) + i]
    /\ \A i \in 1..Len(times) - Len(window) : times[i] <= time - WindowMs

\* The requests that came no more than a window before the one at t
Upto(times, t) == {i \in DOMAIN times : t - WindowMs < times[i] /\ times[i] <= t}

Fair(times) == \A i \in DOMAIN times : Cardinality(Upto(times, times[i])) <= MaxPerWindow

LimiterInv ==
    /\ now \in Nat
    /\ windows \in [Clients -> Seq(Nat)]
    /\ allowed \in [Clients -> Seq(Nat)]
    /\ \A key \in Clients : /\ InOrder(allowed[key])
                            /\ \A i \in DOMAIN allowed[key] : allowed[key][i] <= now
                            /\ Covers(now, allowed[key], windows[key])
                            /\ Fair(allowed[key])

\* Some first indices, as many as they are
LEMMA FirstIndices ==
  ASSUME NEW n \in Nat, NEW S \in SUBSET (1..n),
         \A i \in S : \A j \in 1..n : j <= i => j \in S
  PROVE  /\ IsFiniteSet(S) /\ Cardinality(S) \in 0..n
         /\ S = 1..Cardinality(S)
<1>1. CASE S = 1..n
  <2>1. IsFiniteSet(1..n) /\ Cardinality(1..n) = n
    BY FS_Interval
  <2> QED
    BY <1>1, <2>1
<1>2. CASE S # 1..n
  <2> DEFINE T == (1..n) \ S
  <2>1. T \subseteq Nat /\ T # {}
    <3>1. 1..n \subseteq Nat
      OBVIOUS
    <3> HIDE DEF T
    <3>2. T \subseteq Nat
      BY <3>1 DEF T
    <3>3. \E x \in 1..n : x \notin S
      BY <1>2, Zenon
    <3> QED
      BY <3>2, <3>3 DEF T
  <2>2. \E x \in T : \A y \in T : <<y, x>> \notin OpToRel(<, Nat)
    BY <2>1, NatLessThanWellFounded, WFMin
  <2>3. PICK m \in T : \A y \in T : ~(y < m)
    BY <2>1, <2>2 DEF OpToRel
  <2>4. S = 1..(m - 1)
    <3>1. ASSUME NEW x \in S
          PROVE  x \in 1..(m - 1)
      <4>1. x \in 1..n /\ m \in 1..n /\ m \notin S
        OBVIOUS
      <4>2. ~(m <= x)
        BY <4>1
      <4> QED
        BY <4>1, <4>2
    <3>2. ASSUME NEW x \in 1..(m - 1)
          PROVE  x \in S
      <4>1. x \in 1..n /\ x < m
        OBVIOUS
      <4> QED
        BY <2>3, <4>1
    <3> QED
      BY <3>1, <3>2
  <2>5. IsFiniteSet(1..(m - 1)) /\ Cardinality(1..(m - 1)) = m - 1
    BY FS_Interval
  <2> QED
    BY <2>4, <2>5
<1> QED
  BY <1>1, <1>2

\* What the filter leaves of stamps in order: those that have not expired.
LEMMA Pruned ==
  ASSUME now \in Nat, NEW stamps \in Seq(Nat), InOrder(stamps)
  PROVE  /\ InWindow(stamps) \in Seq(Nat)
         /\ Len(InWindow(stamps)) <= Len(stamps)
         /\ \A i \in DOMAIN InWindow(stamps) :
               InWindow(stamps)[i] = stamps[Len(stamps) - Len(InWindow(stamps)) + i]
         /\ \A i \in DOMAIN stamps :
               stamps[i] > now - WindowMs <=> i > Len(stamps) - Len(InWindow(stamps))
<1> USE RateLimitAssumption
<1> DEFINE S == Expired(stamps)
           n == Len(stamps)
           k == Cardinality(S)
           p == SubSeq(stamps, k + 1, n)
<1>1. n \in Nat /\ DOMAIN stamps = 1..n /\ \A i \in 1..n : stamps[i] \in Nat
  OBVIOUS
<1>2. /\ S \in SUBSET (1..n)
      /\ \A i \in 1..n : i \in S <=> stamps[i] <= now - WindowMs
  BY <1>1 DEF Expired
<1>3. \A i \in S : \A j \in 1..n : j <= i => j \in S
  BY <1>1, <1>2 DEF InOrder
<1>4. k \in 0..n /\ S = 1..k
  <2> HIDE DEF S, n
  <2> QED
    BY <1>1, <1>2, <1>3, FirstIndices
<1>5. InWindow(stamps) = p
  BY DEF InWindow
<1> HIDE DEF S, n, k
<1>6. /\ p \in Seq(Nat) /\ Len(p) = n - k
      /\ \A i \in 1..n - k : p[i] = stamps[k + i]
  <2>1. \A i \in k + 1..n : stamps[i] \in Nat
    BY <1>1, <1>4
  <2>2. /\ p \in Seq(Nat)
        /\ Len(p) = IF k + 1 <= n THEN n - (k + 1) + 1 ELSE 0
        /\ \A i \in 1..n - (k + 1) + 1 : p[i] = stamps[k + 1 + i - 1]
    BY <1>1, <1>4, <2>1, SubSeqProperties
  <2>3. \A i \in 1..n - k : k + 1 + i - 1 = k + i /\ i \in 1..n - (k + 1) + 1
    BY <1>1, <1>4
  <2>4. \A i \in 1..n - k : p[i] = stamps[k + i]
    BY <2>2, <2>3
  <2> HIDE DEF p
  <2>5. Len(p) = n - k
    BY <1>1, <1>4, <2>2
  <2> QED
    BY <2>2, <2>4, <2>5
<1> HIDE DEF p
<1>7. DOMAIN p = 1..n - k /\ n - (n - k) = k /\ Len(p) <= n
  BY <1>1, <1>4, <1>6
<1>8. \A i \in 1..n : stamps[i] > now - WindowMs <=> i > k
  BY <1>1, <1>2, <1>4
<1> QED
  BY <1>1, <1>5, <1>6, <1>7, <1>8 DEF n

\* A window that is pruned still covers the times of its client, and holds as many
\* as are less than a window old.
LEMMA PrunedCovers ==
  ASSUME now \in Nat, NEW times \in Seq(Nat), NEW window \in Seq(Nat), InOrder(times),
         Covers(now, times, window)
  PROVE  /\ InWindow(window) \in Seq(Nat)
         /\ Covers(now, times, InWindow(window))
         /\ \A i \in DOMAIN times :
               times[i] > now - WindowMs <=> i > Len(times) - Len(InWindow(window))
<1> USE RateLimitAssumption
<1> DEFINE n == Len(times)
           m == Len(window)
           p == InWindow(window)
           l == Len(p)
<1>1. /\ n \in Nat /\ DOMAIN times = 1..n /\ m \in Nat /\ DOMAIN window = 1..m
      /\ \A i \in 1..n : times[i] \in Nat
  OBVIOUS
<1>2. /\ m <= n /\ \A i \in 1..m : window[i] = times[n - m + i]
      /\ \A i \in 1..n - m : times[i] <= now - WindowMs
  BY <1>1 DEF Covers
<1>3. InOrder(window)
  <2> SUFFICES ASSUME NEW i \in 1..m, NEW j \in 1..m, i <= j
               PROVE  window[i] <= window[j]
    BY <1>1 DEF InOrder
  <2>1. n - m + i \in 1..n /\ n - m + j \in 1..n /\ n - m + i <= n - m + j
    BY <1>1, <1>2
  <2> QED
    BY <1>1, <1>2, <2>1 DEF InOrder
<1>4. /\ p \in Seq(Nat) /\ l <= m
      /\ \A i \in DOMAIN p : p[i] = window[m - l + i]
      /\ \A i \in DOMAIN window : window[i] > now - WindowMs <=> i > m - l
  BY <1>3, Pruned
<1> HIDE DEF p
<1>5. l \in Nat /\ DOMAIN p = 1..l
  BY <1>4
<1> HIDE DEF n, m, l
<1>6. \A i \in 1..l : p[i] = times[n - l + i]
  <2> SUFFICES ASSUME NEW i \in 1..l
               PROVE  p[i] = times[n - l + i]
    OBVIOUS
  <2>1. m - l + i \in 1..m /\ n - m + (m - l + i) = n - l + i
    BY <1>1, <1>4, <1>5
  <2> QED
    BY <1>2, <1>4, <1>5, <2>1
<1>7. ASSUME NEW i \in 1..n
      PROVE  times[i] > now - WindowMs <=> i > n - l
  <2>1. CASE i <= n - m
    <3>1. times[i] \in Nat /\ times[i] <= now - WindowMs
      BY <1>1, <1>2, <2>1
    <3>2. ~(i > n - l)
      BY <1>1, <1>2, <1>4, <1>5, <2>1
    <3> QED
      BY <3>1, <3>2
  <2>2. CASE i > n - m
    <3> DEFINE j == i - (n - m)
    <3>1. j \in 1..m /\ n - m + j = i
      BY <1>1, <1>2, <2>2
    <3> HIDE DEF j
    <3>2. window[j] = times[i]
      BY <1>2, <3>1
    <3>3. window[j] > now - WindowMs <=> j > m - l
      BY <1>1, <1>4, <3>1
    <3>4. j > m - l <=> i > n - l
      BY <1>1, <1>5, <3>1
    <3> QED
      BY <3>2, <3>3, <3>4
  <2> QED
    BY <1>1, <1>2, <2>1, <2>2
<1>8. \A i \in 1..n - l : times[i] <= now - WindowMs
  <2> SUFFICES ASSUME NEW i \in 1..n - l
               PROVE  times[i] <= now - WindowMs
    OBVIOUS
  <2>1. i \in 1..n /\ ~(i > n - l)
    BY <1>1, <1>5
  <2> QED
    BY <1>1, <1>7, <2>1
<1>9. l <= n
  BY <1>1, <1>2, <1>4, <1>5
<1> QED
  BY <1>1, <1>4, <1>5, <1>6, <1>7, <1>8, <1>9 DEF Covers, n, l, p

\* How many those are
LEMMA RecentAreCounted ==
  ASSUME NEW n \in Nat, NEW l \in 0..n
  PROVE  IsFiniteSet(n - l + 1..n) /\ Cardinality(n - l + 1..n) = l
<1>1. n - l + 1 \in Int /\ n \in Int
  OBVIOUS
<1>2. /\ IsFiniteSet(n - l + 1..n)
      /\ Cardinality(n - l + 1..n) = IF n - l + 1 > n THEN 0 ELSE n - (n - l + 1) + 1
  BY <1>1, FS_Interval
<1> QED
  BY <1>2

\* A request that is allowed enters the window as it enters the history.
LEMMA CoversMore ==
  ASSUME NEW time \in Nat, NEW times \in Seq(Nat), NEW window \in Seq(Nat),
         InOrder(times), \A i \in DOMAIN times : times[i] <= time,
         Covers(time, times, window)
  PROVE  LET more == Append(times, time)
         IN  /\ more \in Seq(Nat) /\ InOrder(more)
             /\ \A i \in DOMAIN more : more[i] <= time
             /\ Append(window, time) \in Seq(Nat)
             /\ Covers(time, more, Append(window, time))
<1> DEFINE more == Append(times, time)
           last == Append(window, time)
           n == Len(times)
           m == Len(window)
<1>1. /\ n \in Nat /\ DOMAIN times = 1..n /\ \A i \in 1..n : times[i] \in Nat
      /\ m \in Nat /\ DOMAIN window = 1..m
  OBVIOUS
<1>2. /\ more \in Seq(Nat) /\ Len(more) = n + 1 /\ DOMAIN more = 1..n + 1
      /\ more[n + 1] = time /\ \A i \in 1..n : more[i] = times[i]
  OBVIOUS
<1>3. /\ last \in Seq(Nat) /\ Len(last) = m + 1 /\ DOMAIN last = 1..m + 1
      /\ last[m + 1] = time /\ \A i \in 1..m : last[i] = window[i]
  OBVIOUS
<1>4. /\ m <= n /\ \A i \in 1..m : window[i] = times[n - m + i]
      /\ \A i \in 1..n - m : times[i] <= time - WindowMs
  BY <1>1 DEF Covers
<1> HIDE DEF more, last, n, m
<1>5. \A i \in DOMAIN more : more[i] <= time
  BY <1>1, <1>2
<1>6. InOrder(more)
  <2> SUFFICES ASSUME NEW i \in 1..n + 1, NEW j \in 1..n + 1, i <= j
               PROVE  more[i] <= more[j]
    BY <1>2 DEF InOrder
  <2>1. CASE j = n + 1
    BY <1>2, <1>5, <2>1
  <2>2. CASE j # n + 1
    <3>1. i \in 1..n /\ j \in 1..n
      BY <1>1, <2>2
    <3>2. times[i] <= times[j]
      BY <1>1, <3>1 DEF InOrder
    <3> QED
      BY <1>2, <3>1, <3>2
  <2> QED
    BY <2>1, <2>2
<1>7. Covers(time, more, last)
  <2>1. Len(last) <= Len(more) /\ Len(more) - Len(last) = n - m
    BY <1>1, <1>2, <1>3, <1>4
  <2>2. ASSUME NEW i \in 1..m + 1
        PROVE  last[i] = more[n - m + i]
    <3>1. CASE i = m + 1
      <4>1. n - m + i = n + 1
        BY <1>1, <3>1
      <4> QED
        BY <1>2, <1>3, <3>1, <4>1
    <3>2. CASE i # m + 1
      <4>1. i \in 1..m /\ n - m + i \in 1..n
        BY <1>1, <1>4, <3>2
      <4> QED
        BY <1>2, <1>3, <1>4, <4>1
    <3> QED
      BY <3>1, <3>2
  <2>3. \A i \in 1..n - m : more[i] <= time - WindowMs
    BY <1>1, <1>2, <1>4
  <2> QED
    BY <1>3, <2>1, <2>2, <2>3 DEF Covers
<1> QED
  BY <1>2, <1>3, <1>5, <1>6, <1>7 DEF more, last

\* A request that is let through because fewer than MaxPerWindow are recent
LEMMA FairWithMore ==
  ASSUME NEW time \in Nat, NEW times \in Seq(Nat), InOrder(times),
         \A i \in DOMAIN times : times[i] <= time,
         Fair(times), NEW l \in 0..Len(times), l < MaxPerWindow,
         \A i \in DOMAIN times : times[i] > time - WindowMs <=> i > Len(times) - l
  PROVE  Fair(Append(times, time))
<1> USE RateLimitAssumption
<1> DEFINE more == Append(times, time)
           n == Len(times)
<1>1. /\ n \in Nat /\ DOMAIN times = 1..n /\ \A i \in 1..n : times[i] \in Nat
      /\ DOMAIN more = 1..n + 1
      /\ more[n + 1] = time /\ \A i \in 1..n : more[i] = times[i]
  OBVIOUS
<1> HIDE DEF more
<1>2. Cardinality(Upto(more, time)) <= MaxPerWindow
  <2>1. Upto(more, time) = n - l + 1..n + 1
    <3> SUFFICES ASSUME NEW i \in 1..n + 1
                 PROVE  (time - WindowMs < more[i] /\ more[i] <= time) <=> i >= n - l + 1
      <4>1. Upto(more, time) = {i \in 1..n + 1 : time - WindowMs < more[i] /\ more[i] <= time}
        BY <1>1 DEF Upto
      <4>2. n - l + 1..n + 1 = {i \in 1..n + 1 : i >= n - l + 1}
        BY <1>1
      <4> QED
        BY <4>1, <4>2
    <3>1. CASE i = n + 1
      BY <1>1, <3>1
    <3>2. CASE i # n + 1
      <4>1. i \in 1..n /\ more[i] = times[i] /\ times[i] <= time /\ times[i] \in Nat
        BY <1>1, <3>2
      <4>2. times[i] > time - WindowMs <=> i > n - l
        BY <1>1, <4>1
      <4> QED
        BY <1>1, <4>1, <4>2
    <3> QED
      BY <3>1, <3>2
  <2>2. n + 1 \in Nat /\ l + 1 \in 0..n + 1 /\ n + 1 - (l + 1) + 1 = n - l + 1
    BY <1>1
  <2>3. Cardinality(n - l + 1..n + 1) = l + 1
    BY <2>2, RecentAreCounted
  <2> QED
    BY <1>1, <2>1, <2>3
<1> SUFFICES ASSUME NEW i \in 1..n + 1
             PROVE  Cardinality(Upto(more, more[i])) <= MaxPerWindow
  BY <1>1 DEF Fair, more
<1>3. CASE more[i] = time
  BY <1>2, <1>3
<1>4. CASE more[i] # time
  <2>1. i \in 1..n /\ more[i] = times[i] /\ times[i] < time
    <3>1. i \in 1..n
      BY <1>1, <1>4
    <3>2. times[i] \in Nat /\ times[i] <= time /\ more[i] = times[i]
      BY <1>1, <3>1
    <3> QED
      BY <1>4, <3>1, <3>2
  <2>2. Upto(more, times[i]) = Upto(times, times[i])
    <3> DEFINE t == times[i]
    <3>1. t \in Nat /\ t < time
      BY <1>1, <2>1
    <3> HIDE DEF t
    <3>2. Upto(more, t) = Upto(times, t)
      BY <1>1, <3>1 DEF Upto
    <3> QED
      BY <3>2 DEF t
  <2> QED
    BY <1>1, <2>1, <2>2 DEF Fair
<1> QED
  BY <1>3, <1>4

\* What is true of a client's times and its window
OfClient(time, times, window) ==
    /\ InOrder(times)
    /\ \A i \in DOMAIN times : times[i] <= time
    /\ Covers(time, times, window)
    /\ Fair(times)

\* check, and the cleanup
LEMMA AdmitKeeps ==
  ASSUME LimiterInv, NEW key \in Clients, Admit(key), now' = now
  PROVE  LimiterInv'
<1> DEFINE times == allowed[key]
           window == windows[key]
           p == InWindow(window)
<1>1. /\ now \in Nat /\ times \in Seq(Nat) /\ window \in Seq(Nat)
      /\ OfClient(now, times, window)
  BY DEF LimiterInv, OfClient
<1>2. /\ windows' = [windows EXCEPT ![key] = Append(p, now)]
      /\ allowed' = [allowed EXCEPT ![key] = Append(times, now)]
      /\ Len(p) < MaxPerWindow
  BY DEF Admit, Allows
<1> HIDE DEF times, window
<1>3. /\ p \in Seq(Nat) /\ Covers(now, times, p)
      /\ \A i \in DOMAIN times : times[i] > now - WindowMs <=> i > Len(times) - Len(p)
  BY <1>1, PrunedCovers DEF OfClient
<1> HIDE DEF p
<1>4. Len(p) \in 0..Len(times)
  BY <1>1, <1>3 DEF Covers
<1>5. /\ Append(times, now) \in Seq(Nat) /\ Append(p, now) \in Seq(Nat)
      /\ OfClient(now, Append(times, now), Append(p, now))
  BY <1>1, <1>2, <1>3, <1>4, CoversMore, FairWithMore DEF OfClient
<1> DEFINE timesNow == Append(times, now)
           windowNow == Append(p, now)
<1> HIDE DEF timesNow, windowNow
<1>6. \A k \in Clients : OfClient(now, allowed[k], windows[k])
  BY DEF LimiterInv, OfClient
<1>7. /\ windows' \in [Clients -> Seq(Nat)] /\ allowed' \in [Clients -> Seq(Nat)]
      /\ \A k \in Clients : OfClient(now, allowed'[k], windows'[k])
  BY <1>2, <1>5, <1>6 DEF LimiterInv, timesNow, windowNow
<1> QED
  BY <1>7 DEF LimiterInv, OfClient

\* Dropping timestamps that have left the window loses nothing that counts.
LEMMA PruneKeeps ==
  ASSUME LimiterInv, now' = now, allowed' = allowed,
         windows' \in [Clients -> Seq(Nat)],
         \A key \in Clients : windows'[key] \in {windows[key], InWindow(windows[key])}
  PROVE  LimiterInv'
<1>1. ASSUME NEW key \in Clients
      PROVE  OfClient(now, allowed[key], windows'[key])
  <2>1. OfClient(now, allowed[key], windows[key])
    BY DEF LimiterInv, OfClient
  <2>2. Covers(now, allowed[key], InWindow(windows[key]))
    BY <2>1, PrunedCovers DEF LimiterInv, OfClient
  <2> QED
    BY <2>1, <2>2 DEF OfClient
<1> QED
  BY <1>1 DEF LimiterInv, OfClient

\* A refusal only prunes.
LEMMA RefuseKeeps ==
  ASSUME LimiterInv, NEW key \in Clients, Refuse(key), now' = now
  PROVE  LimiterInv'
<1>1. InWindow(windows[key]) \in Seq(Nat)
  BY PrunedCovers DEF LimiterInv
<1>2. windows' = [windows EXCEPT ![key] = InWindow(windows[key])] /\ allowed' = allowed
  BY DEF Refuse
<1> DEFINE w == InWindow(windows[key])
<1> HIDE DEF w
<1>3. /\ windows' \in [Clients -> Seq(Nat)]
      /\ \A k \in Clients : windows'[k] = windows[k] \/ (k = key /\ windows'[k] = w)
  BY <1>1, <1>2 DEF LimiterInv, w
<1> QED
  BY <1>2, <1>3, PruneKeeps DEF w

\* The cleanup only prunes.
LEMMA CleanupKeeps ==
  ASSUME LimiterInv, Cleanup, now' = now
  PROVE  LimiterInv'
<1>1. \A key \in Clients : InWindow(windows[key]) \in Seq(Nat)
  BY PrunedCovers DEF LimiterInv
<1> QED
  BY <1>1, PruneKeeps DEF Cleanup

\* Time moves timestamps out of the window, never in.
LEMMA TimePasses ==
  ASSUME LimiterInv, now' = now + 1, UNCHANGED limiterVars
  PROVE  LimiterInv'
<1>1. allowed' = allowed /\ windows' = windows /\ now \in Nat
  BY DEF limiterVars, LimiterInv
<1>2. ASSUME NEW key \in Clients
      PROVE  OfClient(now + 1, allowed[key], windows[key])
  <2>1. OfClient(now, allowed[key], windows[key]) /\ allowed[key] \in Seq(Nat)
        /\ windows[key] \in Seq(Nat)
    BY DEF LimiterInv, OfClient
  <2> DEFINE times == allowed[key]
             window == windows[key]
  <2> HIDE DEF times, window
  <2>2. OfClient(now, times, window) /\ times \in Seq(Nat) /\ window \in Seq(Nat)
    BY <2>1 DEF times, window
  <2>3. \A i \in DOMAIN times : times[i] \in Nat
    BY <2>2
  <2>4. Covers(now + 1, times, window)
    <3>1. Covers(now, times, window)
      BY <2>2 DEF OfClient
    <3>2. \A i \in 1..Len(times) - Len(window) : i \in DOMAIN times
      BY <2>2
    <3> QED
      BY <1>1, <2>3, <3>1, <3>2, RateLimitAssumption DEF Covers
  <2>5. \A i \in DOMAIN times : times[i] <= now + 1
    BY <1>1, <2>2, <2>3 DEF OfClient
  <2> QED
    BY <2>2, <2>4, <2>5 DEF OfClient, times, window
<1> QED
  BY <1>1, <1>2 DEF LimiterInv, OfClient

-----------------------------------------------------------------------------
(* The property of the limiter *)

\* A refused client: as many as it may have are recent, and at the time it is told
\* the oldest of them is not any more.
LEMMA FairAtAnyTime == LimiterInv => LimiterIsFair
<1> USE RateLimitAssumption
<1> SUFFICES ASSUME LimiterInv, NEW key \in Clients
             PROVE  /\ \A i \in DOMAIN allowed[key] :
                          Cardinality(Within(key, allowed[key][i] - WindowMs, allowed[key][i]))
                             <= MaxPerWindow
                    /\ ~Allows(key) =>
                          /\ Cardinality(Within(key, now - WindowMs, now)) >= MaxPerWindow
                          /\ Cardinality(Within(key, now + RetryAfter(key) - WindowMs, now))
                                < MaxPerWindow
  BY DEF LimiterIsFair
<1> DEFINE times == allowed[key]
           window == windows[key]
           p == InWindow(window)
           n == Len(times)
           l == Len(p)
<1>1. /\ now \in Nat /\ times \in Seq(Nat) /\ window \in Seq(Nat)
      /\ OfClient(now, times, window)
  BY DEF LimiterInv, OfClient
<1>2. \A i \in DOMAIN times :
         Cardinality(Within(key, times[i] - WindowMs, times[i])) <= MaxPerWindow
  BY <1>1 DEF OfClient, Fair, Upto, Within
<1>3. ASSUME ~Allows(key)
      PROVE  /\ Cardinality(Within(key, now - WindowMs, now)) >= MaxPerWindow
             /\ Cardinality(Within(key, now + RetryAfter(key) - WindowMs, now))
                   < MaxPerWindow
  <2>1. /\ p \in Seq(Nat) /\ Covers(now, times, p)
        /\ \A i \in DOMAIN times : times[i] > now - WindowMs <=> i > n - l
    <3> HIDE DEF times, window
    <3> QED
      BY <1>1, PrunedCovers DEF OfClient
  <2>2. l >= MaxPerWindow /\ l \in 0..n /\ n \in Nat /\ l # 0
    BY <1>1, <1>3, <2>1 DEF Allows, Covers
  <2>3. /\ \A i \in 1..n : times[i] \in Nat /\ times[i] <= now
        /\ \A i \in 1..l : p[i] = times[n - l + i]
        /\ DOMAIN times = 1..n
    <3>1. DOMAIN times = 1..n /\ \A i \in 1..n : times[i] \in Nat
      BY <1>1
    <3>2. \A i \in 1..n : times[i] <= now
      BY <1>1, <3>1 DEF OfClient
    <3>3. DOMAIN p = 1..l
      BY <2>1
    <3>4. \A i \in 1..l : p[i] = times[n - l + i]
      BY <2>1, <3>3 DEF Covers
    <3> QED
      BY <3>1, <3>2, <3>4
  <2>4. \A from, to : Within(key, from, to) = {i \in 1..n : from < times[i] /\ times[i] <= to}
    BY <2>3 DEF Within
  <2>5. RetryAfter(key) = Max({Head(p) + WindowMs - now, 1})
    BY DEF RetryAfter
  <2>6. Head(p) = times[n - l + 1]
    BY <2>1, <2>2, <2>3
  <2> HIDE DEF times, window, p, n, l
  <2>7. Within(key, now - WindowMs, now) = n - l + 1..n
    <3>1. \A i \in 1..n : (now - WindowMs < times[i] /\ times[i] <= now) <=> i >= n - l + 1
      <4> SUFFICES ASSUME NEW i \in 1..n
                   PROVE  (now - WindowMs < times[i] /\ times[i] <= now) <=> i >= n - l + 1
        OBVIOUS
      <4>1. times[i] \in Nat /\ times[i] <= now /\ i \in DOMAIN times
        BY <2>3
      <4>2. times[i] > now - WindowMs <=> i > n - l
        BY <2>1, <4>1
      <4> QED
        BY <1>1, <2>2, <4>1, <4>2
    <3>2. {i \in 1..n : i >= n - l + 1} = n - l + 1..n
      BY <2>2
    <3>3. Within(key, now - WindowMs, now) = {i \in 1..n : i >= n - l + 1}
      <4>1. Within(key, now - WindowMs, now)
               = {i \in 1..n : now - WindowMs < times[i] /\ times[i] <= now}
        BY <2>4
      <4> QED
        BY <3>1, <4>1
    <3> QED
      BY <3>2, <3>3
  <2>8. IsFiniteSet(n - l + 1..n) /\ Cardinality(n - l + 1..n) = l
    BY <2>2, RecentAreCounted
  <2>9. n - l + 1 \in 1..n
    BY <2>2
  <2> DEFINE first == times[n - l + 1]
             again == RetryAfter(key)
  <2>10. first \in Nat
    BY <2>3, <2>9
  <2>11. again \in Int /\ again >= first + WindowMs - now /\ again >= 1
    <3> HIDE DEF first, again
    <3> DEFINE x == first + WindowMs - now
    <3>0. x \in Int
      BY <1>1, <2>10
    <3>1. again = Max({x, 1})
      <4>1. Head(p) = first
        BY <2>6 DEF first
      <4> QED
        BY <2>5, <4>1 DEF again
    <3> HIDE DEF x
    <3>2. \E y \in {x, 1} : \A z \in {x, 1} : y >= z
      BY <3>0
    <3>3. Max({x, 1}) \in {x, 1} /\ \A z \in {x, 1} : Max({x, 1}) >= z
      BY <3>2 DEF Max
    <3> QED
      BY <3>0, <3>1, <3>3 DEF x
  <2> HIDE DEF first, again
  <2>12. Within(key, now + again - WindowMs, now) \subseteq n - l + 2..n
    <3> SUFFICES ASSUME NEW i \in 1..n, now + again - WindowMs < times[i], times[i] <= now
                 PROVE  i \in n - l + 2..n
      BY <2>4
    <3>1. times[i] \in Nat /\ times[i] > first /\ times[i] > now - WindowMs
      BY <1>1, <2>3, <2>10, <2>11
    <3>2. i > n - l /\ i # n - l + 1
      BY <2>1, <2>3, <3>1 DEF first
    <3> QED
      BY <2>2, <3>2
  <2>13. l - 1 \in 0..n /\ n - (l - 1) + 1 = n - l + 2
    BY <2>2
  <2>14. IsFiniteSet(n - l + 2..n) /\ Cardinality(n - l + 2..n) = l - 1
    BY <2>2, <2>13, RecentAreCounted
  <2>15. /\ Cardinality(Within(key, now + again - WindowMs, now)) \in Nat
         /\ Cardinality(Within(key, now + again - WindowMs, now)) <= l - 1
    BY <2>12, <2>14, FS_Subset, FS_CardinalityType
  <2>16. l <= MaxPerWindow
    <3>1. /\ IsFiniteSet(Upto(times, times[n]))
          /\ Cardinality(Upto(times, times[n])) \in Nat
          /\ Cardinality(Upto(times, times[n])) <= MaxPerWindow
      <4>1. IsFiniteSet(1..n) /\ Upto(times, times[n]) \subseteq 1..n
        BY <2>2, <2>3, FS_Interval DEF Upto
      <4>2. n \in DOMAIN times
        BY <2>2, <2>3
      <4> QED
        BY <1>1, <4>1, <4>2, FS_Subset, FS_CardinalityType DEF OfClient, Fair
    <3>2. n - l + 1..n \subseteq Upto(times, times[n])
      <4> SUFFICES ASSUME NEW i \in n - l + 1..n
                   PROVE  i \in Upto(times, times[n])
        OBVIOUS
      <4>1. i \in 1..n /\ n \in 1..n /\ i <= n /\ i > n - l
        BY <2>2
      <4>2. /\ times[i] \in Nat /\ times[n] \in Nat /\ times[n] <= now
            /\ times[i] > now - WindowMs /\ times[i] <= times[n]
        BY <1>1, <2>1, <2>3, <4>1 DEF OfClient, InOrder
      <4> QED
        BY <1>1, <2>3, <4>1, <4>2 DEF Upto
    <3> QED
      BY <2>2, <2>8, <3>1, <3>2, FS_Subset
  <2> QED
    BY <2>2, <2>7, <2>8, <2>15, <2>16 DEF again
<1> QED
  BY <1>2, <1>3

-----------------------------------------------------------------------------
(* Flows and sessions *)

Awaiting == [phase: {"discovery", "exchange", "keys"}, kind: {"login", "callback"},
             flow: Nat, code: Nat, token: Nat, since: Nat]

Fetching == [phase: {"fetching"}, flow: Nat, token: Nat, known: Nat, since: Nat]

RequestStates == {Free} \cup Awaiting \cup Fetching

SessionRows == [flow: Nat, stored: BOOLEAN, expires_at: Nat]

\* A callback has taken a flow.
Carries(r) == \/ r.phase \in {"exchange", "keys", "fetching"}
              \/ (r.phase = "discovery" /\ r.kind = "callback")

FlowsOf(r) == IF Carries(r) THEN {r.flow} ELSE {}

SessionFlows == {sessions[i].flow : i \in DOMAIN sessions}

LoginTyped ==
    /\ now \in Nat
    /\ flows \in Nat
    /\ request \in [Slots -> RequestStates]
    /\ sessions \in Seq(SessionRows)
    /\ rotations \in Seq(Nat)

\* A flow is open, or one callback has it, or one session came of it.
FlowsApart ==
    /\ DOMAIN pendingAuthFlows \cup SessionFlows \subseteq 1..flows
    /\ SessionFlows \cap DOMAIN pendingAuthFlows = {}
    /\ \A s \in Slots :
          /\ FlowsOf(request[s]) \subseteq 1..flows
          /\ FlowsOf(request[s]) \cap (DOMAIN pendingAuthFlows \cup SessionFlows) = {}
    /\ \A s, t \in Slots : s # t => FlowsOf(request[s]) \cap FlowsOf(request[t]) = {}
    /\ \A i, j \in DOMAIN sessions : sessions[i].flow = sessions[j].flow => i = j

\* Who was answered with a session, and which sessions nobody knows of
AnswersRight ==
    /\ answers \subseteq DOMAIN sessions
    /\ seeded # "provider and agent" => answers = {}
    /\ seeded = "provider and agent" => answers = DOMAIN sessions
    /\ \A i \in DOMAIN sessions \ answers : sessions[i].stored

\* Keys that were learnt at a time are all that there were then, or more: the
\* others are of that time or later.
Learnt(known, at, times, time) ==
    /\ known \in Nat /\ at \in 0..time
    /\ \A i \in DOMAIN times : i > known => times[i] >= at

\* What a request knows of the provider's keys
Informed(r, times, time) ==
    /\ r.phase \in {"discovery", "exchange", "keys"} => r.token \in 0..Len(times)
    /\ r.phase = "fetching" => Learnt(r.known, r.since, times, time)

KeysInv ==
    /\ \A i \in DOMAIN rotations : rotations[i] <= now
    /\ jwksCache.fetchedAt # Never
          => Learnt(jwksCache.known, jwksCache.fetchedAt, rotations, now)
    /\ \A s \in Slots : Informed(request[s], rotations, now)

LoginInv == LoginTyped /\ FlowsApart /\ AnswersRight /\ KeysInv

SessionsInv == LimiterInv /\ LoginInv

-----------------------------------------------------------------------------
(* Requests that go on *)

\* A free slot has no flow and knows nothing of the provider.
LEMMA FreeCarriesNothing ==
  /\ Free \in RequestStates /\ FlowsOf(Free) = {}
  /\ \A times, time : Informed(Free, times, time)
BY DEF Free, RequestStates, FlowsOf, Carries, Informed

\* A request that awaits holds the flow it took.
LEMMA AwaitsCarries ==
  ASSUME now \in Nat, NEW phase \in {"discovery", "exchange", "keys"},
         NEW kind \in {"login", "callback"}, NEW flow \in Nat, NEW code \in Nat,
         NEW token \in Nat
  PROVE  /\ Awaits(phase, kind, flow, code, token) \in RequestStates
         /\ FlowsOf(Awaits(phase, kind, flow, code, token)) =
               IF phase = "discovery" /\ kind = "login" THEN {} ELSE {flow}
         /\ token \in 0..Len(rotations)
               => Informed(Awaits(phase, kind, flow, code, token), rotations, now)
<1> DEFINE a == Awaits(phase, kind, flow, code, token)
<1>1. a \in Awaiting
  BY DEF Awaits, Awaiting
<1>2. a.phase = phase /\ a.kind = kind /\ a.flow = flow /\ a.token = token
  BY DEF Awaits
<1> HIDE DEF a
<1>3. FlowsOf(a) = IF phase = "discovery" /\ kind = "login" THEN {} ELSE {flow}
  BY <1>2 DEF FlowsOf, Carries
<1>4. token \in 0..Len(rotations) => Informed(a, rotations, now)
  BY <1>2 DEF Informed
<1> QED
  BY <1>1, <1>3, <1>4 DEF a, RequestStates

\* No request takes a flow, and none knows of keys that are not there.
NothingTaken ==
    /\ request' \in [Slots -> RequestStates]
    /\ \A s \in Slots : /\ FlowsOf(request'[s]) \subseteq FlowsOf(request[s])
                        /\ Informed(request'[s], rotations, now)

\* A slot that keeps the flow it has, or drops it, takes nothing from another.
LEMMA SlotGoesOn ==
  ASSUME LoginInv, NEW s \in Slots, NEW q \in RequestStates,
         request' = [request EXCEPT ![s] = q],
         FlowsOf(q) \subseteq FlowsOf(request[s]), Informed(q, rotations, now)
  PROVE  NothingTaken
<1>1. request \in [Slots -> RequestStates] /\ \A t \in Slots : Informed(request[t], rotations, now)
  BY DEF LoginInv, LoginTyped, KeysInv
<1>2. /\ request' \in [Slots -> RequestStates]
      /\ request'[s] = q /\ \A t \in Slots : t # s => request'[t] = request[t]
  BY <1>1
<1> QED
  BY <1>1, <1>2 DEF NothingTaken

\* A step that leaves the requests alone takes nothing.
LEMMA SameRequests ==
  ASSUME LoginInv, request' = request
  PROVE  NothingTaken
BY DEF LoginInv, LoginTyped, KeysInv, NothingTaken

\* The keys, when the provider has no new one
LEMMA KeysStay ==
  ASSUME LoginInv, NothingTaken \/ \A s \in Slots : Informed(request'[s], rotations, now),
         now' = now, rotations' = rotations,
         jwksCache' = jwksCache
            \/ Learnt(jwksCache'.known, jwksCache'.fetchedAt, rotations, now)
  PROVE  KeysInv'
<1>1. \A s \in Slots : Informed(request'[s], rotations, now)
  BY DEF NothingTaken
<1> QED
  BY <1>1 DEF LoginInv, KeysInv

\* Requests go on, and nothing else happens.
LEMMA RequestsGoOn ==
  ASSUME LoginInv, NothingTaken,
         UNCHANGED <<now, seeded, flowVars, jwksCache, rotations, sessionVars>>
  PROVE  LoginInv'
<1>1. /\ now' = now /\ seeded' = seeded /\ pendingAuthFlows' = pendingAuthFlows
      /\ flows' = flows /\ jwksCache' = jwksCache /\ rotations' = rotations
      /\ sessions' = sessions /\ answers' = answers
  BY DEF flowVars, sessionVars
<1>2. LoginTyped'
  BY <1>1 DEF LoginInv, LoginTyped, NothingTaken
<1>3. KeysInv'
  BY <1>1, KeysStay
<1>4. FlowsApart'
  BY <1>1 DEF LoginInv, FlowsApart, NothingTaken, SessionFlows
<1>5. AnswersRight'
  BY <1>1 DEF LoginInv, AnswersRight
<1> QED
  BY <1>2, <1>3, <1>4, <1>5 DEF LoginInv

\* A login stores its flow, under a state that no flow has had.
LEMMA FlowStored ==
  ASSUME LoginInv, NothingTaken, StoreFlow,
         UNCHANGED <<now, seeded, jwksCache, rotations, sessionVars>>
  PROVE  LoginInv'
<1>1. /\ now' = now /\ seeded' = seeded /\ jwksCache' = jwksCache
      /\ rotations' = rotations /\ sessions' = sessions /\ answers' = answers
  BY DEF sessionVars
<1>2. /\ flows \in Nat /\ flows' = flows + 1
      /\ DOMAIN pendingAuthFlows' \subseteq DOMAIN pendingAuthFlows \cup {flows + 1}
  BY DEF StoreFlow, generatePKCE, LoginInv, LoginTyped
<1>3. LoginTyped'
  BY <1>1, <1>2 DEF LoginInv, LoginTyped, NothingTaken
<1>4. KeysInv'
  BY <1>1, KeysStay
<1>5. FlowsApart'
  <2>1. SessionFlows' = SessionFlows
    BY <1>1 DEF SessionFlows
  <2>2. 1..flows \subseteq 1..flows' /\ flows + 1 \in 1..flows' /\ flows + 1 \notin 1..flows
    BY <1>2
  <2>3. DOMAIN pendingAuthFlows' \cup SessionFlows' \subseteq 1..flows'
    BY <1>2, <2>1, <2>2 DEF LoginInv, FlowsApart
  <2>4. SessionFlows' \cap DOMAIN pendingAuthFlows' = {}
    BY <1>2, <2>1, <2>2 DEF LoginInv, FlowsApart
  <2>5. \A s \in Slots :
          /\ FlowsOf(request'[s]) \subseteq 1..flows'
          /\ FlowsOf(request'[s]) \cap (DOMAIN pendingAuthFlows' \cup SessionFlows') = {}
    BY <1>2, <2>1, <2>2 DEF LoginInv, FlowsApart, NothingTaken
  <2>6. \A s, t \in Slots : s # t => FlowsOf(request'[s]) \cap FlowsOf(request'[t]) = {}
    BY DEF LoginInv, FlowsApart, NothingTaken
  <2> QED
    BY <1>1, <2>3, <2>4, <2>5, <2>6 DEF LoginInv, FlowsApart
<1>6. AnswersRight'
  BY <1>1 DEF LoginInv, AnswersRight
<1> QED
  BY <1>3, <1>4, <1>5, <1>6 DEF LoginInv

\* A login is given a state of its own, or waits for the discovery document.
LEMMA LoginKeeps ==
  ASSUME LoginInv, NEW s \in Slots, NEW key, Login(s, key)
  PROVE  LoginInv'
<1>1. UNCHANGED <<now, seeded, jwksCache, rotations, sessionVars>>
  BY DEF Login, cacheVars
<1>2. CASE Cached(discoveryCache)
  BY <1>1, <1>2, SameRequests, FlowStored DEF Login
<1>3. CASE ~Cached(discoveryCache)
  <2> DEFINE q == Awaits("discovery", "login", 0, 0, 0)
  <2>1. request' = [request EXCEPT ![s] = q] /\ UNCHANGED flowVars
    BY <1>3 DEF Login
  <2>2. 0 \in 0..Len(rotations) /\ now \in Nat
    BY DEF LoginInv, LoginTyped
  <2>3. q \in RequestStates /\ FlowsOf(q) = {} /\ Informed(q, rotations, now)
    BY <2>2, AwaitsCarries
  <2> HIDE DEF q
  <2>4. NothingTaken
    BY <2>1, <2>3, SlotGoesOn
  <2> QED
    BY <1>1, <2>1, <2>4, RequestsGoOn
<1> QED
  BY <1>2, <1>3

\* A callback takes a flow, which is nobody else's then.
LEMMA CallbackKeeps ==
  ASSUME LoginInv, NEW s \in Slots, NEW key, NEW state \in 1..flows, NEW code \in Codes,
         Callback(s, key, state, code)
  PROVE  LoginInv'
<1>1. /\ UNCHANGED <<now, seeded, flows, jwksCache, rotations, sessionVars>>
      /\ request[s] = Free
  BY DEF Callback, cacheVars
<1>2. /\ now' = now /\ seeded' = seeded /\ flows' = flows /\ jwksCache' = jwksCache
      /\ rotations' = rotations /\ sessions' = sessions /\ answers' = answers
  BY <1>1 DEF sessionVars
<1>3. CASE state \notin DOMAIN pendingAuthFlows
  <2>1. request' = request /\ UNCHANGED flowVars
    BY <1>1, <1>3 DEF Callback, flowVars
  <2> QED
    BY <1>1, <2>1, SameRequests, RequestsGoOn
<1>4. CASE state \in DOMAIN pendingAuthFlows
  <2>1. DOMAIN pendingAuthFlows' = DOMAIN pendingAuthFlows \ {state}
    BY <1>4 DEF Callback, FlowsWithout
  <2>2. PICK q \in RequestStates :
           /\ FlowsOf(q) \subseteq {state} /\ Informed(q, rotations, now)
           /\ request' = [request EXCEPT ![s] = q]
    <3>1. CASE now - pendingAuthFlows[state] > FlowTtl
      <4>1. request' = [request EXCEPT ![s] = Free]
        BY <1>1, <1>4, <3>1 DEF Callback, LoginInv, LoginTyped
      <4> QED
        BY <4>1, FreeCarriesNothing
    <3>2. CASE ~(now - pendingAuthFlows[state] > FlowTtl)
      <4> DEFINE phase == IF Cached(discoveryCache) THEN "exchange" ELSE "discovery"
      <4>1. phase \in {"discovery", "exchange", "keys"}
        OBVIOUS
      <4>2. request' = [request EXCEPT ![s] = Awaits(phase, "callback", state, code, 0)]
        BY <1>4, <3>2 DEF Callback
      <4>3. now \in Nat /\ state \in Nat /\ code \in Nat /\ 0 \in 0..Len(rotations)
        BY DEF LoginInv, LoginTyped, Codes
      <4> HIDE DEF phase
      <4> DEFINE a == Awaits(phase, "callback", state, code, 0)
      <4>4. a \in RequestStates /\ FlowsOf(a) = {state} /\ Informed(a, rotations, now)
        BY <4>1, <4>3, AwaitsCarries
      <4> HIDE DEF a
      <4>5. request' = [request EXCEPT ![s] = a]
        BY <4>2 DEF a
      <4> QED
        BY <4>4, <4>5
    <3> QED
      BY <3>1, <3>2
  <2>3. /\ request' \in [Slots -> RequestStates]
        /\ request'[s] = q /\ \A t \in Slots : t # s => request'[t] = request[t]
    BY <2>2 DEF LoginInv, LoginTyped
  <2>4. LoginTyped'
    BY <1>2, <2>3 DEF LoginInv, LoginTyped
  <2>5. KeysInv'
    <3>1. \A t \in Slots : Informed(request'[t], rotations, now)
      BY <2>2, <2>3 DEF LoginInv, KeysInv
    <3> QED
      BY <1>2, <3>1, KeysStay
  <2>6. AnswersRight'
    BY <1>2 DEF LoginInv, AnswersRight
  <2>7. FlowsApart'
    <3>1. SessionFlows' = SessionFlows
      BY <1>2 DEF SessionFlows
    <3>2. /\ DOMAIN pendingAuthFlows' \cup SessionFlows' \subseteq 1..flows'
          /\ SessionFlows' \cap DOMAIN pendingAuthFlows' = {}
      BY <1>2, <2>1, <3>1 DEF LoginInv, FlowsApart
    <3>3. state \in 1..flows /\ state \notin SessionFlows /\ state \notin DOMAIN pendingAuthFlows'
          /\ \A t \in Slots : state \notin FlowsOf(request[t])
      BY <1>4, <2>1 DEF LoginInv, FlowsApart
    <3>4. \A t \in Slots :
             /\ FlowsOf(request'[t]) \subseteq 1..flows'
             /\ FlowsOf(request'[t]) \cap (DOMAIN pendingAuthFlows' \cup SessionFlows') = {}
      <4> SUFFICES ASSUME NEW t \in Slots
                   PROVE  /\ FlowsOf(request'[t]) \subseteq 1..flows'
                          /\ FlowsOf(request'[t])
                                \cap (DOMAIN pendingAuthFlows' \cup SessionFlows') = {}
        OBVIOUS
      <4>1. CASE t = s
        BY <1>2, <2>2, <2>3, <3>1, <3>3, <4>1
      <4>2. CASE t # s
        BY <1>2, <2>1, <2>3, <3>1, <4>2 DEF LoginInv, FlowsApart
      <4> QED
        BY <4>1, <4>2
    <3>5. \A t, u \in Slots : t # u => FlowsOf(request'[t]) \cap FlowsOf(request'[u]) = {}
      <4> SUFFICES ASSUME NEW t \in Slots, NEW u \in Slots, t # u
                   PROVE  FlowsOf(request'[t]) \cap FlowsOf(request'[u]) = {}
        OBVIOUS
      <4>1. CASE t = s
        BY <2>2, <2>3, <3>3, <4>1
      <4>2. CASE u = s
        BY <2>2, <2>3, <3>3, <4>2
      <4>3. CASE t # s /\ u # s
        BY <2>3, <4>3 DEF LoginInv, FlowsApart
      <4> QED
        BY <4>1, <4>2, <4>3
    <3> QED
      BY <1>2, <3>2, <3>4, <3>5 DEF LoginInv, FlowsApart
  <2> QED
    BY <2>4, <2>5, <2>6, <2>7 DEF LoginInv
<1> QED
  BY <1>3, <1>4

\* The discovery document lets a login make its flow and a callback go on.
LEMMA DiscoveredKeeps ==
  ASSUME LoginInv, NEW s \in Slots, Discovered(s)
  PROVE  LoginInv'
<1> DEFINE r == request[s]
<1>1. /\ UNCHANGED <<now, seeded, jwksCache, rotations, sessionVars>>
      /\ r.phase = "discovery"
  BY DEF Discovered
<1>2. r \in Awaiting /\ r.token \in 0..Len(rotations) /\ now \in Nat
  <2>1. r \in RequestStates /\ Informed(r, rotations, now) /\ now \in Nat
    BY DEF LoginInv, LoginTyped, KeysInv
  <2> HIDE DEF r
  <2> QED
    BY <1>1, <2>1 DEF RequestStates, Free, Fetching, Informed
<1>3. CASE r.kind = "login"
  <2>1. request' = [request EXCEPT ![s] = Free] /\ StoreFlow
    BY <1>3 DEF Discovered, Done
  <2>2. NothingTaken
    BY <2>1, FreeCarriesNothing, SlotGoesOn
  <2> QED
    BY <1>1, <2>1, <2>2, FlowStored
<1>4. CASE r.kind # "login"
  <2> DEFINE phase == IF r.token = 0 THEN "exchange" ELSE "keys"
             q == Awaits(phase, "callback", r.flow, r.code, r.token)
  <2>1. request' = [request EXCEPT ![s] = q] /\ UNCHANGED flowVars
    BY <1>4 DEF Discovered
  <2> HIDE DEF r
  <2>2. r.kind = "callback" /\ r.flow \in Nat /\ r.code \in Nat /\ r.token \in Nat
    BY <1>2, <1>4 DEF Awaiting
  <2>3. FlowsOf(r) = {r.flow}
    BY <1>1, <2>2 DEF FlowsOf, Carries
  <2>4. phase \in {"discovery", "exchange", "keys"} /\ phase # "discovery"
    OBVIOUS
  <2> HIDE DEF phase
  <2>5. q \in RequestStates /\ FlowsOf(q) = {r.flow} /\ Informed(q, rotations, now)
    BY <1>2, <2>2, <2>4, AwaitsCarries
  <2> HIDE DEF q
  <2>6. NothingTaken
    BY <2>1, <2>3, <2>5, SlotGoesOn DEF r
  <2> QED
    BY <1>1, <2>1, <2>6, RequestsGoOn
<1> QED
  BY <1>3, <1>4

\* The token that a code is exchanged for is signed with a key the provider had by then.
LEMMA ExchangedKeeps ==
  ASSUME LoginInv, NEW s \in Slots, Exchanged(s)
  PROVE  LoginInv'
<1> DEFINE r == request[s]
           phase == IF Cached(discoveryCache) THEN "keys" ELSE "discovery"
           q == Awaits(phase, "callback", r.flow, r.code, NewestKey)
<1>1. /\ UNCHANGED <<now, seeded, flowVars, jwksCache, rotations, sessionVars>>
      /\ r.phase = "exchange"
      /\ request' = [request EXCEPT ![s] = q]
  BY DEF Exchanged, cacheVars
<1>2. r \in RequestStates /\ now \in Nat /\ Len(rotations) \in Nat
  BY DEF LoginInv, LoginTyped
<1>3. NewestKey \in 0..Len(rotations) /\ NewestKey \in Nat
  BY <1>2 DEF NewestKey
<1>4. phase \in {"discovery", "exchange", "keys"}
  OBVIOUS
<1> HIDE DEF r, phase
<1>5. r.flow \in Nat /\ r.code \in Nat /\ FlowsOf(r) = {r.flow}
  BY <1>1, <1>2 DEF RequestStates, Free, Awaiting, Fetching, FlowsOf, Carries
<1>6. q \in RequestStates /\ FlowsOf(q) = {r.flow} /\ Informed(q, rotations, now)
  BY <1>2, <1>3, <1>4, <1>5, AwaitsCarries
<1> HIDE DEF q
<1>7. NothingTaken
  BY <1>1, <1>5, <1>6, SlotGoesOn DEF r
<1> QED
  BY <1>1, <1>7, RequestsGoOn

\* A request that fails lets go of its flow, which stays used.
LEMMA FailsKeeps ==
  ASSUME LoginInv, NEW s \in Slots, Fails(s)
  PROVE  LoginInv'
<1>1. /\ UNCHANGED <<now, seeded, flowVars, jwksCache, rotations, sessionVars>>
      /\ request' = [request EXCEPT ![s] = Free]
  BY DEF Fails, Done, cacheVars
<1>2. NothingTaken
  BY <1>1, FreeCarriesNothing, SlotGoesOn
<1> QED
  BY <1>1, <1>2, RequestsGoOn

\* A callback that asks for keys still holds its flow.
LEMMA AsksForKeysKeeps ==
  ASSUME LoginInv, NEW s \in Slots, AsksForKeys(s)
  PROVE  LoginInv'
<1> DEFINE r == request[s]
           q == [phase |-> "fetching", flow |-> r.flow, token |-> r.token,
                 known |-> NewestKey, since |-> now]
<1>1. /\ UNCHANGED <<now, seeded, flowVars, jwksCache, rotations, sessionVars>>
      /\ r.phase = "keys"
      /\ request' = [request EXCEPT ![s] = q]
  BY DEF AsksForKeys, cacheVars
<1>2. r \in RequestStates /\ now \in Nat /\ rotations \in Seq(Nat)
  BY DEF LoginInv, LoginTyped
<1>3. NewestKey \in Nat /\ NewestKey = Len(rotations)
  BY <1>2 DEF NewestKey
<1> HIDE DEF r
<1>4. r.flow \in Nat /\ r.token \in Nat /\ FlowsOf(r) = {r.flow}
  BY <1>1, <1>2 DEF RequestStates, Free, Awaiting, Fetching, FlowsOf, Carries
<1>5. q \in Fetching
  BY <1>2, <1>3, <1>4 DEF Fetching
<1>6. q.phase = "fetching" /\ q.flow = r.flow /\ q.known = NewestKey /\ q.since = now
  OBVIOUS
<1> HIDE DEF q
<1>7. FlowsOf(q) = {r.flow}
  BY <1>6 DEF FlowsOf, Carries
<1>8. Informed(q, rotations, now)
  BY <1>2, <1>3, <1>6 DEF Informed, Learnt
<1>9. NothingTaken
  BY <1>1, <1>4, <1>5, <1>7, <1>8, SlotGoesOn DEF r, RequestStates
<1> QED
  BY <1>1, <1>9, RequestsGoOn

-----------------------------------------------------------------------------
(* The token is verified *)

\* A session is stored for the flow that the request has.
LEMMA SessionStored ==
  ASSUME LoginInv, NEW r \in RequestStates, r.phase \in {"keys", "fetching"},
         StoreSession(r), UNCHANGED <<now, seeded>>
  PROVE  /\ AnswersRight' /\ sessions' \in Seq(SessionRows)
         /\ \/ sessions' = sessions
            \/ /\ DOMAIN sessions' = 1..Len(sessions) + 1
               /\ sessions'[Len(sessions) + 1].flow = r.flow
               /\ \A i \in DOMAIN sessions : sessions'[i] = sessions[i]
<1>1. now \in Nat /\ sessions \in Seq(SessionRows)
  BY DEF LoginInv, LoginTyped
<1>2. r.flow \in Nat
  BY DEF RequestStates, Free, Awaiting, Fetching
<1> DEFINE new == NewSession(r.flow)
<1>3. new \in SessionRows /\ new.flow = r.flow /\ new.stored
  <2>1. SessionTtl \in Nat
    BY SessionsAssumption
  <2> QED
    BY <1>1, <1>2, <2>1 DEF NewSession, SessionRows
<1>4. /\ sessions' = IF seeded = "none" THEN sessions ELSE Append(sessions, new)
      /\ answers' = IF seeded = "provider and agent"
                    THEN answers \cup {Len(sessions')} ELSE answers
      /\ seeded' = seeded
  BY DEF StoreSession
<1> HIDE DEF new
<1>5. CASE seeded = "none"
  <2>1. sessions' = sessions /\ answers' = answers
    BY <1>4, <1>5
  <2> QED
    BY <1>1, <1>4, <2>1 DEF LoginInv, AnswersRight
<1>6. CASE seeded # "none"
  <2> DEFINE n == Len(sessions)
  <2>1. sessions' = Append(sessions, new)
    BY <1>4, <1>6
  <2>2. n \in Nat /\ DOMAIN sessions = 1..n
    BY <1>1
  <2>3. /\ sessions' \in Seq(SessionRows) /\ Len(sessions') = n + 1
        /\ DOMAIN sessions' = 1..n + 1
        /\ sessions'[n + 1] = new /\ \A i \in 1..n : sessions'[i] = sessions[i]
    BY <1>1, <1>3, <2>1
  <2> HIDE DEF n
  <2>4. 1..n + 1 = (1..n) \cup {n + 1}
    BY <2>2
  <2>5. CASE seeded = "provider and agent"
    <3>1. answers' = answers \cup {n + 1} /\ answers = 1..n
      BY <1>4, <2>2, <2>3, <2>5 DEF LoginInv, AnswersRight
    <3> QED
      BY <1>3, <1>4, <2>2, <2>3, <2>4, <2>5, <3>1 DEF AnswersRight, n
  <2>6. CASE seeded # "provider and agent"
    <3>1. answers' = answers /\ answers = {}
      BY <1>4, <2>6 DEF LoginInv, AnswersRight
    <3>2. \A i \in 1..n : sessions[i].stored
      BY <2>2, <3>1 DEF LoginInv, AnswersRight
    <3>3. \A i \in 1..n + 1 : sessions'[i].stored
      BY <1>3, <2>3, <2>4, <3>2
    <3> QED
      BY <1>3, <1>4, <2>2, <2>3, <2>6, <3>1, <3>3 DEF AnswersRight, n
  <2> QED
    BY <2>5, <2>6
<1> QED
  BY <1>5, <1>6

\* What a callback with keys does: it makes the one session of its flow, or none.
LEMMA VerifiedKeeps ==
  ASSUME LoginInv, NEW s \in Slots, NEW known, Verified(s, known),
         request[s].phase \in {"keys", "fetching"},
         jwksCache' = jwksCache
            \/ Learnt(jwksCache'.known, jwksCache'.fetchedAt, rotations, now)
  PROVE  LoginInv'
<1> DEFINE r == request[s]
<1>1. /\ IF r.token <= known THEN StoreSession(r) ELSE UNCHANGED sessionVars
      /\ request' = [request EXCEPT ![s] = Free]
      /\ now' = now /\ seeded' = seeded /\ pendingAuthFlows' = pendingAuthFlows
      /\ flows' = flows /\ rotations' = rotations
  BY DEF Verified, Done, flowVars
<1>2. NothingTaken
  BY <1>1, FreeCarriesNothing, SlotGoesOn
<1>3. KeysInv'
  BY <1>1, <1>2, KeysStay
<1>4. r \in RequestStates /\ sessions \in Seq(SessionRows)
  BY DEF LoginInv, LoginTyped
<1>5. /\ AnswersRight' /\ sessions' \in Seq(SessionRows)
      /\ \/ sessions' = sessions
         \/ /\ DOMAIN sessions' = 1..Len(sessions) + 1
            /\ sessions'[Len(sessions) + 1].flow = r.flow
            /\ \A i \in DOMAIN sessions : sessions'[i] = sessions[i]
  <2>1. CASE r.token <= known
    BY <1>1, <1>4, <2>1, SessionStored
  <2>2. CASE ~(r.token <= known)
    BY <1>1, <1>4, <2>2 DEF sessionVars, LoginInv, AnswersRight
  <2> QED
    BY <2>1, <2>2
<1>6. LoginTyped'
  BY <1>1, <1>2, <1>5 DEF LoginInv, LoginTyped, NothingTaken
<1>7. FlowsApart'
  <2>1. CASE sessions' = sessions
    BY <1>1, <1>2, <2>1 DEF LoginInv, FlowsApart, NothingTaken, SessionFlows
  <2>2. CASE sessions' # sessions
    <3> DEFINE f == r.flow
               n == Len(sessions)
    <3>1. /\ n \in Nat /\ DOMAIN sessions = 1..n /\ DOMAIN sessions' = (1..n) \cup {n + 1}
          /\ sessions'[n + 1].flow = f /\ n + 1 \notin 1..n
          /\ \A i \in 1..n : sessions'[i] = sessions[i]
      <4>1. n \in Nat /\ DOMAIN sessions = 1..n
        BY <1>4
      <4>2. /\ DOMAIN sessions' = 1..n + 1 /\ sessions'[n + 1].flow = f
            /\ \A i \in 1..n : sessions'[i] = sessions[i]
        BY <1>5, <2>2, <4>1
      <4> HIDE DEF n, f
      <4>3. 1..n + 1 = (1..n) \cup {n + 1} /\ n + 1 \notin 1..n
        BY <4>1
      <4> QED
        BY <4>1, <4>2, <4>3
    <3>2. SessionFlows' = SessionFlows \cup {f}
      BY <3>1 DEF SessionFlows
    <3>3. FlowsOf(request[s]) = {f}
      BY DEF FlowsOf, Carries
    <3>4. /\ f \in 1..flows /\ f \notin DOMAIN pendingAuthFlows /\ f \notin SessionFlows
          /\ \A t \in Slots : t # s => f \notin FlowsOf(request[t])
      BY <3>3 DEF LoginInv, FlowsApart
    <3>5. /\ FlowsOf(request'[s]) = {}
          /\ \A t \in Slots : t # s => request'[t] = request[t]
      BY <1>1, FreeCarriesNothing DEF LoginInv, LoginTyped
    <3> HIDE DEF f, n
    <3>6. /\ DOMAIN pendingAuthFlows' \cup SessionFlows' \subseteq 1..flows'
          /\ SessionFlows' \cap DOMAIN pendingAuthFlows' = {}
      BY <1>1, <3>2, <3>4 DEF LoginInv, FlowsApart
    <3>7. \A t \in Slots :
             /\ FlowsOf(request'[t]) \subseteq 1..flows'
             /\ FlowsOf(request'[t]) \cap (DOMAIN pendingAuthFlows' \cup SessionFlows') = {}
      BY <1>1, <3>2, <3>4, <3>5 DEF LoginInv, FlowsApart
    <3>8. \A t, u \in Slots : t # u => FlowsOf(request'[t]) \cap FlowsOf(request'[u]) = {}
      BY <1>2 DEF LoginInv, FlowsApart, NothingTaken
    <3>9. \A i, j \in DOMAIN sessions' : sessions'[i].flow = sessions'[j].flow => i = j
      <4>1. \A i \in 1..n : sessions'[i].flow # f
        BY <3>1, <3>4 DEF SessionFlows
      <4>2. \A i, j \in 1..n : sessions'[i].flow = sessions'[j].flow => i = j
        BY <3>1 DEF LoginInv, FlowsApart
      <4> QED
        BY <3>1, <4>1, <4>2
    <3> QED
      BY <3>6, <3>7, <3>8, <3>9 DEF FlowsApart
  <2> QED
    BY <2>1, <2>2
<1> QED
  BY <1>3, <1>5, <1>6, <1>7 DEF LoginInv

\* The keys that arrive are cached as of when they were asked for.
LEMMA KeysArriveKeeps ==
  ASSUME LoginInv, NEW s \in Slots, KeysArrive(s)
  PROVE  LoginInv'
<1> DEFINE r == request[s]
<1>1. /\ r.phase = "fetching" /\ jwksCache' = [known |-> r.known, fetchedAt |-> r.since]
      /\ Verified(s, r.known)
  BY DEF KeysArrive, AskedAt
<1>2. Learnt(r.known, r.since, rotations, now)
  BY <1>1 DEF LoginInv, KeysInv, Informed
<1> HIDE DEF r
<1>3. Learnt(jwksCache'.known, jwksCache'.fetchedAt, rotations, now)
  BY <1>1, <1>2
<1> QED
  BY <1>1, <1>3, VerifiedKeeps DEF r

\* Cached keys are used while they are young.
LEMMA KeysKeptKeeps ==
  ASSUME LoginInv, NEW s \in Slots, KeysKept(s)
  PROVE  LoginInv'
BY VerifiedKeeps DEF KeysKept

\* A logout ends a session and no other.
LEMMA LogoutKeeps ==
  ASSUME LoginInv, NEW key, NEW i \in answers, Logout(key, i)
  PROVE  LoginInv'
<1>1. /\ now' = now /\ seeded' = seeded /\ pendingAuthFlows' = pendingAuthFlows
      /\ flows' = flows /\ jwksCache' = jwksCache /\ rotations' = rotations
      /\ request' = request /\ answers' = answers
      /\ sessions' = [sessions EXCEPT ![i].stored = FALSE]
  BY DEF Logout, flowVars, cacheVars
<1>2. sessions \in Seq(SessionRows) /\ i \in DOMAIN sessions
  BY DEF LoginInv, LoginTyped, AnswersRight
<1> DEFINE row == [sessions[i] EXCEPT !.stored = FALSE]
<1>3. row \in SessionRows /\ row.flow = sessions[i].flow
  <2>1. sessions[i] \in SessionRows
    BY <1>2
  <2> QED
    BY <2>1 DEF SessionRows
<1>4. sessions' = [sessions EXCEPT ![i] = row]
  BY <1>1
<1> HIDE DEF row
<1>5. /\ sessions' \in Seq(SessionRows) /\ DOMAIN sessions' = DOMAIN sessions
      /\ \A j \in DOMAIN sessions : sessions'[j].flow = sessions[j].flow
      /\ \A j \in DOMAIN sessions \ answers : sessions'[j] = sessions[j]
  BY <1>2, <1>3, <1>4
<1>6. SessionFlows' = SessionFlows
  BY <1>5 DEF SessionFlows
<1>7. LoginTyped'
  BY <1>1, <1>5 DEF LoginInv, LoginTyped
<1>8. KeysInv'
  BY <1>1, SameRequests, KeysStay
<1>9. FlowsApart'
  <2>1. /\ DOMAIN pendingAuthFlows' = DOMAIN pendingAuthFlows /\ flows' = flows
        /\ \A s \in Slots : FlowsOf(request'[s]) = FlowsOf(request[s])
    BY <1>1
  <2>2. \A j, k \in DOMAIN sessions' : sessions'[j].flow = sessions'[k].flow => j = k
    BY <1>5 DEF LoginInv, FlowsApart
  <2> QED
    BY <1>6, <2>1, <2>2 DEF LoginInv, FlowsApart
<1>10. AnswersRight'
  BY <1>1, <1>5 DEF LoginInv, AnswersRight
<1> QED
  BY <1>7, <1>8, <1>9, <1>10 DEF LoginInv

\* A key that appears now is no older than what was learnt before.
LEMMA RotatesKeeps ==
  ASSUME LoginInv, ProviderRotates
  PROVE  LoginInv'
<1>1. /\ now' = now /\ seeded' = seeded /\ pendingAuthFlows' = pendingAuthFlows
      /\ flows' = flows /\ jwksCache' = jwksCache /\ request' = request
      /\ sessions' = sessions /\ answers' = answers
      /\ rotations' = Append(rotations, now)
  BY DEF ProviderRotates, flowVars, cacheVars, sessionVars
<1>2. rotations \in Seq(Nat) /\ now \in Nat
  BY DEF LoginInv, LoginTyped
<1> DEFINE n == Len(rotations)
<1>3. /\ n \in Nat /\ DOMAIN rotations = 1..n
      /\ rotations' \in Seq(Nat) /\ Len(rotations') = n + 1 /\ DOMAIN rotations' = 1..n + 1
      /\ rotations'[n + 1] = now /\ \A i \in 1..n : rotations'[i] = rotations[i]
  BY <1>1, <1>2
<1> HIDE DEF n
<1>4. ASSUME NEW known, NEW at, Learnt(known, at, rotations, now)
      PROVE  Learnt(known, at, rotations', now)
  <2>1. \A i \in 1..n + 1 : i = n + 1 \/ i \in 1..n
    BY <1>3
  <2> QED
    BY <1>2, <1>3, <1>4, <2>1 DEF Learnt
<1>5. ASSUME NEW r, Informed(r, rotations, now)
      PROVE  Informed(r, rotations', now)
  <2>1. 0..Len(rotations) \subseteq 0..Len(rotations')
    BY <1>3 DEF n
  <2> QED
    BY <1>4, <1>5, <2>1 DEF Informed
<1>6. KeysInv'
  <2>1. \A i \in DOMAIN rotations' : rotations'[i] <= now
    <3>1. \A i \in 1..n + 1 : i = n + 1 \/ i \in 1..n
      BY <1>3
    <3> QED
      BY <1>2, <1>3, <3>1 DEF LoginInv, KeysInv
  <2> QED
    BY <1>1, <1>4, <1>5, <2>1 DEF LoginInv, KeysInv
<1>7. LoginTyped'
  BY <1>1, <1>3 DEF LoginInv, LoginTyped
<1>8. FlowsApart' /\ AnswersRight'
  <2>1. SessionFlows' = SessionFlows
    BY <1>1 DEF SessionFlows
  <2>2. FlowsApart'
    BY <1>1, <2>1 DEF LoginInv, FlowsApart
  <2>3. AnswersRight'
    BY <1>1 DEF LoginInv, AnswersRight
  <2> QED
    BY <2>2, <2>3
<1> QED
  BY <1>6, <1>7, <1>8 DEF LoginInv

\* Time makes caches older and leaves logins alone.
LEMMA TickKeeps ==
  ASSUME LoginInv, Tick
  PROVE  LoginInv'
<1>1. /\ now' = now + 1 /\ seeded' = seeded /\ pendingAuthFlows' = pendingAuthFlows
      /\ flows' = flows /\ jwksCache' = jwksCache /\ request' = request
      /\ sessions' = sessions /\ answers' = answers /\ rotations' = rotations
  BY DEF Tick, flowVars, cacheVars, sessionVars
<1>2. now \in Nat /\ rotations \in Seq(Nat)
  BY DEF LoginInv, LoginTyped
<1>3. ASSUME NEW known, NEW at, Learnt(known, at, rotations, now)
      PROVE  Learnt(known, at, rotations, now + 1)
  BY <1>2, <1>3 DEF Learnt
<1>4. \A i \in DOMAIN rotations : rotations[i] <= now + 1
  <2>1. \A i \in DOMAIN rotations : rotations[i] \in Nat /\ rotations[i] <= now
    BY <1>2 DEF LoginInv, KeysInv
  <2> QED
    BY <1>2, <2>1
<1>5. KeysInv'
  BY <1>1, <1>3, <1>4 DEF LoginInv, KeysInv, Informed
<1>6. LoginTyped'
  BY <1>1, <1>2 DEF LoginInv, LoginTyped
<1>7. FlowsApart' /\ AnswersRight'
  <2>1. SessionFlows' = SessionFlows
    BY <1>1 DEF SessionFlows
  <2>2. FlowsApart'
    BY <1>1, <2>1 DEF LoginInv, FlowsApart
  <2>3. AnswersRight'
    BY <1>1 DEF LoginInv, AnswersRight
  <2> QED
    BY <2>2, <2>3
<1> QED
  BY <1>5, <1>6, <1>7 DEF LoginInv

-----------------------------------------------------------------------------
(* Every step *)

\* What the limiter sees of the steps
LEMMA LimiterKeeps ==
  ASSUME LimiterInv, [Next]_vars
  PROVE  LimiterInv'
<1>1. ASSUME now' = now, UNCHANGED limiterVars
      PROVE  LimiterInv'
  <2>1. \A key \in Clients : windows[key] \in {windows[key], InWindow(windows[key])}
    OBVIOUS
  <2>2. windows' = windows /\ allowed' = allowed
    BY <1>1 DEF limiterVars
  <2> QED
    BY <1>1, <2>1, <2>2, PruneKeeps DEF LimiterInv
<1>2. CASE \E s \in Slots, key \in Clients :
              \/ Login(s, key)
              \/ \E state \in 1..flows, code \in Codes : Callback(s, key, state, code)
  BY <1>2, AdmitKeeps DEF Login, Callback
<1>3. CASE \E s \in Slots : Provider(s)
  BY <1>1, <1>3 DEF Provider, Discovered, Exchanged, AsksForKeys, KeysArrive, KeysKept,
                    Fails, Verified
<1>4. CASE \E key \in Clients, i \in answers : Logout(key, i)
  BY <1>4, AdmitKeeps DEF Logout
<1>5. CASE \E key \in Clients : TooManyRequests(key)
  BY <1>5, RefuseKeeps DEF TooManyRequests
<1>6. CASE CleanupTimer
  BY <1>6, CleanupKeeps DEF CleanupTimer
<1>7. CASE ProviderRotates
  BY <1>1, <1>7 DEF ProviderRotates
<1>8. CASE Tick
  BY <1>8, TimePasses DEF Tick
<1>9. CASE UNCHANGED vars
  BY <1>1, <1>9 DEF vars
<1> QED
  BY <1>2, <1>3, <1>4, <1>5, <1>6, <1>7, <1>8, <1>9 DEF Next

\* Every step keeps the part on logins.
LEMMA LoginsKeep ==
  ASSUME LoginInv, [Next]_vars
  PROVE  LoginInv'
<1>1. ASSUME UNCHANGED <<now, seeded, flowVars, request, cacheVars, rotations, sessionVars>>
      PROVE  LoginInv'
  BY <1>1, SameRequests, RequestsGoOn DEF cacheVars
<1>2. CASE \E s \in Slots, key \in Clients :
              \/ Login(s, key)
              \/ \E state \in 1..flows, code \in Codes : Callback(s, key, state, code)
  BY <1>2, LoginKeeps, CallbackKeeps
<1>3. CASE \E s \in Slots : Provider(s)
  BY <1>3, DiscoveredKeeps, ExchangedKeeps, AsksForKeysKeeps, KeysArriveKeeps,
     KeysKeptKeeps, FailsKeeps DEF Provider
<1>4. CASE \E key \in Clients, i \in answers : Logout(key, i)
  BY <1>4, LogoutKeeps
<1>5. CASE \E key \in Clients : TooManyRequests(key)
  BY <1>1, <1>5 DEF TooManyRequests
<1>6. CASE CleanupTimer
  BY <1>1, <1>6 DEF CleanupTimer
<1>7. CASE ProviderRotates
  BY <1>7, RotatesKeeps
<1>8. CASE Tick
  BY <1>8, TickKeeps
<1>9. CASE UNCHANGED vars
  BY <1>1, <1>9 DEF vars
<1> QED
  BY <1>2, <1>3, <1>4, <1>5, <1>6, <1>7, <1>8, <1>9 DEF Next

\* At the start there are no flows, sessions or timestamps.
LEMMA Starts == Init => SessionsInv
<1> SUFFICES ASSUME Init
             PROVE  SessionsInv
  OBVIOUS
<1>1. /\ now = 0 /\ windows = [key \in Clients |-> <<>>]
      /\ allowed = [key \in Clients |-> <<>>]
      /\ pendingAuthFlows = [f \in {} |-> 0] /\ flows = 0
      /\ request = [s \in Slots |-> Free]
      /\ jwksCache = [known |-> 0, fetchedAt |-> Never]
      /\ rotations = <<0>> /\ sessions = <<>> /\ answers = {}
  BY DEF Init, LimiterInit
<1>2. LimiterInv
  <2>1. InOrder(<<>>) /\ Covers(0, <<>>, <<>>) /\ Fair(<<>>)
    BY DEF InOrder, Covers, Fair
  <2>2. windows \in [Clients -> Seq(Nat)] /\ allowed \in [Clients -> Seq(Nat)]
    BY <1>1
  <2> QED
    BY <1>1, <2>1, <2>2 DEF LimiterInv
<1>3. LoginTyped
  BY <1>1, FreeCarriesNothing DEF LoginTyped
<1>4. SessionFlows = {} /\ DOMAIN pendingAuthFlows = {}
  BY <1>1 DEF SessionFlows
<1>5. \A s \in Slots : request[s] = Free
  BY <1>1
<1>6. FlowsApart
  BY <1>1, <1>4, <1>5, FreeCarriesNothing DEF FlowsApart
<1>7. AnswersRight
  BY <1>1 DEF AnswersRight
<1>8. KeysInv
  <2>1. \A i \in DOMAIN rotations : rotations[i] <= now
    BY <1>1
  <2> QED
    BY <1>1, <1>5, <2>1, FreeCarriesNothing DEF KeysInv
<1> QED
  BY <1>2, <1>3, <1>6, <1>7, <1>8 DEF SessionsInv, LoginInv

\* Whatever overlaps: a flow is open, or in the hands of one callback, or the flow of
\* one session; windows cover what they must; and what the caches and the callbacks
\* know of the provider's keys was true when they asked.
THEOREM SessionsInvariant == Spec => []SessionsInv
<1>1. SessionsInv /\ [Next]_vars => SessionsInv'
  BY LimiterKeeps, LoginsKeep DEF SessionsInv
<1> QED
  BY Starts, <1>1, PTL DEF Spec

-----------------------------------------------------------------------------
(* The properties *)

\* No client is let through more often than its share in any window, and one that is
\* refused has had it, and has a place at the time it is told.
THEOREM TheLimiterIsFair == Spec => []LimiterIsFair
<1>1. SessionsInv => LimiterIsFair
  BY FairAtAnyTime DEF SessionsInv
<1> QED
  BY <1>1, SessionsInvariant, PTL

\* A login makes at most one session, however many callbacks come with its state; the
\* sessions that clients hold are those whose audit entry was written.
THEOREM LoginsAreSound == Spec => []LoginsSound
<1>1. SessionsInv => LoginsSound
  <2> SUFFICES ASSUME SessionsInv
               PROVE  LoginsSound
    OBVIOUS
  <2>1. FlowsApart /\ AnswersRight
    BY DEF SessionsInv, LoginInv
  <2>2. \A i \in Verifiable : sessions[i].flow \notin DOMAIN pendingAuthFlows
    BY <2>1 DEF Verifiable, AnswersRight, FlowsApart, SessionFlows
  <2>3. answers # {} => seeded = "provider and agent" /\ ListedFrom = "table"
    BY <2>1 DEF AnswersRight, ListedFrom
  <2> QED
    BY <2>1, <2>2, <2>3 DEF LoginsSound, FlowsApart, AnswersRight
<1> QED
  BY <1>1, SessionsInvariant, PTL

\* A token of a key that the cache does not know is refused for it only within a
\* CacheTtl of the key's first use, however long the answer with the keys took.
THEOREM NewKeysAreLearnt == Spec => NewKeyIsLearnt
<1> DEFINE Kept ==
      \A s \in Slots :
          (/\ request[s].phase = "keys" /\ request'[s] = Free
           /\ Cached(jwksCache.fetchedAt) /\ request[s].token > jwksCache.known)
          => now - rotations[request[s].token] < CacheTtl
<1>1. SessionsInv => Kept
  <2> SUFFICES ASSUME SessionsInv, NEW s \in Slots, request[s].phase = "keys",
                      Cached(jwksCache.fetchedAt), request[s].token > jwksCache.known
               PROVE  now - rotations[request[s].token] < CacheTtl
    OBVIOUS
  <2> DEFINE token == request[s].token
             at == jwksCache.fetchedAt
             known == jwksCache.known
  <2>1. /\ now \in Nat /\ rotations \in Seq(Nat)
        /\ token \in 0..Len(rotations) /\ at # Never /\ now - at < CacheTtl
        /\ Learnt(known, at, rotations, now)
    BY DEF SessionsInv, LoginInv, LoginTyped, KeysInv, Informed, Cached
  <2>2. token > known
    OBVIOUS
  <2> HIDE DEF token, at, known
  <2>3. token \in DOMAIN rotations /\ rotations[token] >= at /\ at \in Nat
        /\ rotations[token] \in Nat
    BY <2>1, <2>2 DEF Learnt
  <2>4. CacheTtl \in Nat
    BY SessionsAssumption
  <2> QED
    BY <2>1, <2>3, <2>4 DEF token
<1> QED
  BY <1>1, SessionsInvariant, PTL DEF Spec, NewKeyIsLearnt
=============================================================================
