--------------------------- MODULE AuditLogProofs ---------------------------
(***************************************************************************)
(* The audit log for any number of handlers, rows and clock values.  The   *)
(* invariant that carries the chain says which row getLastAuditHash finds: *)
(* the last one that arrived on time.                                      *)
(***************************************************************************)
EXTENDS AuditReads, FiniteSetTheorems, TLAPS

\* The row that is newest by timestamp and id.
IsNewest(i) == i \in Rows /\ \A j \in Rows \ {i} : Before(j, i)

\* The newest row is on time, and no row after it is.
LastOnTime(i) == /\ IsNewest(i)
                 /\ OnTime(i)
                 /\ \A k \in Rows : i < k => ~OnTime(k)

ChainInv == /\ TypeOK
            /\ audit_log # <<>> => \E i \in Rows : LastOnTime(i)
            /\ OnTimeRowsChained

-----------------------------------------------------------------------------
\* The entry that a step logs, if it logs one, is dated in the past.
LEMMA LoggingSteps ==
  ASSUME TypeOK, [Next]_vars
  PROVE  \/ UNCHANGED audit_log
         \/ \E entry \in Entry : /\ entry.timestamp <= clock
                                 /\ insertAuditLog(entry)
                                 /\ clock' = clock
<1>1. CASE UNCHANGED vars
  BY <1>1 DEF vars
<1>2. CASE Next
  <2>1. CASE \E h \in Handlers : LogAfterAwait(h)
    <3>1. PICK h \in Handlers : LogAfterAwait(h)
      BY <2>1
    <3>2. waiting[h] \in Entry /\ waiting[h].timestamp <= clock
      BY <3>1 DEF LogAfterAwait, TypeOK
    <3> QED
      BY <3>1, <3>2 DEF LogAfterAwait
  <2>2. CASE \E event \in Events : LogAtOnce(event)
    <3>1. PICK event \in Events : LogAtOnce(event)
      BY <2>2
    <3>2. [timestamp |-> Stamp, event |-> event] \in Entry
      BY DEF TypeOK, Entry, Stamp
    <3>3. Stamp <= clock
      BY DEF TypeOK, Stamp
    <3> QED
      BY <3>1, <3>2, <3>3 DEF LogAtOnce
  <2>3. CASE UNCHANGED audit_log
    BY <2>3
  <2> QED
    BY <1>2, <2>1, <2>2, <2>3 DEF Next, ReadClock, Abandon, Tick
<1> QED
  BY <1>1, <1>2

\* The log is a sequence of rows with dates that are numbers.
LEMMA RowsTyped ==
  ASSUME TypeOK
  PROVE  /\ Len(audit_log) \in Nat
         /\ Rows = 1..Len(audit_log)
         /\ \A i \in Rows : /\ audit_log[i].timestamp \in Nat
                           /\ audit_log[i].timestamp <= clock
                           /\ audit_log[i].event \in Events
                           /\ audit_log[i].prev_hash \in
                                 {Genesis} \cup {audit_log[j].row_hash : j \in Rows}
                           /\ audit_log[i] =
                                 [timestamp |-> audit_log[i].timestamp,
                                  event     |-> audit_log[i].event,
                                  prev_hash |-> audit_log[i].prev_hash,
                                  row_hash  |-> audit_log[i].row_hash]
<1> DEFINE R == [timestamp: 0..clock, event: Events,
                 prev_hash: {Genesis} \cup {audit_log[i].row_hash : i \in Rows},
                 row_hash: {audit_log[i].row_hash : i \in Rows}]
<1>1. audit_log \in Seq(R)
  BY DEF TypeOK
<1>2. ASSUME NEW r \in R
      PROVE  /\ r.timestamp \in Nat /\ r.timestamp <= clock
             /\ r.event \in Events
             /\ r.prev_hash \in
                   {Genesis} \cup {audit_log[j].row_hash : j \in Rows}
             /\ r = [timestamp |-> r.timestamp, event |-> r.event,
                     prev_hash |-> r.prev_hash, row_hash |-> r.row_hash]
  BY DEF TypeOK
<1> HIDE DEF R
<1>3. /\ Len(audit_log) \in Nat
      /\ Rows = 1..Len(audit_log)
      /\ \A i \in Rows : audit_log[i] \in R
  BY <1>1 DEF Rows
<1> QED
  BY <1>2, <1>3

\* The numbers among that.
LEMMA Dates ==
  ASSUME TypeOK
  PROVE  /\ Len(audit_log) \in Nat
         /\ Rows = 1..Len(audit_log)
         /\ \A i \in Rows : i \in Nat /\ audit_log[i].timestamp \in Nat
<1>1. Len(audit_log) \in Nat /\ Rows = 1..Len(audit_log)
  BY RowsTyped
<1>2. \A i \in Rows : audit_log[i].timestamp \in Nat
  BY RowsTyped
<1> QED
  BY <1>1, <1>2

\* What an insertion does to the log, row by row.
LEMMA Insertion ==
  ASSUME TypeOK, NEW entry, insertAuditLog(entry)
  PROVE  /\ Len(audit_log') = Len(audit_log) + 1
         /\ Rows' = Rows \cup {Len(audit_log) + 1}
         /\ \A i \in Rows : audit_log'[i] = audit_log[i]
         /\ audit_log'[Len(audit_log) + 1] = NewRow(Len(audit_log) + 1, entry)
         /\ Len(audit_log') <= MaxRows
<1> DEFINE row == NewRow(Len(audit_log) + 1, entry)
           R == {audit_log[i] : i \in Rows} \cup {row}
<1>1. audit_log \in Seq(R) /\ row \in R
  <2>1. PICK S : audit_log \in Seq(S)
    BY DEF TypeOK
  <2>2. /\ DOMAIN audit_log = 1..Len(audit_log) /\ Len(audit_log) \in Nat
        /\ audit_log = [i \in 1..Len(audit_log) |-> audit_log[i]]
    BY <2>1
  <2> QED
    BY <2>1, <2>2 DEF Rows
<1>2. audit_log' = Append(audit_log, row) /\ Len(audit_log) < MaxRows
  BY DEF insertAuditLog
<1>3. Rows = 1..Len(audit_log) /\ Len(audit_log) \in Nat
  BY RowsTyped
<1> HIDE DEF row, R
<1>4. /\ Len(audit_log') = Len(audit_log) + 1
      /\ DOMAIN audit_log' = 1..Len(audit_log) + 1
      /\ \A i \in 1..Len(audit_log) : audit_log'[i] = audit_log[i]
      /\ audit_log'[Len(audit_log) + 1] = row
  BY <1>1, <1>2, <1>3
<1>5. Rows' = Rows \cup {Len(audit_log) + 1}
  BY <1>3, <1>4 DEF Rows
<1> QED
  BY <1>2, <1>3, <1>4, <1>5, AuditAssumption DEF row

\* The row found by getLastAuditHash is the one that is newest.
LEMMA NewestFound ==
  ASSUME TypeOK, NEW i, IsNewest(i)
  PROVE  Newest = i
<1>1. \A j : IsNewest(j) => j = i
  <2> SUFFICES ASSUME NEW j, IsNewest(j), j # i PROVE FALSE
    OBVIOUS
  <2>1. /\ i \in Rows /\ j \in Rows
        /\ Before(j, i) /\ Before(i, j)
    BY DEF IsNewest
  <2>2. /\ audit_log[i].timestamp \in Nat /\ audit_log[j].timestamp \in Nat
        /\ i \in Nat /\ j \in Nat
    BY <2>1, Dates
  <2> QED
    BY <2>1, <2>2 DEF Before
<1> QED
  BY <1>1 DEF IsNewest, Newest

\* Being on time is decided by the rows before: later rows do not change it.
LEMMA OnTimeStays ==
  ASSUME TypeOK, NEW entry, insertAuditLog(entry), NEW i \in Rows
  PROVE  OnTime(i)' <=> OnTime(i)
<1>1. \A j \in Rows : audit_log'[j] = audit_log[j]
  BY Insertion
<1>2. i \in Rows' /\ \A j \in Rows' : j < i => j \in Rows
  BY Insertion, Dates
<1>3. \A j \in Rows : j \in Rows'
  BY Insertion
<1> QED
  BY <1>1, <1>2, <1>3 DEF OnTime

-----------------------------------------------------------------------------
(* Types *)

\* A logged entry makes a row of the type, and the old rows keep theirs.
LEMMA LogStaysTyped ==
  ASSUME TypeOK, NEW entry \in Entry, entry.timestamp <= clock,
         insertAuditLog(entry), clock' = clock,
         audit_log # <<>> => Newest \in Rows
  PROVE  audit_log' \in Seq([timestamp: 0..clock, event: Events,
             prev_hash: {Genesis} \cup {audit_log'[i].row_hash : i \in Rows'},
             row_hash: {audit_log'[i].row_hash : i \in Rows'}])
<1> DEFINE Hashes == {audit_log'[i].row_hash : i \in Rows'}
           R == [timestamp: 0..clock, event: Events,
                 prev_hash: {Genesis} \cup Hashes, row_hash: Hashes]
           n == Len(audit_log) + 1
           row == NewRow(n, entry)
<1>1. /\ Rows' = Rows \cup {n}
      /\ \A i \in Rows : audit_log'[i] = audit_log[i]
      /\ audit_log'[n] = row
  BY Insertion
<1>2. \A i \in Rows : audit_log[i].row_hash \in Hashes
  BY <1>1
<1>3. \A i \in Rows : audit_log[i] \in R
  <2> SUFFICES ASSUME NEW i \in Rows PROVE audit_log[i] \in R
    OBVIOUS
  <2>0. /\ audit_log[i].timestamp \in Nat
        /\ audit_log[i].timestamp <= clock
        /\ audit_log[i].event \in Events
    BY RowsTyped
  <2>1. clock \in Nat
    BY AuditAssumption DEF TypeOK
  <2>2. audit_log[i].prev_hash \in {Genesis} \cup Hashes
    BY RowsTyped, <1>2
  <2>3. audit_log[i] = [timestamp |-> audit_log[i].timestamp,
                        event     |-> audit_log[i].event,
                        prev_hash |-> audit_log[i].prev_hash,
                        row_hash  |-> audit_log[i].row_hash]
    BY RowsTyped
  <2> HIDE DEF Hashes
  <2>4. audit_log[i].row_hash \in Hashes
    BY <1>2
  <2> QED
    BY <2>0, <2>1, <2>2, <2>3, <2>4
<1>4. row \in R
  <2>1. getLastAuditHash \in {Genesis} \cup Hashes
    <3>1. CASE audit_log = <<>>
      BY <3>1 DEF getLastAuditHash
    <3>2. CASE audit_log # <<>>
      BY <3>2, <1>2 DEF getLastAuditHash
    <3> QED
      BY <3>1, <3>2
  <2>2. row.row_hash \in Hashes
    BY <1>1
  <2>3. entry.timestamp \in 0..clock /\ entry.event \in Events
    BY DEF Entry, TypeOK
  <2>4. row = [timestamp |-> entry.timestamp, event |-> entry.event,
               prev_hash |-> getLastAuditHash, row_hash |-> row.row_hash]
    BY DEF NewRow
  <2> HIDE DEF Hashes, row
  <2> QED
    BY <2>1, <2>2, <2>3, <2>4
<1>5. audit_log \in Seq(R)
  <2>1. /\ Len(audit_log) \in Nat /\ DOMAIN audit_log = 1..Len(audit_log)
        /\ audit_log = [i \in 1..Len(audit_log) |-> audit_log[i]]
    BY RowsTyped DEF Rows, TypeOK
  <2> HIDE DEF R
  <2> QED
    BY <1>3, <2>1 DEF Rows
<1>6. audit_log' = Append(audit_log, row)
  BY DEF insertAuditLog
<1>7. audit_log' \in Seq(R)
  <2> HIDE DEF R, row
  <2> QED
    BY <1>4, <1>5, <1>6
<1> QED
  BY <1>7

\* Every step keeps the types, as long as getLastAuditHash finds a row.
LEMMA TypesStay ==
  ASSUME TypeOK, [Next]_vars, audit_log # <<>> => Newest \in Rows
  PROVE  TypeOK'
<1>1. /\ waiting' \in [Handlers -> Entry \cup {Idle}]
      /\ \A h \in Handlers : waiting'[h].timestamp <= clock'
      /\ clock' \in 0..MaxTime
  <2> USE AuditAssumption DEF TypeOK
  <2>1. CASE UNCHANGED vars
    BY <2>1 DEF vars
  <2>2. CASE \E h \in Handlers, event \in Events : ReadClock(h, event)
    BY <2>2 DEF ReadClock, Stamp, Entry, Idle
  <2>3. CASE \E h \in Handlers : LogAfterAwait(h)
    BY <2>3 DEF LogAfterAwait, Idle
  <2>4. CASE \E event \in Events : LogAtOnce(event)
    BY <2>4 DEF LogAtOnce
  <2>5. CASE \E S \in (SUBSET Handlers) \ {{}} : Abandon(S)
    <3>1. /\ clock' = clock
          /\ waiting' \in [Handlers -> Entry \cup {Idle}]
          /\ \A h \in Handlers : waiting'[h] = Idle \/ waiting'[h] = waiting[h]
      BY <2>5 DEF Abandon
    <3>2. Idle.timestamp = -1
      BY DEF Idle
    <3>3. \A h \in Handlers : waiting'[h].timestamp <= clock
      BY <3>1, <3>2
    <3> QED
      BY <3>1, <3>3
  <2>6. CASE Tick
    <3>1. /\ clock' = clock + 1 /\ waiting' = waiting
          /\ clock' \in 0..MaxTime
      BY <2>6 DEF Tick
    <3>2. \A h \in Handlers : waiting[h].timestamp \in Int
      BY DEF Entry, Idle
    <3> QED
      BY <3>1, <3>2
  <2> QED
    BY <2>1, <2>2, <2>3, <2>4, <2>5, <2>6 DEF Next
<1>2. CASE UNCHANGED audit_log
  <2>1. clock <= clock' /\ clock \in Nat /\ clock' \in Nat
    <3>1. CASE UNCHANGED vars
      BY <3>1, AuditAssumption DEF vars, TypeOK
    <3>2. CASE Next
      <4>1. clock' = clock \/ clock' = clock + 1
        BY <3>2 DEF Next, ReadClock, LogAfterAwait, LogAtOnce, Abandon, Tick
      <4>2. clock \in Nat
        BY AuditAssumption DEF TypeOK
      <4> QED
        BY <4>1, <4>2
    <3> QED
      BY <3>1, <3>2
  <2>2. 0..clock \subseteq 0..clock'
    BY <2>1
  <2>3. \A S, P, H : Seq([timestamp: 0..clock, event: S, prev_hash: P, row_hash: H])
            \subseteq Seq([timestamp: 0..clock', event: S, prev_hash: P, row_hash: H])
    <3> TAKE S, P, H
    <3> DEFINE A == [timestamp: 0..clock, event: S, prev_hash: P, row_hash: H]
               B == [timestamp: 0..clock', event: S, prev_hash: P, row_hash: H]
    <3>1. A \subseteq B
      BY <2>2
    <3> HIDE DEF A, B
    <3>2. Seq(A) \subseteq Seq(B)
      BY <3>1
    <3> QED
      BY <3>2 DEF A, B
  <2>4. Rows' = Rows /\ audit_log' = audit_log
    BY <1>2 DEF Rows
  <2> DEFINE P == {Genesis} \cup {audit_log[i].row_hash : i \in Rows}
             H == {audit_log[i].row_hash : i \in Rows}
  <2>5. audit_log \in Seq([timestamp: 0..clock', event: Events,
                           prev_hash: P, row_hash: H])
    <3>1. audit_log \in Seq([timestamp: 0..clock, event: Events,
                             prev_hash: P, row_hash: H])
      BY DEF TypeOK
    <3> HIDE DEF P, H
    <3> QED
      BY <3>1, <2>3
  <2>6. P' = P /\ H' = H
    BY <2>4
  <2>7. audit_log' \in Seq([timestamp: 0..clock', event: Events,
                            prev_hash: P', row_hash: H'])
    <3> HIDE DEF P, H
    <3> QED
      BY <2>4, <2>5, <2>6
  <2>8. Len(audit_log') <= MaxRows
    BY <2>4 DEF TypeOK
  <2> QED
    BY <1>1, <2>7, <2>8 DEF TypeOK
<1>3. ASSUME NEW entry \in Entry, entry.timestamp <= clock,
             insertAuditLog(entry), clock' = clock
      PROVE  TypeOK'
  <2>1. audit_log' \in Seq([timestamp: 0..clock, event: Events,
             prev_hash: {Genesis} \cup {audit_log'[i].row_hash : i \in Rows'},
             row_hash: {audit_log'[i].row_hash : i \in Rows'}])
    BY <1>3, LogStaysTyped
  <2>2. Len(audit_log') <= MaxRows
    BY <1>3, Insertion
  <2> QED
    BY <1>1, <1>3, <2>1, <2>2 DEF TypeOK
<1> QED
  BY <1>2, <1>3, LoggingSteps

-----------------------------------------------------------------------------
(* The chain *)

\* After an insertion the newest row is the new one, if it is on time, and the
\* old one otherwise.
LEMMA NewestStaysOnTime ==
  ASSUME TypeOK, NEW entry \in Entry, insertAuditLog(entry),
         audit_log # <<>> => \E i \in Rows : LastOnTime(i)
  PROVE  (\E i \in Rows : LastOnTime(i))'
<1> PICK n \in Nat : n = Len(audit_log) + 1
  BY Dates
<1>1. /\ Rows = 1..(n - 1) /\ n \in Nat
      /\ Rows' = Rows \cup {n}
      /\ \A i \in Rows : /\ audit_log'[i] = audit_log[i]
                        /\ audit_log[i].timestamp \in Nat
                        /\ i < n
      /\ audit_log'[n].timestamp = entry.timestamp
  <2>1. /\ Rows = 1..(n - 1)
        /\ \A i \in Rows : audit_log[i].timestamp \in Nat /\ i < n
    BY Dates
  <2>2. /\ Rows' = Rows \cup {n}
        /\ \A i \in Rows : audit_log'[i] = audit_log[i]
        /\ audit_log'[n] = NewRow(n, entry)
    BY Insertion
  <2>3. audit_log'[n].timestamp = entry.timestamp
    BY <2>2 DEF NewRow
  <2> QED
    BY <2>1, <2>2, <2>3
<1>2. entry.timestamp \in Nat
  BY DEF Entry
<1>3. CASE audit_log = <<>>
  <2>1. Rows' = {1} /\ n = 1
    BY <1>1, <1>3
  <2>2. LastOnTime(1)'
    BY <2>1 DEF LastOnTime, IsNewest, OnTime
  <2> QED
    BY <2>1, <2>2
<1>4. ASSUME NEW i \in Rows, LastOnTime(i)
      PROVE  (\E k \in Rows : LastOnTime(k))'
  <2>1. \A j \in Rows : audit_log[j].timestamp <= audit_log[i].timestamp
    BY <1>1, <1>4 DEF LastOnTime, IsNewest, Before
  <2>2. CASE audit_log[i].timestamp <= entry.timestamp
    <3>1. \A j \in Rows : audit_log'[j].timestamp <= audit_log'[n].timestamp
      BY <1>1, <1>2, <2>1, <2>2
    <3>2. \A j \in Rows' : audit_log'[j].timestamp \in Nat /\ j \in Nat
      BY <1>1, <1>2
    <3>3. IsNewest(n)'
      <4>1. \A j \in Rows : Before(j, n)'
        BY <1>1, <3>1, <3>2 DEF Before
      <4> QED
        BY <1>1, <4>1 DEF IsNewest
    <3>4. OnTime(n)'
      BY <1>1, <3>1 DEF OnTime
    <3>5. \A k \in Rows' : ~(n < k)
      BY <1>1
    <3> QED
      BY <1>1, <3>3, <3>4, <3>5 DEF LastOnTime
  <2>3. CASE entry.timestamp < audit_log[i].timestamp
    <3>1. IsNewest(i)'
      <4>1. \A j \in Rows \ {i} : Before(j, i)'
        BY <1>1, <1>4 DEF LastOnTime, IsNewest, Before
      <4>2. Before(n, i)'
        BY <1>1, <2>3 DEF Before
      <4> QED
        BY <1>1, <4>1, <4>2 DEF IsNewest
    <3>2. OnTime(i)'
      BY <1>4, OnTimeStays DEF LastOnTime
    <3>3. \A k \in Rows : i < k => ~OnTime(k)'
      BY <1>4, OnTimeStays DEF LastOnTime
    <3>4. ~OnTime(n)'
      BY <1>1, <1>2, <2>3 DEF OnTime
    <3> QED
      BY <1>1, <3>1, <3>2, <3>3, <3>4 DEF LastOnTime
  <2> QED
    BY <1>1, <1>2, <2>2, <2>3
<1> QED
  BY <1>3, <1>4

\* A new row is linked to the last row on time, the older rows keep their link.
LEMMA ChainStays ==
  ASSUME ChainInv, NEW entry \in Entry, insertAuditLog(entry)
  PROVE  OnTimeRowsChained'
<1> PICK n \in Nat : n = Len(audit_log) + 1
  BY Dates DEF ChainInv
<1>1. /\ TypeOK
      /\ Rows = 1..(n - 1) /\ Rows' = Rows \cup {n}
      /\ \A i \in Rows : audit_log'[i] = audit_log[i] /\ i < n /\ i \in Nat
      /\ audit_log'[n] = NewRow(n, entry)
  <2>1. Rows = 1..(n - 1)
    BY Dates DEF ChainInv
  <2> QED
    BY <2>1, Insertion DEF ChainInv
<1>2. audit_log'[n].prev_hash = getLastAuditHash
  BY <1>1 DEF NewRow
<1> DEFINE Link(i, j) ==
             /\ j < i /\ OnTime(j)
             /\ \A k \in Rows : (j < k /\ k < i) => ~OnTime(k)
             /\ audit_log[i].prev_hash = audit_log[j].row_hash
           Linked(i) == \/ i = 1 /\ audit_log[i].prev_hash = Genesis
                        \/ \E j \in Rows : Link(i, j)
<1>3. \A i \in Rows : OnTime(i)' <=> OnTime(i)
  BY <1>1, OnTimeStays
<1>4. ASSUME NEW i \in Rows, Linked(i) PROVE Linked(i)'
  <2>1. CASE i = 1 /\ audit_log[i].prev_hash = Genesis
    BY <1>1, <2>1
  <2>2. ASSUME NEW j \in Rows, Link(i, j) PROVE Link(i, j)'
    <3>1. ~(n < i)
      BY <1>1
    <3>2. \A k \in Rows' : (j < k /\ k < i) => ~OnTime(k)'
      BY <1>1, <1>3, <2>2, <3>1
    <3> QED
      BY <1>1, <1>3, <2>2, <3>2
  <2>3. CASE \E j \in Rows : Link(i, j)
    <3>1. PICK j \in Rows : Link(i, j)
      BY <2>3
    <3>2. Link(i, j)' /\ j \in Rows'
      BY <1>1, <2>2, <3>1
    <3> HIDE DEF Link
    <3> QED
      BY <3>2
  <2> QED
    BY <1>4, <2>1, <2>3
<1>5. Linked(n)'
  <2>1. CASE audit_log = <<>>
    <3>1. n = 1
      BY <2>1
    <3> QED
      BY <1>2, <2>1, <3>1 DEF getLastAuditHash, Genesis
  <2>2. CASE audit_log # <<>>
    <3>1. PICK j \in Rows : LastOnTime(j)
      BY <2>2 DEF ChainInv
    <3>2. Newest = j
      BY <1>1, <3>1, NewestFound DEF LastOnTime
    <3>3. audit_log'[n].prev_hash = audit_log'[j].row_hash
      BY <1>1, <1>2, <2>2, <3>2 DEF getLastAuditHash
    <3>4. OnTime(j)'
      BY <1>3, <3>1 DEF LastOnTime
    <3>5. \A k \in Rows' : (j < k /\ k < n) => ~OnTime(k)'
      <4>1. \A k \in Rows : j < k => ~OnTime(k)'
        BY <1>3, <3>1 DEF LastOnTime
      <4> QED
        BY <1>1, <4>1
    <3>6. Link(n, j)'
      BY <1>1, <3>3, <3>4, <3>5
    <3> HIDE DEF Link
    <3> QED
      BY <1>1, <3>6
  <2> QED
    BY <2>1, <2>2
<1>6. \A i \in Rows : Linked(i)
  BY DEF ChainInv, OnTimeRowsChained
<1>7. \A i \in Rows' : Linked(i)'
  <2> HIDE DEF Linked
  <2> QED
    BY <1>1, <1>4, <1>5, <1>6
<1> QED
  BY <1>7 DEF OnTimeRowsChained

\* The empty log is a chain.
LEMMA ChainInit == Init => ChainInv
<1> SUFFICES ASSUME Init PROVE ChainInv
  OBVIOUS
<1>1. audit_log = <<>> /\ Rows = {} /\ Len(audit_log) = 0
  BY DEF Init, Rows
<1>2. waiting \in [Handlers -> Entry \cup {Idle}] /\ clock = 0
  BY DEF Init
<1>3. \A h \in Handlers : waiting[h].timestamp <= clock
  <2>1. Idle.timestamp = -1
    BY DEF Idle
  <2>2. \A h \in Handlers : waiting[h] = Idle
    BY DEF Init
  <2>3. \A h \in Handlers : waiting[h].timestamp = -1
    BY <2>1, <2>2, Zenon
  <2>4. -1 <= clock
    BY <1>2
  <2> QED
    BY <2>3, <2>4
<1>4. TypeOK
  BY <1>1, <1>2, <1>3, AuditAssumption DEF TypeOK
<1> QED
  BY <1>1, <1>4 DEF ChainInv, OnTimeRowsChained

\* Every step keeps the chain: a row on time becomes its end, a late one leaves it alone.
LEMMA ChainStep == ChainInv /\ [Next]_vars => ChainInv'
<1> SUFFICES ASSUME ChainInv, [Next]_vars PROVE ChainInv'
  OBVIOUS
<1>1. audit_log # <<>> => Newest \in Rows
  BY NewestFound DEF ChainInv, LastOnTime, IsNewest
<1>2. TypeOK'
  BY <1>1, TypesStay DEF ChainInv
<1>3. CASE UNCHANGED audit_log
  BY <1>2, <1>3 DEF ChainInv, OnTimeRowsChained, LastOnTime, IsNewest, OnTime,
                    Before, Rows
<1>4. ASSUME NEW entry \in Entry, insertAuditLog(entry) PROVE ChainInv'
  <2>1. (\E i \in Rows : LastOnTime(i))'
    BY <1>4, NewestStaysOnTime DEF ChainInv
  <2>2. OnTimeRowsChained'
    BY <1>4, ChainStays
  <2> QED
    BY <1>2, <2>1, <2>2 DEF ChainInv
<1> QED
  BY <1>3, <1>4, LoggingSteps DEF ChainInv

\* Every reachable log has the shape ChainInv says.
THEOREM ChainInvariant == Spec => []ChainInv
<1>1. Init => ChainInv
  BY ChainInit
<1>2. ChainInv /\ [Next]_vars => ChainInv'
  BY ChainStep
<1> QED
  BY <1>1, <1>2, PTL DEF Spec

\* The rows, the entries that wait for their await and the clock keep their
\* types, and nothing is dated in the future.
THEOREM TypeCorrect == Spec => []TypeOK
<1>1. ChainInv => TypeOK
  BY DEF ChainInv
<1> QED
  BY <1>1, ChainInvariant, PTL

\* insertAuditLog links every row to the last row before it that arrived on
\* time, however many handlers await between reading the clock and logging.
THEOREM ChainsHold == Spec => []OnTimeRowsChained
<1>1. ChainInv => OnTimeRowsChained
  BY DEF ChainInv
<1> QED
  BY <1>1, ChainInvariant, PTL

-----------------------------------------------------------------------------
(* Verification *)

\* A row that is inserted has the hash of its own columns, so the log still verifies.
LEMMA HonestStep ==
  TypeOK /\ HonestLogVerifies /\ [Next]_vars => HonestLogVerifies'
<1> SUFFICES ASSUME TypeOK, HonestLogVerifies, [Next]_vars
             PROVE  HonestLogVerifies'
  OBVIOUS
<1>1. CASE UNCHANGED audit_log
  BY <1>1 DEF HonestLogVerifies, verifyAuditChain, RowHash, Canonical, Hash
<1>2. ASSUME NEW entry \in Entry, insertAuditLog(entry)
      PROVE  HonestLogVerifies'
  <2> PICK n \in Nat : n = Len(audit_log) + 1
    BY Dates
  <2>1. /\ Rows' = Rows \cup {n}
        /\ \A i \in Rows : audit_log'[i] = audit_log[i]
        /\ audit_log'[n] = NewRow(n, entry)
    BY <1>2, Insertion
  <2>2. RowHash(n, audit_log'[n], audit_log'[n].prev_hash) = audit_log'[n].row_hash
    BY <2>1 DEF NewRow, RowHash, Canonical
  <2>3. \A i \in Rows :
          RowHash(i, audit_log'[i], audit_log'[i].prev_hash) = audit_log'[i].row_hash
    BY <2>1 DEF HonestLogVerifies, verifyAuditChain, Rows
  <2> QED
    BY <2>1, <2>2, <2>3 DEF HonestLogVerifies, verifyAuditChain, Rows, RowHash,
                            Canonical, Hash
<1> QED
  BY <1>1, <1>2, LoggingSteps

\* GET /api/v1/audit/verify accepts every log that only insertAuditLog wrote.
THEOREM NoFalseAlarm == Spec => []HonestLogVerifies
<1>1. Init => HonestLogVerifies
  BY DEF Init, HonestLogVerifies, verifyAuditChain
<1>2. TypeOK /\ HonestLogVerifies /\ [Next]_vars => HonestLogVerifies'
  BY HonestStep
<1> QED
  BY <1>1, <1>2, TypeCorrect, PTL DEF Spec

\* In a log that verifies, an edited row no longer has the hash it is stored with.
LEMMA HonestLogsDetect == TypeOK /\ HonestLogVerifies => EditsDetected
<1> SUFFICES ASSUME TypeOK, HonestLogVerifies,
                    NEW i \in Rows, NEW x \in Events, NEW t \in 0..MaxTime,
                    verifyAuditChain([audit_log EXCEPT ![i].event = x,
                                                       ![i].timestamp = t])
             PROVE  [audit_log EXCEPT ![i].event = x, ![i].timestamp = t]
                        = audit_log
  BY DEF EditsDetected
<1> DEFINE old == audit_log[i]
           new == [timestamp |-> t, event |-> x, prev_hash |-> old.prev_hash,
                   row_hash  |-> old.row_hash]
           edited == [audit_log EXCEPT ![i].event = x, ![i].timestamp = t]
<1>1. /\ old = [timestamp |-> old.timestamp, event |-> old.event,
                prev_hash |-> old.prev_hash, row_hash  |-> old.row_hash]
      /\ audit_log = [k \in Rows |-> audit_log[k]]
  <2>1. audit_log = [k \in Rows |-> audit_log[k]]
    BY DEF TypeOK, Rows
  <2> QED
    BY <2>1, RowsTyped
<1>2. edited[i] = new /\ i \in DOMAIN edited
  BY <1>1 DEF Rows
<1>3. RowHash(i, new, new.prev_hash) = new.row_hash
  BY <1>2 DEF verifyAuditChain
<1>4. RowHash(i, old, old.prev_hash) = old.row_hash
  BY DEF HonestLogVerifies, verifyAuditChain, Rows
<1>5. old.event = x /\ old.timestamp = t
  BY <1>3, <1>4 DEF RowHash, Hash, Canonical
<1>6. new = old
  BY <1>1, <1>5
<1> QED
  BY <1>1, <1>2, <1>6 DEF Rows

\* An edit of one row of a log that insertAuditLog wrote is reported.
THEOREM EditsAreDetected == Spec => []EditsDetected
<1>1. TypeOK /\ HonestLogVerifies => EditsDetected
  BY HonestLogsDetect
<1> QED
  BY <1>1, TypeCorrect, NoFalseAlarm, PTL

-----------------------------------------------------------------------------
(* Readers.  A row that is inserted later only moves others back in the order *)
(* of the pages: a row that the offset has passed had been read.              *)

Filters == Events \cup {AnyEvent}

\* A client and what the log was when it began
Readers == {Resting} \cup [phase: {"paging", "done"}, filter: Filters, offset: Nat,
                           seen: SUBSET Nat, wanted: SUBSET Rows]

\* What it was to see and its offset has passed, it has seen.
SeenSoFar ==
    /\ reader.phase \in {"paging", "done"} => reader.wanted \subseteq Matching(reader.filter)
    /\ reader.phase = "paging" =>
          \A i \in reader.wanted :
              Cardinality(Ahead(reader.filter, i)) < reader.offset => i \in reader.seen
    /\ PagingMissesNothing

ReadersInv == ChainInv /\ HonestLogVerifies /\ reader \in Readers /\ SeenSoFar

\* Sets of rows can be counted.
LEMMA RowsFinite ==
  ASSUME TypeOK
  PROVE  /\ IsFiniteSet(Rows)
         /\ \A S \in SUBSET Rows : IsFiniteSet(S) /\ Cardinality(S) \in Nat
<1>1. Len(audit_log) \in Nat /\ Rows = 1..Len(audit_log)
  BY Dates
<1>2. IsFiniteSet(Rows)
  BY <1>1, FS_Interval
<1>3. \A S \in SUBSET Rows : IsFiniteSet(S)
  BY <1>2, FS_Subset
<1> QED
  BY <1>2, <1>3, FS_CardinalityType

\* The place of a row is one of as many as there are rows.
LEMMA Places ==
  ASSUME TypeOK, NEW filter, NEW i \in Matching(filter)
  PROVE  /\ Cardinality(Ahead(filter, i)) \in Nat
         /\ Cardinality(Matching(filter)) \in Nat
         /\ Cardinality(Ahead(filter, i)) < Cardinality(Matching(filter))
<1> DEFINE S == Ahead(filter, i)
           M == Matching(filter)
<1>1. S \subseteq M /\ M \subseteq Rows /\ i \in M
  BY DEF Ahead, Matching
<1>2. i \notin S
  <2>1. i \in Nat /\ audit_log[i].timestamp \in Nat
    BY <1>1, Dates
  <2> QED
    BY <2>1 DEF Ahead, PageOrder
<1> HIDE DEF S, M
<1>3. IsFiniteSet(M) /\ Cardinality(S) \in Nat /\ Cardinality(M) \in Nat
  BY <1>1, RowsFinite
<1>4. Cardinality(S) <= Cardinality(M) /\ Cardinality(S) # Cardinality(M)
  BY <1>1, <1>2, <1>3, FS_Subset
<1> QED
  BY <1>3, <1>4 DEF S, M

\* A row that is inserted moves the others back in the list, never forward.
LEMMA PlacesMoveBack ==
  ASSUME TypeOK, TypeOK', NEW filter, NEW i \in Matching(filter),
         Rows \subseteq Rows', \A j \in Rows : audit_log'[j] = audit_log[j]
  PROVE  /\ i \in Matching(filter)'
         /\ Cardinality(Ahead(filter, i))' \in Nat
         /\ Cardinality(Ahead(filter, i)) <= Cardinality(Ahead(filter, i))'
<1> DEFINE S == Ahead(filter, i)
           T == Ahead(filter, i)'
<1>1. i \in Matching(filter)'
  BY DEF Matching
<1>2. S \subseteq T /\ T \subseteq Rows'
  BY DEF Ahead, Matching, PageOrder
<1>3. IsFiniteSet(Rows')
  <2>1. Rows' = 1..Len(audit_log') /\ Len(audit_log') \in Nat
    <3>1. TypeOK' => (Rows' = 1..Len(audit_log') /\ Len(audit_log') \in Nat)
      BY DEF TypeOK, Rows
    <3> QED
      BY <3>1
  <2> QED
    BY <2>1, FS_Interval
<1>4. IsFiniteSet(T) /\ Cardinality(T) \in Nat
  <2> HIDE DEF T
  <2>1. IsFiniteSet(T)
    BY <1>2, <1>3, FS_Subset
  <2> QED
    BY <2>1, FS_CardinalityType
<1> HIDE DEF S, T
<1>5. Cardinality(S) <= Cardinality(T)
  BY <1>2, <1>4, FS_Subset
<1> QED
  BY <1>1, <1>4, <1>5 DEF S, T

\* The log grows, or stays, while a client waits.
LEMMA LogGoesOn ==
  ASSUME ReadersInv, [Next]_vars, reader' = reader
  PROVE  ReadersInv'
<1>1. TypeOK /\ ChainInv' /\ HonestLogVerifies'
  BY ChainStep, HonestStep DEF ReadersInv, ChainInv
<1>2. TypeOK'
  BY <1>1 DEF ChainInv
<1>3. Rows \subseteq Rows' /\ \A j \in Rows : audit_log'[j] = audit_log[j]
  <2>1. CASE UNCHANGED audit_log
    BY <2>1 DEF Rows
  <2>2. CASE \E entry \in Entry : insertAuditLog(entry)
    BY <1>1, <2>2, Insertion
  <2> QED
    BY <1>1, <2>1, <2>2, LoggingSteps
<1>4. reader' \in Readers'
  BY <1>3 DEF ReadersInv, Readers
<1>5. SeenSoFar'
  <2>1. SeenSoFar
    BY DEF ReadersInv
  <2>2. reader.phase \in {"paging", "done"}
           => \A i \in reader.wanted :
                 /\ i \in Matching(reader.filter)'
                 /\ Cardinality(Ahead(reader.filter, i)) \in Nat
                 /\ Cardinality(Ahead(reader.filter, i))' \in Nat
                 /\ Cardinality(Ahead(reader.filter, i))
                       <= Cardinality(Ahead(reader.filter, i))'
    BY <1>1, <1>2, <1>3, <2>1, Places, PlacesMoveBack DEF SeenSoFar
  <2>3. reader.phase = "paging" => reader.offset \in Nat
    BY DEF ReadersInv, Readers, Resting
  <2>4. reader.phase \in {"paging", "done"}
           => reader.wanted \subseteq Matching(reader.filter)'
    BY <2>2
  <2>5. reader.phase = "paging" =>
          \A i \in reader.wanted :
              Cardinality(Ahead(reader.filter, i))' < reader.offset => i \in reader.seen
    BY <2>1, <2>2, <2>3 DEF SeenSoFar
  <2>6. PagingMissesNothing'
    BY <2>1 DEF SeenSoFar, PagingMissesNothing
  <2> QED
    BY <2>4, <2>5, <2>6 DEF SeenSoFar
<1> QED
  BY <1>1, <1>4, <1>5 DEF ReadersInv

\* A step that writes nothing leaves every page as it is.
LEMMA LogStays ==
  ASSUME ReadersInv, UNCHANGED vars
  PROVE  ChainInv' /\ HonestLogVerifies' /\ Rows' = Rows
         /\ \A filter : /\ Matching(filter)' = Matching(filter)
                        /\ \A i : Ahead(filter, i)' = Ahead(filter, i)
<1>1. [Next]_vars /\ TypeOK
  BY DEF ReadersInv, ChainInv
<1>2. audit_log' = audit_log
  BY DEF vars
<1>3. ChainInv' /\ HonestLogVerifies'
  BY <1>1, ChainStep, HonestStep DEF ReadersInv
<1> QED
  BY <1>2, <1>3 DEF Rows, Matching, Ahead, PageOrder

\* A reader who starts wants what is there, and skips nothing yet.
LEMMA BeginningKeeps ==
  ASSUME ReadersInv, NEW filter \in Filters, StartPaging(filter)
  PROVE  ReadersInv'
<1>1. /\ ChainInv' /\ HonestLogVerifies' /\ Rows' = Rows
      /\ Matching(filter)' = Matching(filter)
      /\ \A i : Ahead(filter, i)' = Ahead(filter, i)
  BY LogStays DEF StartPaging
<1> DEFINE r == [phase |-> "paging", filter |-> filter, offset |-> 0, seen |-> {},
                 wanted |-> Matching(filter)]
<1>2. reader' = r
  BY DEF StartPaging
<1>3. r \in Readers
  BY DEF Readers, Matching
<1>4. /\ r.phase = "paging" /\ r.filter = filter /\ r.offset = 0 /\ r.seen = {}
      /\ r.wanted = Matching(filter)
  OBVIOUS
<1> HIDE DEF r
<1>5. reader' \in Readers'
  BY <1>1, <1>2, <1>3 DEF Readers
<1>6. SeenSoFar'
  <2>1. \A i \in Matching(filter) : ~(Cardinality(Ahead(filter, i)) < 0)
    BY Places DEF ReadersInv, ChainInv
  <2> QED
    BY <1>1, <1>2, <1>4, <2>1 DEF SeenSoFar, PagingMissesNothing
<1> QED
  BY <1>1, <1>5, <1>6 DEF ReadersInv

\* A page shows what the offset is about to pass.
LEMMA NextPageKeeps ==
  ASSUME ReadersInv, NextPage
  PROVE  ReadersInv'
<1>0. reader.filter \in Filters
  BY DEF ReadersInv, Readers, NextPage, Resting
<1>01. PICK f \in Filters : f = reader.filter
  BY <1>0
<1> DEFINE page == Page(f, Limit, reader.offset)
           total == Cardinality(Matching(f))
           more == reader.seen \cup page
           next == reader.offset + Limit
           phase == IF next >= total THEN "done" ELSE "paging"
<1>1. /\ ChainInv' /\ HonestLogVerifies' /\ Rows' = Rows
      /\ Matching(f)' = Matching(f)
      /\ \A i : Ahead(f, i)' = Ahead(f, i)
  BY LogStays DEF NextPage
<1>2. TypeOK /\ reader \in Readers /\ SeenSoFar /\ reader.phase = "paging"
  BY DEF ReadersInv, ChainInv, NextPage
<1>3. reader \in [phase: {"paging", "done"}, filter: Filters, offset: Nat,
                  seen: SUBSET Nat, wanted: SUBSET Rows]
  BY <1>2 DEF Readers, Resting
<1>4. /\ reader.offset \in Nat /\ reader.seen \subseteq Nat /\ reader.wanted \subseteq Rows
      /\ f \in Filters /\ Limit \in Nat \ {0}
  BY <1>3, ReadsAssumption
<1>5. reader' = [phase |-> phase, filter |-> f, offset |-> next, seen |-> more,
                 wanted |-> reader.wanted]
  <2>1. reader' = [reader EXCEPT !.seen = more, !.offset = next, !.phase = phase]
    BY <1>01 DEF NextPage, queryAuditLog
  <2> HIDE DEF more, next, phase
  <2>2. DOMAIN reader = {"phase", "filter", "offset", "seen", "wanted"}
    BY <1>3
  <2>3. reader = [phase |-> reader.phase, filter |-> reader.filter,
                  offset |-> reader.offset, seen |-> reader.seen,
                  wanted |-> reader.wanted]
    BY <1>3
  <2> QED
    BY <2>1, <2>3, <1>01
<1>6. page \subseteq Nat
  BY <1>2, Dates DEF Page, Matching
<1>7. \A i \in reader.wanted :
         /\ i \in Matching(f) /\ Cardinality(Ahead(f, i)) \in Nat
         /\ Cardinality(Ahead(f, i)) < total /\ total \in Nat
  BY <1>2, <1>01, Places DEF SeenSoFar
<1>8. \A i \in reader.wanted : Cardinality(Ahead(f, i)) < next => i \in more
  <2> SUFFICES ASSUME NEW i \in reader.wanted, Cardinality(Ahead(f, i)) < next
               PROVE  i \in more
    OBVIOUS
  <2>1. CASE Cardinality(Ahead(f, i)) < reader.offset
    BY <1>2, <1>01, <2>1 DEF SeenSoFar
  <2>2. CASE ~(Cardinality(Ahead(f, i)) < reader.offset)
    <3>1. Cardinality(Ahead(f, i)) \in reader.offset..(reader.offset + Limit - 1)
      BY <1>4, <1>7, <2>2
    <3> QED
      BY <1>7, <3>1 DEF Page
  <2> QED
    BY <2>1, <2>2
<1>9. phase = "done" => reader.wanted \subseteq more
  <2>1. phase = "done" => next >= total /\ next \in Nat
    BY <1>4
  <2> HIDE DEF more, next, phase, total
  <2> QED
    BY <1>7, <1>8, <2>1
<1>10. next \in Nat /\ more \subseteq Nat /\ phase \in {"paging", "done"}
  BY <1>4, <1>6
<1> DEFINE r == [phase |-> phase, filter |-> f, offset |-> next, seen |-> more,
                 wanted |-> reader.wanted]
<1> HIDE DEF page, total, more, next, phase
<1>11. r \in Readers
  BY <1>4, <1>10 DEF Readers
<1>12. /\ r.phase = phase /\ r.filter = f /\ r.offset = next /\ r.seen = more
       /\ r.wanted = reader.wanted
  OBVIOUS
<1>13. reader' = r
  BY <1>5
<1> HIDE DEF r
<1>14. reader' \in Readers'
  BY <1>1, <1>11, <1>13 DEF Readers
<1>15. SeenSoFar'
  <2>1. reader.wanted \subseteq Matching(f)'
    BY <1>1, <1>7
  <2>2. \A i \in reader.wanted : Cardinality(Ahead(f, i))' < next => i \in more
    BY <1>1, <1>8
  <2>3. PagingMissesNothing'
    BY <1>9, <1>12, <1>13 DEF PagingMissesNothing
  <2> QED
    BY <1>12, <1>13, <2>1, <2>2, <2>3 DEF SeenSoFar
<1> QED
  BY <1>1, <1>14, <1>15 DEF ReadersInv

\* A reader who has done makes no more claim.
LEMMA RestKeeps ==
  ASSUME ReadersInv, Rest
  PROVE  ReadersInv'
<1>1. ChainInv' /\ HonestLogVerifies' /\ reader' = Resting
  BY LogStays DEF Rest
<1>2. reader'.phase = "resting"
  BY <1>1 DEF Resting
<1>3. reader' \in Readers' /\ SeenSoFar'
  BY <1>1, <1>2 DEF Readers, SeenSoFar, PagingMissesNothing
<1> QED
  BY <1>1, <1>3 DEF ReadersInv

\* Whatever is logged while clients page: what the offset of one has passed and was
\* there when it began, it has been shown.
THEOREM ReadersInvariant == ReadSpec => []ReadersInv
<1>1. ReadInit => ReadersInv
  <2> SUFFICES ASSUME ReadInit PROVE ReadersInv
    OBVIOUS
  <2>1. ChainInv
    BY ChainInit DEF ReadInit
  <2>2. HonestLogVerifies /\ reader = Resting
    BY DEF ReadInit, Init, HonestLogVerifies, verifyAuditChain
  <2>3. reader.phase = "resting"
    BY <2>2 DEF Resting
  <2> QED
    BY <2>1, <2>2, <2>3 DEF ReadersInv, Readers, SeenSoFar, PagingMissesNothing
<1>2. ReadersInv /\ [ReadNext]_<<vars, reader>> => ReadersInv'
  <2> SUFFICES ASSUME ReadersInv, [ReadNext]_<<vars, reader>> PROVE ReadersInv'
    OBVIOUS
  <2>1. CASE Next /\ UNCHANGED reader
    BY <2>1, LogGoesOn
  <2>2. CASE \E filter \in Events \cup {AnyEvent} : StartPaging(filter)
    BY <2>2, BeginningKeeps DEF Filters
  <2>3. CASE UNCHANGED <<vars, reader>>
    BY <2>3, LogGoesOn
  <2> QED
    BY <2>1, <2>2, <2>3, NextPageKeeps, RestKeeps DEF ReadNext
<1> QED
  BY <1>1, <1>2, PTL DEF ReadSpec

\* Readers only read: beside them the log takes its own steps, so that what is
\* proved of it holds there.
THEOREM ReadersLeaveTheLog == ReadSpec => Spec
<1>1. ReadInit => Init
  BY DEF ReadInit
<1>2. [ReadNext]_<<vars, reader>> => [Next]_vars
  BY DEF ReadNext, StartPaging, NextPage, Rest
<1> QED
  BY <1>1, <1>2, PTL DEF ReadSpec, Spec

\* Paging by offset through a log that grows hides no row that was there at first,
\* and the newest row is always found by the trace route and verified.
THEOREM ReadersAreServed == ReadSpec => []ReadersSeeTheLog
<1>1. ReadersInv => ReadersSeeTheLog
  <2> SUFFICES ASSUME ReadersInv, audit_log # <<>>
               PROVE  Traceable(Newest) /\ TraceAnswer(Newest).hash_verified
    BY DEF ReadersInv, SeenSoFar, ReadersSeeTheLog, NewestIsTraceable
  <2>1. TypeOK
    BY DEF ReadersInv, ChainInv
  <2>2. PICK i \in Rows : IsNewest(i)
    BY DEF ReadersInv, ChainInv, LastOnTime
  <2>3. Newest = i
    BY <2>1, <2>2, NewestFound
  <2>4. i \in Matching(AnyEvent)
    BY DEF Matching
  <2>5. Ahead(AnyEvent, i) = {}
    <3> SUFFICES ASSUME NEW j \in Rows, PageOrder(AnyEvent, j, i)
                 PROVE  FALSE
      BY DEF Ahead, Matching
    <3>1. /\ i \in Nat /\ j \in Nat
          /\ audit_log[i].timestamp \in Nat /\ audit_log[j].timestamp \in Nat
      BY <2>1, Dates
    <3> QED
      BY <2>2, <3>1 DEF IsNewest, Before, PageOrder
  <2>6. Cardinality(Ahead(AnyEvent, i)) \in 0..(0 + TraceWindow - 1)
    BY <2>5, FS_EmptySet, ReadsAssumption
  <2>7. Traceable(i)
    BY <2>4, <2>6 DEF Traceable, queryAuditLog, Page
  <2>8. TraceAnswer(i).hash_verified
    BY DEF TraceAnswer, ReadersInv, HonestLogVerifies
  <2> QED
    BY <2>3, <2>7, <2>8
<1> QED
  BY <1>1, ReadersInvariant, PTL
=============================================================================
