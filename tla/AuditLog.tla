------------------------------ MODULE AuditLog ------------------------------
(***************************************************************************)
(* The hash chain of the registry's audit log.  insertAuditLog links a row *)
(* to the row that is newest by timestamp and then by id.  The id is made  *)
(* when the row is inserted, but registration, delegation, rotation and    *)
(* approval requests read the row's timestamp before an await: a row may   *)
(* arrive with a timestamp older than that of rows already in the log.     *)
(* verifyAuditChain recomputes every row's hash.                           *)
(***************************************************************************)
EXTENDS Integers, Sequences

CONSTANTS
    Handlers,     \* requests that await between reading the clock and logging
    Events,       \* what a row says: agent, human, action, tool, details
    MaxTime,      \* bound: the clock stops here
    MaxRows       \* bound: rows in the log

ASSUME AuditAssumption == MaxTime \in Nat /\ MaxRows \in Nat

VARIABLES
    audit_log,  \* rows in the order of their insertion, which is that of ids
    waiting,    \* handler -> the entry whose timestamp it has read, if any
    clock

vars == <<audit_log, waiting, clock>>

Genesis == <<>>

\* sha256 of the previous hash and a canonical row.  It does not collide: the
\* hash is the pair of what it covers.
Hash(row, prev) == <<row, prev>>

Entry == [timestamp: 0..MaxTime, event: Events]
Idle == [timestamp |-> -1]

\* the fields of a row that its hash covers; the id is the row's index
Canonical(id, row) ==
    [id |-> id, timestamp |-> row.timestamp, event |-> row.event]

-----------------------------------------------------------------------------
Rows == DOMAIN audit_log

\* ORDER BY timestamp, id
Before(i, j) ==
    \/ audit_log[i].timestamp < audit_log[j].timestamp
    \/ audit_log[i].timestamp = audit_log[j].timestamp /\ i < j

\* variant: the row inserted last, whatever its timestamp
LastInserted == Len(audit_log)

Newest == CHOOSE i \in Rows : \A j \in Rows \ {i} : Before(j, i)

getLastAuditHash ==
    IF audit_log = <<>> THEN Genesis ELSE audit_log[Newest].row_hash

\* variant: the hash covers the event only
HashOfEvent(id, entry, prev) == Hash(entry.event, prev)

RowHash(id, entry, prev) == Hash(Canonical(id, entry), prev)

\* variant: the stored prev_hash is not the one that was hashed
MislinkedRow(id, entry) ==
    [timestamp |-> entry.timestamp, event |-> entry.event,
     prev_hash |-> getLastAuditHash, row_hash |-> RowHash(id, entry, Genesis)]

NewRow(id, entry) ==
    [timestamp |-> entry.timestamp, event |-> entry.event,
     prev_hash |-> getLastAuditHash,
     row_hash  |-> RowHash(id, entry, getLastAuditHash)]

insertAuditLog(entry) ==
    /\ Len(audit_log) < MaxRows
    /\ audit_log' = Append(audit_log, NewRow(Len(audit_log) + 1, entry))

\* new Date()
Stamp == clock

\* `const now = new Date()`, then an await.
ReadClock(h, event) ==
    /\ waiting[h] = Idle
    /\ waiting' = [waiting EXCEPT ![h] = [timestamp |-> Stamp, event |-> event]]
    /\ UNCHANGED <<audit_log, clock>>

LogAfterAwait(h) ==
    /\ waiting[h] # Idle
    /\ insertAuditLog(waiting[h])
    /\ waiting' = [waiting EXCEPT ![h] = Idle]
    /\ UNCHANGED clock

\* The handlers that read the clock and log without an await in between.
LogAtOnce(event) ==
    /\ insertAuditLog([timestamp |-> Stamp, event |-> event])
    /\ UNCHANGED <<waiting, clock>>

\* A crash, or an await that throws, loses entries that were waiting.
Abandon(S) ==
    /\ \A h \in S : waiting[h] # Idle
    /\ waiting' = [h \in Handlers |-> IF h \in S THEN Idle ELSE waiting[h]]
    /\ UNCHANGED <<audit_log, clock>>

Tick ==
    /\ clock < MaxTime
    /\ clock' = clock + 1
    /\ UNCHANGED <<audit_log, waiting>>

Init == /\ audit_log = <<>>
        /\ waiting = [h \in Handlers |-> Idle]
        /\ clock = 0

Next == \/ \E h \in Handlers :
              \/ \E event \in Events : ReadClock(h, event)
              \/ LogAfterAwait(h)
        \/ \E event \in Events : LogAtOnce(event)
        \/ \E S \in (SUBSET Handlers) \ {{}} : Abandon(S)
        \/ Tick

Spec == Init /\ [][Next]_vars

-----------------------------------------------------------------------------
(* GET /api/v1/audit/verify, for a log that may have been edited *)

verifyAuditChain(log) ==
    \A i \in DOMAIN log :
        RowHash(i, log[i], log[i].prev_hash) = log[i].row_hash

-----------------------------------------------------------------------------
(* Properties *)

\* The log is a list of rows, the timestamps do not lie in the future.
TypeOK ==
    /\ audit_log \in Seq([timestamp: 0..clock, event: Events,
                          prev_hash: {Genesis} \cup {audit_log[i].row_hash : i \in Rows},
                          row_hash: {audit_log[i].row_hash : i \in Rows}])
    /\ Len(audit_log) <= MaxRows
    /\ waiting \in [Handlers -> Entry \cup {Idle}]
    /\ \A h \in Handlers : waiting[h].timestamp <= clock
    /\ clock \in 0..MaxTime

\* No row that was in the log before it is dated after it.
OnTime(i) ==
    \A j \in Rows : j < i => audit_log[j].timestamp <= audit_log[i].timestamp

\* However handlers overlap, the rows that arrived on time form one chain from
\* genesis, and a row that arrived late hangs off that chain: every row is
\* linked to the last row on time before it.
OnTimeRowsChained ==
    \A i \in Rows :
        \/ /\ i = 1
           /\ audit_log[i].prev_hash = Genesis
        \/ \E j \in Rows :
              /\ j < i /\ OnTime(j)
              /\ \A k \in Rows : (j < k /\ k < i) => ~OnTime(k)
              /\ audit_log[i].prev_hash = audit_log[j].row_hash

\* Verification never reports a log that only insertAuditLog wrote, also one
\* whose chain forks.
HonestLogVerifies == verifyAuditChain(audit_log)

\* Verification reports a log in which one row says something else, or was
\* dated otherwise, than when it was inserted.
EditsDetected ==
    \A i \in Rows, x \in Events, t \in 0..MaxTime :
        LET edited == [audit_log EXCEPT ![i].event = x, ![i].timestamp = t]
        IN  edited # audit_log => ~verifyAuditChain(edited)
=============================================================================
