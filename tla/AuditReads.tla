----------------------------- MODULE AuditReads -----------------------------
(***************************************************************************)
(* Readers of the audit log while it grows: GET /api/audit, one page after *)
(* the other by limit and offset, and GET /api/audit/:id/trace, which      *)
(* looks its row up among the newest ones.  Pages are cut from the log by  *)
(* ORDER BY timestamp DESC; rows of one timestamp come in the order of the *)
(* index SQLite walks: newest first without a filter, as inserted with one.*)
(* Late rows (see AuditLog) appear anywhere in that order.                 *)
(***************************************************************************)
EXTENDS AuditLog, FiniteSets

CONSTANTS
    Limit,        \* rows on a page
    TraceWindow   \* rows that the trace route looks at, 1000

ASSUME ReadsAssumption == Limit \in Nat \ {0} /\ TraceWindow \in Nat \ {0}

VARIABLE reader   \* a client that pages through the log

AnyEvent == "any"
Resting == [phase |-> "resting"]

-----------------------------------------------------------------------------
(* queryAuditLog *)

Matching(filter) ==
    {i \in Rows : filter = AnyEvent \/ audit_log[i].event = filter}

PageOrder(filter, i, j) ==
    \/ audit_log[i].timestamp > audit_log[j].timestamp
    \/ /\ audit_log[i].timestamp = audit_log[j].timestamp
       /\ IF filter = AnyEvent THEN i > j ELSE i < j

\* The rows that come before a row: its place in that order is their number.
Ahead(filter, i) == {j \in Matching(filter) : PageOrder(filter, j, i)}

\* variant: limit and offset are bound in the other order
SwappedPage(filter, limit, offset) ==
    {i \in Matching(filter) :
        Cardinality(Ahead(filter, i)) \in limit..(limit + offset - 1)}

\* LIMIT limit OFFSET offset
Page(filter, limit, offset) ==
    {i \in Matching(filter) :
        Cardinality(Ahead(filter, i)) \in offset..(offset + limit - 1)}

queryAuditLog(filter, limit, offset) ==
    [entries |-> Page(filter, limit, offset),
     total |-> Cardinality(Matching(filter))]

\* GET /api/audit/:id/trace: 404 for a row beyond the window
Traceable(id) == id \in queryAuditLog(AnyEvent, TraceWindow, 0).entries
TraceAnswer(id) == [id |-> id, hash_verified |-> verifyAuditChain(audit_log)]

-----------------------------------------------------------------------------
(* A client of GET /api/audit *)

StartPaging(filter) ==
    /\ reader = Resting
    /\ reader' = [phase |-> "paging", filter |-> filter, offset |-> 0,
                  seen |-> {}, wanted |-> Matching(filter)]
    /\ UNCHANGED vars

\* It asks for pages until its offset has passed the total.
NextPage ==
    /\ reader.phase = "paging"
    /\ LET answer == queryAuditLog(reader.filter, Limit, reader.offset)
       IN  reader' = [reader EXCEPT
                !.seen = @ \cup answer.entries,
                !.offset = @ + Limit,
                !.phase = IF reader.offset + Limit >= answer.total
                          THEN "done" ELSE "paging"]
    /\ UNCHANGED vars

Rest ==
    /\ reader.phase = "done"
    /\ reader' = Resting
    /\ UNCHANGED vars

ReadInit == Init /\ reader = Resting

ReadNext == \/ Next /\ UNCHANGED reader
            \/ \E filter \in Events \cup {AnyEvent} : StartPaging(filter)
            \/ NextPage
            \/ Rest

ReadSpec == ReadInit /\ [][ReadNext]_<<vars, reader>>

-----------------------------------------------------------------------------
(* Properties *)

\* Rows that are logged while a client pages, late ones included, may show it a
\* row twice but hide none that was there when it began.
PagingMissesNothing ==
    reader.phase = "done" => reader.wanted \subseteq reader.seen

\* The row that the next one will be chained to is always found by the trace
\* route and reported as verified, whichever rows share its timestamp.
NewestIsTraceable ==
    audit_log # <<>> => Traceable(Newest) /\ TraceAnswer(Newest).hash_verified

ReadersSeeTheLog == PagingMissesNothing /\ NewestIsTraceable
=============================================================================
