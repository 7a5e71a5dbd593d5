------------------------------ MODULE Approvals ------------------------------
(***************************************************************************)
(* A tool call held for approval: the sidecar posts an approval request to *)
(* the registry and polls it, a human decides, and the call is forwarded   *)
(* to the MCP server or refused.  Requests and answers may be lost or      *)
(* late, and each side keeps its own deadline.                             *)
(***************************************************************************)
EXTENDS Integers

CONSTANTS
    Calls,         \* held tool calls
    ApprovalIds,   \* the uuids approvals are given
    Timeout,       \* lifetime of an approval, and of the sidecar's polling
    PollInterval,  \* pause between two polls
    MaxTime,       \* bound: the clock stops here, and polling starts only if
                   \* it can end by then
    Null           \* SQL NULL, or nothing yet

ASSUME ApprovalAssumption ==
    /\ Timeout \in Nat \ {0}
    /\ PollInterval \in Nat \ {0}
    /\ MaxTime \in Nat
    /\ Null \notin ApprovalIds \cup Nat

VARIABLES
    approvals,  \* table: id -> row, for the ids inserted so far
    notifying,  \* ids whose POST handler awaits the notification
    audit,      \* audit entries: which action on which approval
    posted,     \* calls whose POST is on its way to the registry
    replies,    \* calls and ids: POST answers on their way to the sidecar
    call,       \* what the sidecar does with each call
    now

vars == <<approvals, notifying, audit, posted, replies, call, now>>

Verdicts == {"approved", "denied"}
Statuses == {"pending", "expired"} \cup Verdicts

Row == [call: Calls, status: Statuses, requested_at: Nat, expires_at: Nat,
        decided_at: Nat \cup {Null}, decided_by: {Null, "human", "system"}]

CallState ==
    [phase: {"new", "posting", "forwarded", "refused"}]
    \cup [phase: {"sleeping"}, id: ApprovalIds, deadline: Nat, wake_at: Nat]
    \cup [phase: {"polling"}, id: ApprovalIds, deadline: Nat,
          answer: Statuses \cup {Null}]

Ids == DOMAIN approvals

-----------------------------------------------------------------------------
(* The approvals table *)

\* variant: every row that is past its expiry, the decided ones too
ExpireWhateverIsOld(a) ==
    IF a.expires_at <= now THEN [a EXCEPT !.status = "expired"] ELSE a

\* UPDATE ... SET status = 'expired' WHERE status = 'pending' AND expires_at <= now
ExpireOld(a) ==
    IF a.status = "pending" /\ a.expires_at <= now
    THEN [a EXCEPT !.status = "expired"] ELSE a

expireOldApprovals == [id \in Ids |-> ExpireOld(approvals[id])]

\* UPDATE ... WHERE id = ? AND status = 'pending'
updateApprovalStatus(id, status, decided_by) ==
    [approvals EXCEPT ![id] =
        IF @.status = "pending"
        THEN [@ EXCEPT !.status = status, !.decided_at = now,
                       !.decided_by = decided_by]
        ELSE @]

NewRow(c) == [call |-> c, status |-> "pending", requested_at |-> now,
              expires_at |-> now + Timeout, decided_at |-> Null,
              decided_by |-> Null]

\* POST /api/v1/approvals, up to the await of the notification.
CreateApproval(c, id) ==
    /\ c \in posted
    /\ id \notin Ids
    /\ posted' = posted \ {c}
    /\ approvals' = [i \in Ids \cup {id} |->
                        IF i = id THEN NewRow(c) ELSE expireOldApprovals[i]]
    /\ notifying' = notifying \cup {id}
    /\ UNCHANGED <<audit, replies, call, now>>

\* The rest of the handler: the audit entry and the answer.
AnswerCreate(id) ==
    /\ id \in notifying
    /\ notifying' = notifying \ {id}
    /\ audit' = audit \cup {[id |-> id, action |-> "requested"]}
    /\ replies' = replies \cup {[call |-> approvals[id].call, id |-> id]}
    /\ UNCHANGED <<approvals, posted, call, now>>

Expired(id) == approvals[id].expires_at <= now

\* POST /api/v1/approvals/:id/approve, /deny and /slack-action
Decide(id, verdict) ==
    /\ id \in Ids
    /\ approvals[id].status = "pending"
    /\ IF Expired(id)
       THEN /\ approvals' = updateApprovalStatus(id, "expired", "system")
            /\ UNCHANGED audit
       ELSE /\ approvals' = updateApprovalStatus(id, verdict, "human")
            /\ audit' = audit \cup {[id |-> id, action |-> verdict]}
    /\ UNCHANGED <<notifying, posted, replies, call, now>>

\* GET /api/v1/approvals/pending
ListPending ==
    /\ approvals' = expireOldApprovals
    /\ UNCHANGED <<notifying, audit, posted, replies, call, now>>

\* GET /api/v1/approvals/:id, the registry's side of a poll
GetApproval(c) ==
    /\ call[c].phase = "polling"
    /\ call[c].answer = Null
    /\ approvals' = IF Expired(call[c].id)
                    THEN updateApprovalStatus(call[c].id, "expired", "system")
                    ELSE approvals
    /\ call' = [call EXCEPT ![c].answer = approvals'[call[c].id].status]
    /\ UNCHANGED <<notifying, audit, posted, replies, now>>

\* The registry restarts: handlers that await a notification are gone.
RegistryCrash ==
    /\ notifying # {}
    /\ notifying' = {}
    /\ UNCHANGED <<approvals, audit, posted, replies, call, now>>

\* ... or while a verdict is given: its UPDATE and its audit entry are committed
\* one after the other, and the table keeps a verdict that the log never gets.
CrashInVerdict(id, verdict) ==
    /\ id \in Ids
    /\ approvals[id].status = "pending"
    /\ ~Expired(id)
    /\ approvals' = updateApprovalStatus(id, verdict, "human")
    /\ notifying' = {}
    /\ UNCHANGED <<audit, posted, replies, call, now>>

-----------------------------------------------------------------------------
(* requestAndPollApproval *)

Hold(c) ==
    /\ call[c].phase = "new"
    /\ call' = [call EXCEPT ![c] = [phase |-> "posting"]]
    /\ posted' = posted \cup {c}
    /\ UNCHANGED <<approvals, notifying, audit, replies, now>>

\* The POST is aborted after ten seconds or its connection breaks, before or
\* after the registry read it.
PostFails(c) ==
    /\ call[c].phase = "posting"
    /\ call' = [call EXCEPT ![c] = [phase |-> "refused"]]
    /\ posted' \in {posted, posted \ {c}}
    /\ UNCHANGED <<approvals, notifying, audit, replies, now>>

PostAnswered(c) ==
    \E r \in replies :
        /\ r.call = c
        /\ call[c].phase = "posting"
        /\ now + Timeout + PollInterval <= MaxTime
        /\ replies' = replies \ {r}
        /\ call' = [call EXCEPT ![c] =
              [phase |-> "sleeping", id |-> r.id, deadline |-> now + Timeout,
               wake_at |-> now + PollInterval]]
        /\ UNCHANGED <<approvals, notifying, audit, posted, now>>

Wake(c) ==
    /\ call[c].phase = "sleeping"
    /\ call[c].wake_at <= now
    /\ call' = [call EXCEPT ![c] =
          [phase |-> "polling", id |-> @.id, deadline |-> @.deadline,
           answer |-> Null]]
    /\ UNCHANGED <<approvals, notifying, audit, posted, replies, now>>

\* variant: the deadline is not looked at
PollForever(s) ==
    [phase |-> "sleeping", id |-> s.id, deadline |-> s.deadline,
     wake_at |-> now + PollInterval]

\* the loop condition, after a poll that decided nothing
PollAgain(s) ==
    IF now < s.deadline
    THEN [phase |-> "sleeping", id |-> s.id, deadline |-> s.deadline,
          wake_at |-> now + PollInterval]
    ELSE [phase |-> "refused"]

\* variant: past the deadline an undecided call goes through
AfterLenientPoll(s) ==
    CASE s.answer = "approved"              -> [phase |-> "forwarded"]
      [] s.answer \in {"denied", "expired"} -> [phase |-> "refused"]
      [] OTHER -> IF now < s.deadline THEN PollAgain(s)
                  ELSE [phase |-> "forwarded"]

AfterPoll(s) ==
    CASE s.answer = "approved"              -> [phase |-> "forwarded"]
      [] s.answer \in {"denied", "expired"} -> [phase |-> "refused"]
      [] OTHER                              -> PollAgain(s)

PollAnswered(c) ==
    /\ call[c].phase = "polling"
    /\ call[c].answer # Null
    /\ call' = [call EXCEPT ![c] = AfterPoll(@)]
    /\ UNCHANGED <<approvals, notifying, audit, posted, replies, now>>

\* Aborted after five seconds, a broken connection, or a status that is not ok.
PollFails(c) ==
    /\ call[c].phase = "polling"
    /\ call' = [call EXCEPT ![c] = PollAgain(@)]
    /\ UNCHANGED <<approvals, notifying, audit, posted, replies, now>>

Tick ==
    /\ now < MaxTime
    /\ now' = now + 1
    /\ UNCHANGED <<approvals, notifying, audit, posted, replies, call>>

-----------------------------------------------------------------------------
Init ==
    /\ approvals = [id \in {} |-> Null]
    /\ notifying = {} /\ audit = {} /\ posted = {} /\ replies = {}
    /\ call = [c \in Calls |-> [phase |-> "new"]]
    /\ now = 0

Sidecar(c) == PostFails(c) \/ PostAnswered(c) \/ Wake(c)
              \/ PollAnswered(c) \/ PollFails(c)

Next ==
    \/ \E c \in Calls :
          \/ Hold(c) \/ Sidecar(c) \/ GetApproval(c)
          \/ \E id \in ApprovalIds : CreateApproval(c, id)
    \/ \E id \in ApprovalIds : \/ AnswerCreate(id)
                               \/ \E v \in Verdicts :
                                     Decide(id, v) \/ CrashInVerdict(id, v)
    \/ ListPending
    \/ RegistryCrash
    \/ Tick

Spec == Init /\ [][Next]_vars

-----------------------------------------------------------------------------
(* Properties *)

\* Every variable has its type.
TypeOK ==
    /\ approvals \in [Ids -> Row] /\ Ids \subseteq ApprovalIds
    /\ notifying \subseteq Ids
    /\ audit \subseteq [id: Ids, action: {"requested"} \cup Verdicts]
    /\ posted \subseteq Calls
    /\ replies \subseteq [call: Calls, id: Ids]
    /\ call \in [Calls -> CallState]
    /\ now \in 0..MaxTime

\* A held call reaches the MCP server only if a human approved an approval of
\* that very call, and nothing undid the approval since.
ForwardedWasApproved ==
    \A c \in Calls : call[c].phase = "forwarded" =>
        \E id \in Ids : /\ approvals[id].call = c
                        /\ approvals[id].status = "approved"
                        /\ approvals[id].decided_by = "human"

\* Every verdict falls between request and expiry, also one that races a
\* listing, a poll or another verdict.
VerdictsInTime ==
    \A id \in Ids : approvals[id].status \in Verdicts =>
        /\ approvals[id].requested_at <= approvals[id].decided_at
        /\ approvals[id].decided_at < approvals[id].expires_at

\* What the log says of a verdict is what the table says, for good: no two
\* verdicts on one approval are logged, nor one that came too late to count.
\* The other way round a crash may leave a verdict out of the log.
LoggedVerdictsHold ==
    \A id \in Ids, v \in Verdicts :
        [id |-> id, action |-> v] \in audit => approvals[id].status = v

\* The type invariant and the three above: neither the tool nor the log has
\* seen a verdict that the table does not have, whatever races what.
ApprovalsSound ==
    TypeOK /\ ForwardedWasApproved /\ VerdictsInTime /\ LoggedVerdictsHold

\* A decided or expired approval never changes.
DecisionIsFinal ==
    [][\A id \in Ids : approvals[id].status # "pending"
                          => approvals'[id] = approvals[id]]_vars

\* A sidecar polls the approval of its own call (part of why the invariants
\* above hold).
PollsItsOwn ==
    \A c \in Calls : call[c].phase \in {"sleeping", "polling"} =>
        call[c].id \in Ids /\ approvals[call[c].id].call = c

\* Every held call is forwarded or refused, whatever the registry, the network
\* and the human do.
HeldCallsEnd ==
    \A c \in Calls : call[c].phase = "posting"
                        ~> call[c].phase \in {"forwarded", "refused"}

=============================================================================
