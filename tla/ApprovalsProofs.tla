--------------------------- MODULE ApprovalsProofs ---------------------------
(***************************************************************************)
(* Held calls and their approvals for any number of calls, approvals and   *)
(* channels and any deadlines.  What each step does to the table comes     *)
(* first: rows are only added, and a decided row stays as it is.  The      *)
(* invariant then follows an approval from the row to the answer on its    *)
(* way and from there to the call.                                         *)
(***************************************************************************)
EXTENDS ApprovalNotifier, TLAPS

\* An answer on its way carries the id of the call's own approval.
RepliesMatch == \A r \in replies : approvals[r.id].call = r.call

\* Only a human approves.
HumansApprove ==
    \A id \in Ids : approvals[id].status = "approved"
                       => approvals[id].decided_by = "human"

\* An approval that a sidecar has read is still in the table.
AnswersHold ==
    \A c \in Calls : /\ call[c].phase = "polling"
                     /\ call[c].answer # Null
                     /\ call[c].answer = "approved"
                     => approvals[call[c].id].status = "approved"

\* No approval was requested in the future.
RequestedByNow == \A id \in Ids : approvals[id].requested_at <= now

ApprovalsInv ==
    /\ ApprovalsSound
    /\ PollsItsOwn /\ RepliesMatch /\ HumansApprove /\ AnswersHold
    /\ RequestedByNow

\* What a step may do to the table: add a pending row, decide or expire pending
\* rows.
TableStep ==
    /\ Ids \subseteq Ids' /\ Ids' \subseteq ApprovalIds
    /\ \A id \in Ids : /\ approvals'[id] \in Row
                       /\ approvals'[id].call = approvals[id].call
                       /\ approvals'[id].requested_at = approvals[id].requested_at
                       /\ approvals[id].status # "pending"
                             => approvals'[id] = approvals[id]
    /\ \A id \in Ids' \ Ids : /\ approvals'[id] \in Row
                              /\ approvals'[id].status = "pending"
                              /\ approvals'[id].requested_at = now
    /\ approvals' = [id \in Ids' |-> approvals'[id]]

Logged(id, v) == [id |-> id, action |-> v] \in audit

\* What a step may do to a row that is in the table, and to its verdicts in the
\* log: nothing, expire it, or decide it in time and log nothing but that.
RowStep(id) ==
    \/ /\ approvals'[id] = approvals[id]
       /\ \A v \in Verdicts : Logged(id, v)' <=> Logged(id, v)
    \/ /\ approvals[id].status = "pending"
       /\ approvals'[id].status = "expired"
       /\ \A v \in Verdicts : Logged(id, v)' <=> Logged(id, v)
    \/ \E verdict \in Verdicts :
          /\ approvals[id].status = "pending"
          /\ now < approvals[id].expires_at
          /\ approvals'[id] = [call |-> approvals[id].call, status |-> verdict,
                               requested_at |-> approvals[id].requested_at,
                               expires_at |-> approvals[id].expires_at,
                               decided_at |-> now, decided_by |-> "human"]
          /\ \A v \in Verdicts : Logged(id, v)' => v = verdict \/ Logged(id, v)

\* What a step may do to a call: a sidecar only ever polls the id of an answer
\* to its own call, and forwards only a call it was told is approved.
CallStep(c) ==
    \/ call'[c] = call[c]
    \/ call'[c].phase \in {"posting", "refused"}
    \/ /\ call'[c].phase = "sleeping"
       /\ \E r \in replies : r.call = c /\ call'[c].id = r.id
    \/ /\ call[c].phase = "sleeping" /\ call'[c].phase = "polling"
       /\ call'[c].id = call[c].id /\ call'[c].answer = Null
    \/ /\ call[c].phase = "polling" /\ call'[c].phase = "sleeping"
       /\ call'[c].id = call[c].id
    \/ /\ call[c].phase = "polling" /\ call'[c].phase = "forwarded"
       /\ call[c].answer # Null /\ call[c].answer = "approved"
    \/ /\ call[c].phase = "polling" /\ call'[c].phase = "polling"
       /\ call'[c].id = call[c].id
       /\ call'[c].answer = approvals'[call[c].id].status

-----------------------------------------------------------------------------
(* The steps of the notifier are steps of the approvals *)

\* Whatever the channels do, the registry and the sidecar take the steps that
\* Approvals has for them.
LEMMA NotifierSteps ==
  ASSUME TypeOK, [NotifierNext]_allVars
  PROVE  [Next]_vars
<1>1. CASE UNCHANGED allVars
  BY <1>1 DEF allVars
<1>2. CASE \E c \in Calls : SidecarSteps(c) \/ Served(c)
  BY <1>2 DEF SidecarSteps, Served, Next
<1>3. CASE \E c \in Calls, id \in ApprovalIds : Request(c, id)
  BY <1>3 DEF Request, Next
<1>4. CASE \E id \in ApprovalIds : AnswerRequest(id)
  BY <1>4 DEF AnswerRequest, Next
<1>5. CASE \E id \in ApprovalIds, channel \in {"webhook", "slack"} :
              Tell(id, channel)
  BY <1>5 DEF Tell
<1>6. CASE Clicked
  <2>1. PICK id \in Told("slack") : \E click \in buildSlackBlockKit(id) :
           Decide(parseSlackAction(click).approval,
                  parseSlackAction(click).verdict)
    BY <1>6 DEF Clicked
  <2>2. PICK click \in buildSlackBlockKit(id) :
           Decide(parseSlackAction(click).approval,
                  parseSlackAction(click).verdict)
    BY <2>1
  <2>3. /\ parseSlackAction(click).approval = id
        /\ parseSlackAction(click).verdict \in Verdicts
    BY DEF buildSlackBlockKit, parseSlackAction, Verdicts
  <2>4. id \in ApprovalIds
    BY DEF Told, TypeOK
  <2> QED
    BY <2>2, <2>3, <2>4 DEF Next
<1>7. CASE Follows
  <2>1. PICK id \in Ids : \E link \in buildWebhookPayload(id) :
           Decide(link.approval, link.verdict)
    BY <1>7 DEF Follows
  <2>2. PICK link \in buildWebhookPayload(id) :
           Decide(link.approval, link.verdict)
    BY <2>1
  <2>3. link.approval = id /\ link.verdict \in Verdicts /\ id \in ApprovalIds
    BY DEF buildWebhookPayload, TypeOK
  <2> QED
    BY <2>2, <2>3 DEF Next
<1>8. CASE Restart \/ Others
  BY <1>8 DEF Restart, Others, Next
<1> QED
  BY <1>1, <1>2, <1>3, <1>4, <1>5, <1>6, <1>7, <1>8 DEF NotifierNext

-----------------------------------------------------------------------------
(* The table *)

\* The fields of a row.
LEMMA Rows ==
  ASSUME TypeOK, NEW id \in Ids
  PROVE  /\ approvals[id] \in Row /\ id \in ApprovalIds
         /\ approvals[id].call \in Calls
         /\ approvals[id].status \in Statuses
         /\ approvals[id].requested_at \in Nat
         /\ approvals[id].expires_at \in Nat
         /\ now \in Nat
<1>1. approvals[id] \in Row /\ id \in ApprovalIds
  BY DEF TypeOK
<1>2. MaxTime \in Nat
  BY ApprovalAssumption
<1>3. now \in Nat
  BY <1>2 DEF TypeOK
<1> QED
  BY <1>1, <1>3 DEF Row

\* Three fields of a row are written, the others stay.
LEMMA RowUpdate ==
  ASSUME NEW r \in Row, NEW s, NEW t, NEW by
  PROVE  [r EXCEPT !.status = s, !.decided_at = t, !.decided_by = by]
            = [call |-> r.call, status |-> s, requested_at |-> r.requested_at,
               expires_at |-> r.expires_at, decided_at |-> t,
               decided_by |-> by]
<1> DEFINE r1 == [r EXCEPT !.status = s]
           r2 == [r1 EXCEPT !.decided_at = t]
           r3 == [r2 EXCEPT !.decided_by = by]
           Fields(st, at, b) ==
              [call |-> r.call, status |-> st, requested_at |-> r.requested_at,
               expires_at |-> r.expires_at, decided_at |-> at,
               decided_by |-> b]
<1>1. r = Fields(r.status, r.decided_at, r.decided_by)
  BY DEF Row
<1>2. r1 = Fields(s, r.decided_at, r.decided_by)
  BY <1>1
<1>3. r2 = Fields(s, t, r.decided_by)
  <2> HIDE DEF r1
  <2> QED
    BY <1>2
<1>4. r3 = Fields(s, t, by)
  <2> HIDE DEF r2
  <2> QED
    BY <1>3
<1>5. [r EXCEPT !.status = s, !.decided_at = t, !.decided_by = by] = r3
  <2> HIDE DEF r1, r2, r3
  <2> QED
    BY Zenon DEF r1, r2, r3
<1> QED
  BY <1>4, <1>5

\* updateApprovalStatus and expireOldApprovals: only a pending row changes.
LEMMA Updates ==
  ASSUME TypeOK
  PROVE  /\ \A id \in Ids : /\ ExpireOld(approvals[id]) \in Row
                            /\ ExpireOld(approvals[id]).call = approvals[id].call
                            /\ ExpireOld(approvals[id]).requested_at
                                  = approvals[id].requested_at
                            /\ approvals[id].status # "pending" =>
                                  ExpireOld(approvals[id]) = approvals[id]
                            /\ \/ ExpireOld(approvals[id]) = approvals[id]
                               \/ ExpireOld(approvals[id]).status = "expired"
         /\ \A id \in Ids, s \in Statuses, by \in {"human", "system"} :
               approvals[id].status = "pending" =>
                  updateApprovalStatus(id, s, by) =
                     [approvals EXCEPT ![id] =
                        [call |-> approvals[id].call, status |-> s,
                         requested_at |-> approvals[id].requested_at,
                         expires_at |-> approvals[id].expires_at,
                         decided_at |-> now, decided_by |-> by]]
         /\ \A id \in Ids, s \in Statuses, by \in {"human", "system"} :
               approvals[id].status # "pending" =>
                  updateApprovalStatus(id, s, by) = approvals
<1>1. ASSUME NEW id \in Ids
      PROVE  /\ ExpireOld(approvals[id]) \in Row
             /\ ExpireOld(approvals[id]).call = approvals[id].call
             /\ ExpireOld(approvals[id]).requested_at = approvals[id].requested_at
             /\ approvals[id].status # "pending" =>
                   ExpireOld(approvals[id]) = approvals[id]
             /\ \/ ExpireOld(approvals[id]) = approvals[id]
                \/ ExpireOld(approvals[id]).status = "expired"
  <2>1. approvals[id] \in Row
    BY Rows
  <2> QED
    BY <2>1 DEF ExpireOld, Row, Statuses
<1>2. ASSUME NEW id \in Ids, NEW s \in Statuses, NEW by \in {"human", "system"},
             approvals[id].status = "pending"
      PROVE  updateApprovalStatus(id, s, by) =
                [approvals EXCEPT ![id] =
                   [call |-> approvals[id].call, status |-> s,
                    requested_at |-> approvals[id].requested_at,
                    expires_at |-> approvals[id].expires_at,
                    decided_at |-> now, decided_by |-> by]]
  <2>1. approvals[id] \in Row
    BY Rows
  <2>2. [approvals[id] EXCEPT !.status = s, !.decided_at = now,
                              !.decided_by = by]
           = [call |-> approvals[id].call, status |-> s,
              requested_at |-> approvals[id].requested_at,
              expires_at |-> approvals[id].expires_at,
              decided_at |-> now, decided_by |-> by]
    BY <2>1, RowUpdate
  <2> QED
    BY <1>2, <2>2 DEF updateApprovalStatus
<1>3. ASSUME NEW id \in Ids, NEW s \in Statuses, NEW by \in {"human", "system"},
             approvals[id].status # "pending"
      PROVE  updateApprovalStatus(id, s, by) = approvals
  BY <1>3 DEF updateApprovalStatus, TypeOK
<1> QED
  BY <1>1, <1>2, <1>3

\* One row is decided or expires: a table step, and the row has the new status.
LEMMA UpdateIsTableStep ==
  ASSUME TypeOK, NEW id \in Ids, NEW s \in Statuses \ {"pending"},
         NEW by \in {"human", "system"},
         approvals' = updateApprovalStatus(id, s, by)
  PROVE  /\ TableStep /\ Ids' = Ids
         /\ \A i \in Ids \ {id} : approvals'[i] = approvals[i]
         /\ approvals[id].status = "pending" =>
               approvals'[id] = [call |-> approvals[id].call, status |-> s,
                                 requested_at |-> approvals[id].requested_at,
                                 expires_at |-> approvals[id].expires_at,
                                 decided_at |-> now, decided_by |-> by]
<1>1. /\ Ids \subseteq ApprovalIds
      /\ approvals \in [Ids -> Row]
      /\ \A i \in Ids : approvals[i] \in Row
  BY DEF TypeOK
<1>2. CASE approvals[id].status # "pending"
  <2>1. approvals' = approvals
    BY <1>2, Updates
  <2> QED
    BY <1>1, <1>2, <2>1 DEF TableStep, Ids
<1>3. CASE approvals[id].status = "pending"
  <2> DEFINE new == [call |-> approvals[id].call, status |-> s,
                     requested_at |-> approvals[id].requested_at,
                     expires_at |-> approvals[id].expires_at,
                     decided_at |-> now, decided_by |-> by]
  <2>1. approvals' = [approvals EXCEPT ![id] = new]
    BY <1>3, Updates
  <2>2. new \in Row
    BY Rows DEF Row
  <2>3. /\ new.call = approvals[id].call
        /\ new.requested_at = approvals[id].requested_at
    OBVIOUS
  <2> HIDE DEF new
  <2>4. /\ Ids' = Ids
        /\ approvals'[id] = new
        /\ \A i \in Ids \ {id} : approvals'[i] = approvals[i]
        /\ approvals' = [i \in Ids' |-> approvals'[i]]
    BY <1>1, <2>1 DEF Ids
  <2>5. TableStep
    BY <1>1, <1>3, <2>2, <2>3, <2>4 DEF TableStep
  <2> QED
    BY <2>4, <2>5 DEF new
<1> QED
  BY <1>2, <1>3

\* Every step that is not one of CreateApproval, Decide, CrashInVerdict,
\* ListPending and GetApproval leaves the table alone.
LEMMA OtherSteps ==
  ASSUME [Next]_vars
  PROVE  \/ approvals' = approvals
         \/ \E c \in Calls, id \in ApprovalIds : CreateApproval(c, id)
         \/ \E id \in ApprovalIds, v \in Verdicts :
               Decide(id, v) \/ CrashInVerdict(id, v)
         \/ ListPending
         \/ \E c \in Calls : GetApproval(c)
<1>1. CASE UNCHANGED vars
  BY <1>1 DEF vars
<1>2. CASE Next
  <2>1. ASSUME NEW c \in Calls, Hold(c) \/ Sidecar(c)
        PROVE  approvals' = approvals
    BY <2>1 DEF Hold, Sidecar, PostFails, PostAnswered, Wake, PollAnswered,
                PollFails
  <2>2. ASSUME NEW id \in ApprovalIds, AnswerCreate(id)
        PROVE  approvals' = approvals
    BY <2>2 DEF AnswerCreate
  <2>3. RegistryCrash \/ Tick => approvals' = approvals
    BY DEF RegistryCrash, Tick
  <2> QED
    BY <1>2, <2>1, <2>2, <2>3 DEF Next
<1> QED
  BY <1>1, <1>2

\* Every step is a table step.
LEMMA TableSteps ==
  ASSUME TypeOK, PollsItsOwn, [Next]_vars
  PROVE  TableStep
<1>1. /\ Ids \subseteq ApprovalIds
      /\ approvals \in [Ids -> Row]
      /\ \A i \in Ids : approvals[i] \in Row
  BY DEF TypeOK
<1>2. CASE approvals' = approvals
  BY <1>1, <1>2 DEF TableStep, Ids
<1>3. ASSUME NEW c \in Calls, NEW id \in ApprovalIds, CreateApproval(c, id)
      PROVE  TableStep
  <2> DEFINE Filled(i) == IF i = id THEN NewRow(c) ELSE expireOldApprovals[i]
  <2>1. /\ id \notin Ids
        /\ approvals' = [i \in Ids \cup {id} |-> Filled(i)]
    BY <1>3 DEF CreateApproval
  <2>2. /\ NewRow(c) \in Row /\ NewRow(c).status = "pending"
        /\ NewRow(c).requested_at = now
    <3>1. now \in Nat /\ now + Timeout \in Nat
      BY ApprovalAssumption DEF TypeOK
    <3> QED
      BY <3>1 DEF NewRow, Row, Statuses
  <2>3. \A i \in Ids : expireOldApprovals[i] = ExpireOld(approvals[i])
    BY DEF expireOldApprovals
  <2>4. /\ Ids' = Ids \cup {id}
        /\ approvals'[id] = NewRow(c)
        /\ \A i \in Ids : approvals'[i] = ExpireOld(approvals[i])
        /\ approvals' = [i \in Ids' |-> approvals'[i]]
    BY <2>1, <2>3 DEF Ids
  <2> QED
    BY <1>1, <2>2, <2>4, Updates DEF TableStep
<1>4. ASSUME NEW id \in ApprovalIds, NEW v \in Verdicts,
             Decide(id, v) \/ CrashInVerdict(id, v)
      PROVE  TableStep
  <2>1. \E s \in Statuses \ {"pending"}, by \in {"human", "system"} :
           approvals' = updateApprovalStatus(id, s, by)
    BY <1>4 DEF Decide, CrashInVerdict, Verdicts, Statuses
  <2>2. id \in Ids
    BY <1>4 DEF Decide, CrashInVerdict
  <2> QED
    BY <2>1, <2>2, UpdateIsTableStep
<1>5. CASE ListPending
  <2>1. approvals' = expireOldApprovals
    BY <1>5 DEF ListPending
  <2>2. /\ Ids' = Ids
        /\ \A i \in Ids : approvals'[i] = ExpireOld(approvals[i])
        /\ approvals' = [i \in Ids' |-> approvals'[i]]
    BY <2>1 DEF expireOldApprovals, Ids
  <2> QED
    BY <1>1, <2>2, Updates DEF TableStep
<1>6. ASSUME NEW c \in Calls, GetApproval(c)
      PROVE  TableStep
  <2>1. call[c].id \in Ids
    BY <1>6 DEF GetApproval, PollsItsOwn
  <2>2. CASE Expired(call[c].id)
    <3>1. approvals' = updateApprovalStatus(call[c].id, "expired", "system")
      BY <1>6, <2>2 DEF GetApproval
    <3>2. "expired" \in Statuses \ {"pending"}
      BY DEF Statuses
    <3> QED
      BY <2>1, <3>1, <3>2, UpdateIsTableStep
  <2>3. CASE ~Expired(call[c].id)
    BY <1>2, <1>6, <2>3 DEF GetApproval
  <2> QED
    BY <2>2, <2>3
<1> QED
  BY <1>2, <1>3, <1>4, <1>5, <1>6, OtherSteps

-----------------------------------------------------------------------------
(* The calls *)

\* What CallState says of a call in each phase.
LEMMA CallStates ==
  ASSUME TypeOK, NEW c \in Calls
  PROVE  /\ call[c] \in CallState
         /\ call[c].phase \in {"new", "posting", "forwarded", "refused",
                              "sleeping", "polling"}
         /\ call[c].phase \in {"sleeping", "polling"} =>
               call[c].id \in ApprovalIds /\ call[c].deadline \in Nat
         /\ call[c].phase = "polling" =>
               call[c].answer \in Statuses \cup {Null}
<1>1. call[c] \in CallState
  BY DEF TypeOK
<1> QED
  BY <1>1 DEF CallState

\* PollAgain and AfterPoll: the state a call goes to.
LEMMA AfterPolls ==
  ASSUME TypeOK, NEW c \in Calls, call[c].phase = "polling"
  PROVE  /\ PollAgain(call[c]) \in CallState
         /\ AfterPoll(call[c]) \in CallState
         /\ PollAgain(call[c]).phase \in {"sleeping", "refused"}
         /\ PollAgain(call[c]).phase = "sleeping" =>
               PollAgain(call[c]).id = call[c].id
         /\ call[c].answer = "approved" =>
               AfterPoll(call[c]).phase = "forwarded"
         /\ call[c].answer # "approved" =>
               /\ AfterPoll(call[c]).phase \in {"sleeping", "refused"}
               /\ AfterPoll(call[c]).phase = "sleeping" =>
                     AfterPoll(call[c]).id = call[c].id
<1>1. /\ call[c].id \in ApprovalIds /\ call[c].deadline \in Nat
      /\ now + PollInterval \in Nat
  BY CallStates, ApprovalAssumption DEF TypeOK
<1>2. /\ PollAgain(call[c]) \in CallState
      /\ PollAgain(call[c]).phase \in {"sleeping", "refused"}
      /\ PollAgain(call[c]).phase = "sleeping" =>
            PollAgain(call[c]).id = call[c].id
  BY <1>1 DEF PollAgain, CallState
<1>3. /\ [phase |-> "forwarded"] \in CallState
      /\ [phase |-> "refused"] \in CallState
  BY DEF CallState
<1>4. AfterPoll(call[c]) = CASE call[c].answer = "approved" -> [phase |-> "forwarded"]
        [] call[c].answer \in {"denied", "expired"} -> [phase |-> "refused"]
        [] OTHER -> PollAgain(call[c])
  BY DEF AfterPoll
<1>5. CASE call[c].answer = "approved"
  <2>1. AfterPoll(call[c]) = [phase |-> "forwarded"]
    BY <1>4, <1>5
  <2> QED
    BY <1>2, <1>3, <1>5, <2>1
<1>6. CASE call[c].answer \in {"denied", "expired"}
  <2>1. AfterPoll(call[c]) = [phase |-> "refused"]
    BY <1>4, <1>6
  <2> QED
    BY <1>2, <1>3, <1>6, <2>1
<1>7. CASE call[c].answer \notin {"approved", "denied", "expired"}
  <2>1. AfterPoll(call[c]) = PollAgain(call[c])
    BY <1>4, <1>7
  <2> QED
    BY <1>2, <1>7, <2>1
<1> QED
  BY <1>5, <1>6, <1>7

-----------------------------------------------------------------------------
(* The rows *)

\* A step that logs no verdict and updates a row or expires rows.
LEMMA ExpiringSteps ==
  ASSUME TypeOK, NEW i \in Ids, audit' = audit,
         \/ approvals'[i] = approvals[i]
         \/ approvals'[i] = ExpireOld(approvals[i])
         \/ \E id \in Ids, s \in {"expired"}, by \in {"human", "system"} :
               approvals' = updateApprovalStatus(id, s, by)
  PROVE  RowStep(i)
<1>1. \A v \in Verdicts : Logged(i, v)' <=> Logged(i, v)
  BY DEF Logged
<1>2. CASE approvals'[i] = approvals[i]
  BY <1>1, <1>2 DEF RowStep
<1>3. CASE approvals'[i] = ExpireOld(approvals[i])
  <2>1. CASE approvals[i].status # "pending"
    BY <1>2, <1>3, <2>1, Updates
  <2>2. CASE approvals[i].status = "pending"
    BY <1>1, <1>2, <1>3, <2>2, Updates DEF RowStep
  <2> QED
    BY <2>1, <2>2
<1>4. ASSUME NEW id \in Ids, NEW by \in {"human", "system"},
             approvals' = updateApprovalStatus(id, "expired", by)
      PROVE  RowStep(i)
  <2>1. "expired" \in Statuses \ {"pending"}
    BY DEF Statuses
  <2>2. /\ TableStep
        /\ \A j \in Ids \ {id} : approvals'[j] = approvals[j]
        /\ approvals[id].status = "pending" =>
              approvals'[id] = [call |-> approvals[id].call,
                               status |-> "expired",
                               requested_at |-> approvals[id].requested_at,
                               expires_at |-> approvals[id].expires_at,
                               decided_at |-> now, decided_by |-> by]
    BY <1>4, <2>1, UpdateIsTableStep
  <2>3. CASE i # id \/ approvals[i].status # "pending"
    BY <1>2, <2>2, <2>3 DEF TableStep
  <2>4. CASE i = id /\ approvals[i].status = "pending"
    BY <1>1, <2>2, <2>4 DEF RowStep
  <2> QED
    BY <2>3, <2>4
<1> QED
  BY <1>2, <1>3, <1>4

\* Every step is such a step of every row, and a new row has no verdict.
LEMMA RowSteps ==
  ASSUME TypeOK, PollsItsOwn, [Next]_vars
  PROVE  /\ \A i \in Ids : RowStep(i)
         /\ \A i \in Ids' \ Ids, v \in Verdicts : ~Logged(i, v)'
<1>1. \A i, v : Logged(i, v) => i \in Ids
  <2> SUFFICES ASSUME NEW i, NEW v, Logged(i, v) PROVE i \in Ids
    OBVIOUS
  <2>1. [id |-> i, action |-> v] \in [id: Ids, action: {"requested"} \cup Verdicts]
    BY DEF Logged, TypeOK
  <2> QED
    BY <2>1
<1>2. ASSUME NEW c \in Calls, NEW id \in ApprovalIds, CreateApproval(c, id)
      PROVE  /\ \A i \in Ids : RowStep(i)
             /\ \A i \in Ids' \ Ids, v \in Verdicts : ~Logged(i, v)'
  <2>1. /\ id \notin Ids /\ audit' = audit
        /\ approvals' = [i \in Ids \cup {id} |->
                            IF i = id THEN NewRow(c) ELSE expireOldApprovals[i]]
    BY <1>2 DEF CreateApproval
  <2>2. \A i \in Ids : approvals'[i] = ExpireOld(approvals[i])
    BY <2>1 DEF expireOldApprovals
  <2> QED
    BY <1>1, <2>1, <2>2, ExpiringSteps DEF Logged
<1>3. ASSUME NEW id \in ApprovalIds, NEW v \in Verdicts,
             Decide(id, v) \/ CrashInVerdict(id, v)
      PROVE  Ids' = Ids /\ \A i \in Ids : RowStep(i)
  <2>1. id \in Ids /\ approvals[id].status = "pending"
    BY <1>3 DEF Decide, CrashInVerdict
  <2>2. v \in Statuses \ {"pending"} /\ "expired" \in Statuses \ {"pending"}
    BY DEF Statuses, Verdicts
  <2>3. CASE Expired(id)
    <3>1. /\ approvals' = updateApprovalStatus(id, "expired", "system")
          /\ audit' = audit
      BY <1>3, <2>3 DEF Decide, CrashInVerdict
    <3> QED
      BY <2>1, <2>2, <3>1, ExpiringSteps, UpdateIsTableStep
  <2>4. CASE ~Expired(id)
    <3>1. /\ approvals' = updateApprovalStatus(id, v, "human")
          /\ audit' \subseteq audit \cup {[id |-> id, action |-> v]}
          /\ audit \subseteq audit'
      BY <1>3, <2>4 DEF Decide, CrashInVerdict
    <3>2. now < approvals[id].expires_at
      BY <2>1, <2>4, Rows DEF Expired
    <3>3. /\ Ids' = Ids
          /\ \A i \in Ids \ {id} : approvals'[i] = approvals[i]
          /\ approvals'[id] = [call |-> approvals[id].call, status |-> v,
                               requested_at |-> approvals[id].requested_at,
                               expires_at |-> approvals[id].expires_at,
                               decided_at |-> now, decided_by |-> "human"]
      BY <2>1, <2>2, <3>1, UpdateIsTableStep
    <3>4. \A i, w : /\ Logged(i, w)' => (i = id /\ w = v) \/ Logged(i, w)
                    /\ Logged(i, w) => Logged(i, w)'
      <4>1. \A i, w : [id |-> i, action |-> w] = [id |-> id, action |-> v]
                         <=> i = id /\ w = v
        OBVIOUS
      <4> QED
        BY <3>1, <4>1 DEF Logged
    <3>5. RowStep(id)
      BY <2>1, <3>2, <3>3, <3>4 DEF RowStep
    <3>6. \A i \in Ids \ {id} : RowStep(i)
      BY <3>3, <3>4 DEF RowStep
    <3> QED
      BY <3>3, <3>5, <3>6
  <2> QED
    BY <2>3, <2>4
<1>4. CASE ListPending
  <2>1. approvals' = expireOldApprovals /\ audit' = audit
    BY <1>4 DEF ListPending
  <2>2. /\ Ids' = Ids
        /\ \A i \in Ids : approvals'[i] = ExpireOld(approvals[i])
    BY <2>1 DEF expireOldApprovals, Ids
  <2> QED
    BY <2>1, <2>2, ExpiringSteps
<1>5. ASSUME NEW c \in Calls, GetApproval(c)
      PROVE  Ids' = Ids /\ \A i \in Ids : RowStep(i)
  <2>1. call[c].id \in Ids /\ audit' = audit
    BY <1>5 DEF GetApproval, PollsItsOwn
  <2>2. CASE Expired(call[c].id)
    <3>1. approvals' = updateApprovalStatus(call[c].id, "expired", "system")
      BY <1>5, <2>2 DEF GetApproval
    <3>2. "expired" \in Statuses \ {"pending"}
      BY DEF Statuses
    <3> QED
      BY <2>1, <3>1, <3>2, ExpiringSteps, UpdateIsTableStep
  <2>3. CASE ~Expired(call[c].id)
    <3>1. approvals' = approvals
      BY <1>5, <2>3 DEF GetApproval
    <3> QED
      BY <2>1, <3>1, ExpiringSteps DEF Ids
  <2> QED
    BY <2>2, <2>3
<1>6. ASSUME approvals' = approvals,
             ~ \E id \in ApprovalIds, v \in Verdicts :
                  Decide(id, v) \/ CrashInVerdict(id, v)
      PROVE  Ids' = Ids /\ \A i \in Ids : RowStep(i)
  <2>1. \A i, v : v \in Verdicts => (Logged(i, v)' <=> Logged(i, v))
    <3>1. CASE \E id \in ApprovalIds : AnswerCreate(id)
      <4>1. PICK id \in ApprovalIds :
               audit' = audit \cup {[id |-> id, action |-> "requested"]}
        BY <3>1 DEF AnswerCreate
      <4>2. \A i, v : v \in Verdicts =>
               [id |-> i, action |-> v] # [id |-> id, action |-> "requested"]
        BY DEF Verdicts
      <4> QED
        BY <4>1, <4>2 DEF Logged
    <3>2. CASE audit' = audit
      BY <3>2 DEF Logged
    <3>3. CASE UNCHANGED vars
      BY <3>2, <3>3 DEF vars
    <3> QED
      BY <1>6, <3>1, <3>2, <3>3 DEF Next, Hold, Sidecar, PostFails,
         PostAnswered, Wake, PollAnswered, PollFails, GetApproval,
         CreateApproval, ListPending, RegistryCrash, Tick
  <2> QED
    BY <1>6, <2>1 DEF RowStep, Ids
<1> QED
  BY <1>2, <1>3, <1>4, <1>5, <1>6, OtherSteps

\* Every step is such a step of every call, and keeps the calls typed.
LEMMA CallSteps ==
  ASSUME TypeOK, PollsItsOwn, [Next]_vars
  PROVE  /\ call' \in [Calls -> CallState]
         /\ \A c \in Calls : CallStep(c)
<1> DEFINE Ok == /\ call' \in [Calls -> CallState]
                 /\ \A d \in Calls : CallStep(d)
<1>1. call \in [Calls -> CallState]
  BY DEF TypeOK
<1>2. ASSUME NEW c \in Calls, NEW s \in CallState,
             call' = [call EXCEPT ![c] = s],
             call'[c] = s => CallStep(c)
      PROVE  Ok
  <2>1. /\ call' \in [Calls -> CallState]
        /\ call'[c] = s
        /\ \A d \in Calls \ {c} : call'[d] = call[d]
    BY <1>1, <1>2
  <2> QED
    BY <1>2, <2>1 DEF CallStep
<1>3. CASE call' = call
  BY <1>1, <1>3 DEF CallStep
<1>4. ASSUME NEW c \in Calls, Hold(c) \/ PostFails(c)
      PROVE  Ok
  <2>1. PICK s \in {[phase |-> "posting"], [phase |-> "refused"]} :
           call' = [call EXCEPT ![c] = s]
    BY <1>4 DEF Hold, PostFails
  <2>2. s \in CallState /\ s.phase \in {"posting", "refused"}
    BY DEF CallState
  <2>3. call'[c] = s => CallStep(c)
    BY <2>2 DEF CallStep
  <2> HIDE DEF Ok
  <2> QED
    BY <1>2, <2>1, <2>2, <2>3
<1>5. ASSUME NEW c \in Calls, PostAnswered(c)
      PROVE  Ok
  <2>1. PICK r \in replies :
           /\ r.call = c
           /\ call' = [call EXCEPT ![c] =
                 [phase |-> "sleeping", id |-> r.id, deadline |-> now + Timeout,
                  wake_at |-> now + PollInterval]]
    BY <1>5 DEF PostAnswered
  <2> DEFINE s == [phase |-> "sleeping", id |-> r.id,
                   deadline |-> now + Timeout, wake_at |-> now + PollInterval]
  <2>2. s \in CallState
    <3>1. r.id \in ApprovalIds
      BY DEF TypeOK
    <3>2. now + Timeout \in Nat /\ now + PollInterval \in Nat
      BY ApprovalAssumption DEF TypeOK
    <3> QED
      BY <3>1, <3>2 DEF CallState
  <2>3. s.phase = "sleeping" /\ s.id = r.id
    OBVIOUS
  <2> HIDE DEF s
  <2>4. call'[c] = s => CallStep(c)
    BY <2>1, <2>3 DEF CallStep
  <2>5. call' = [call EXCEPT ![c] = s]
    BY <2>1 DEF s
  <2> HIDE DEF Ok
  <2> QED
    BY <1>2, <2>2, <2>4, <2>5
<1>6. ASSUME NEW c \in Calls, Wake(c)
      PROVE  Ok
  <2> DEFINE s == [phase |-> "polling", id |-> call[c].id,
                   deadline |-> call[c].deadline, answer |-> Null]
  <2>1. call' = [call EXCEPT ![c] = s] /\ call[c].phase = "sleeping"
    BY <1>1, <1>6 DEF Wake
  <2>2. s \in CallState
    BY <2>1, CallStates DEF CallState
  <2>3. s.phase = "polling" /\ s.id = call[c].id /\ s.answer = Null
    OBVIOUS
  <2> HIDE DEF s
  <2>4. call'[c] = s => CallStep(c)
    BY <2>1, <2>3 DEF CallStep
  <2> HIDE DEF Ok
  <2> QED
    BY <1>2, <2>1, <2>2, <2>4
<1>7. ASSUME NEW c \in Calls, PollAnswered(c) \/ PollFails(c)
      PROVE  Ok
  <2>1. /\ call[c].phase = "polling"
        /\ \/ call' = [call EXCEPT ![c] = PollAgain(call[c])]
           \/ /\ call' = [call EXCEPT ![c] = AfterPoll(call[c])]
              /\ call[c].answer # Null
    BY <1>1, <1>7 DEF PollAnswered, PollFails
  <2>2. call'[c] = PollAgain(call[c]) => CallStep(c)
    BY <2>1, AfterPolls DEF CallStep
  <2>3. call[c].answer # Null /\ call'[c] = AfterPoll(call[c]) => CallStep(c)
    BY <2>1, AfterPolls DEF CallStep
  <2> HIDE DEF Ok
  <2> QED
    BY <1>2, <2>1, <2>2, <2>3, AfterPolls
<1>8. ASSUME NEW c \in Calls, GetApproval(c)
      PROVE  Ok
  <2> DEFINE id == call[c].id
             s == [call[c] EXCEPT !.answer = approvals'[id].status]
  <2>1. call[c].phase = "polling" /\ call' = [call EXCEPT ![c] = s]
    BY <1>1, <1>8 DEF GetApproval
  <2>2. approvals'[id].status \in Statuses
    <3>1. approvals'[id] \in Row
      BY <2>1, TableSteps DEF TableStep, PollsItsOwn
    <3> QED
      BY <3>1 DEF Row
  <2>3. call[c] \in [phase: {"polling"}, id: ApprovalIds, deadline: Nat,
                     answer: Statuses \cup {Null}]
    BY <2>1, CallStates DEF CallState
  <2>4. /\ s \in [phase: {"polling"}, id: ApprovalIds, deadline: Nat,
                  answer: Statuses \cup {Null}]
        /\ s.phase = "polling" /\ s.id = id
        /\ s.answer = approvals'[id].status
    BY <2>2, <2>3
  <2> HIDE DEF s
  <2>5. s \in CallState
    BY <2>4 DEF CallState
  <2>6. call'[c] = s => CallStep(c)
    BY <2>1, <2>4 DEF CallStep
  <2> HIDE DEF Ok
  <2> QED
    BY <1>2, <2>1, <2>5, <2>6
<1>9. \/ call' = call
      \/ \E c \in Calls : \/ Hold(c) \/ PostFails(c) \/ PostAnswered(c)
                          \/ Wake(c) \/ PollAnswered(c) \/ PollFails(c)
                          \/ GetApproval(c)
  BY DEF Next, vars, Sidecar, CreateApproval, AnswerCreate, Decide, ListPending,
         RegistryCrash, CrashInVerdict, Tick
<1> QED
  BY <1>3, <1>4, <1>5, <1>6, <1>7, <1>8, <1>9

-----------------------------------------------------------------------------
(* The rest of the variables *)

\* notifying, audit, posted, replies and now keep their types, and an answer is
\* put on its way for the call of its approval.
LEMMA OtherVariables ==
  ASSUME TypeOK, PollsItsOwn, RepliesMatch, [Next]_vars
  PROVE  /\ notifying' \subseteq Ids'
         /\ audit' \subseteq [id: Ids', action: {"requested"} \cup Verdicts]
         /\ posted' \subseteq Calls
         /\ replies' \subseteq [call: Calls, id: Ids']
         /\ \A r \in replies' : r.id \in Ids /\ approvals[r.id].call = r.call
         /\ now' \in 0..MaxTime /\ now <= now'
<1>1. Ids \subseteq Ids'
  BY TableSteps DEF TableStep
<1>2. notifying' \subseteq Ids'
  <2>1. ASSUME NEW c \in Calls, NEW id \in ApprovalIds, CreateApproval(c, id)
        PROVE  notifying' \subseteq notifying \cup Ids'
    <3>1. Ids' = Ids \cup {id} /\ notifying' = notifying \cup {id}
      BY <2>1 DEF CreateApproval, Ids
    <3> QED
      BY <3>1
  <2>2. notifying' \subseteq notifying \cup Ids'
    BY <2>1 DEF Next, vars, Hold, Sidecar, PostFails, PostAnswered, Wake,
       PollAnswered, PollFails, GetApproval, AnswerCreate, Decide, ListPending,
       RegistryCrash, CrashInVerdict, Tick
  <2> QED
    BY <1>1, <2>2 DEF TypeOK
<1>3. audit' \subseteq [id: Ids', action: {"requested"} \cup Verdicts]
  <2>1. audit' \subseteq audit \cup [id: Ids, action: {"requested"} \cup Verdicts]
    <3>1. ASSUME NEW id \in ApprovalIds, NEW v \in Verdicts, Decide(id, v)
          PROVE  audit' \subseteq
                    audit \cup [id: Ids, action: {"requested"} \cup Verdicts]
      BY <3>1 DEF Decide
    <3>2. ASSUME NEW id \in ApprovalIds, AnswerCreate(id)
          PROVE  audit' \subseteq
                    audit \cup [id: Ids, action: {"requested"} \cup Verdicts]
      BY <3>2 DEF AnswerCreate, TypeOK
    <3> QED
      BY <3>1, <3>2 DEF Next, vars, Hold, Sidecar, PostFails, PostAnswered,
         Wake, PollAnswered, PollFails, GetApproval, CreateApproval,
         ListPending, RegistryCrash, CrashInVerdict, Tick
  <2> QED
    BY <1>1, <2>1 DEF TypeOK
<1>4. posted' \subseteq Calls
  BY DEF TypeOK, Next, vars, Hold, Sidecar, PostFails, PostAnswered, Wake,
     PollAnswered, PollFails, GetApproval, CreateApproval, AnswerCreate, Decide,
     ListPending, RegistryCrash, CrashInVerdict, Tick
<1>5. /\ replies' \subseteq [call: Calls, id: Ids']
      /\ \A r \in replies' : r.id \in Ids /\ approvals[r.id].call = r.call
  <2>1. ASSUME NEW id \in ApprovalIds, AnswerCreate(id)
        PROVE  \A r \in replies' : /\ r \in [call: Calls, id: Ids]
                                   /\ approvals[r.id].call = r.call
    <3>1. id \in Ids /\ approvals[id].call \in Calls
      BY <2>1, Rows DEF AnswerCreate, TypeOK
    <3>2. replies' = replies \cup {[call |-> approvals[id].call, id |-> id]}
      BY <2>1 DEF AnswerCreate
    <3> QED
      BY <3>1, <3>2 DEF TypeOK, RepliesMatch
  <2>2. \/ replies' \subseteq replies
        \/ \E id \in ApprovalIds : AnswerCreate(id)
    BY DEF Next, vars, Hold, Sidecar, PostFails, PostAnswered, Wake,
       PollAnswered, PollFails, GetApproval, CreateApproval, Decide,
       ListPending, RegistryCrash, CrashInVerdict, Tick
  <2>3. \A r \in replies : /\ r \in [call: Calls, id: Ids]
                           /\ approvals[r.id].call = r.call
    BY DEF TypeOK, RepliesMatch
  <2>4. \A r \in replies' : /\ r \in [call: Calls, id: Ids]
                            /\ approvals[r.id].call = r.call
    BY <2>1, <2>2, <2>3
  <2> QED
    BY <1>1, <2>4
<1>6. now' \in 0..MaxTime /\ now <= now'
  <2>1. now' = now \/ Tick
    BY DEF Next, vars, Hold, Sidecar, PostFails, PostAnswered, Wake,
       PollAnswered, PollFails, GetApproval, CreateApproval, AnswerCreate,
       Decide, ListPending, RegistryCrash, CrashInVerdict
  <2> QED
    BY <2>1, ApprovalAssumption DEF TypeOK, Tick
<1> QED
  BY <1>2, <1>3, <1>4, <1>5, <1>6

-----------------------------------------------------------------------------
(* The invariant *)

\* At the start nothing is held and no approval exists.
LEMMA InitHolds ==
  ASSUME Init
  PROVE  ApprovalsInv
<1>1. Ids = {}
  BY DEF Init, Ids
<1>2. approvals \in [Ids -> Row]
  BY <1>1 DEF Init, Ids
<1>3. /\ call \in [Calls -> CallState]
      /\ \A c \in Calls : call[c].phase = "new"
  BY DEF Init, CallState
<1>4. TypeOK
  BY <1>1, <1>2, <1>3, ApprovalAssumption DEF Init, TypeOK
<1> QED
  BY <1>1, <1>3, <1>4 DEF Init, ApprovalsInv, ApprovalsSound,
     ForwardedWasApproved, VerdictsInTime, LoggedVerdictsHold, PollsItsOwn,
     RepliesMatch, HumansApprove, AnswersHold, RequestedByNow

\* The rows' part: what the table and the log say of each other.
LEMMA RowsKept ==
  ASSUME ApprovalsInv, [Next]_vars
  PROVE  /\ VerdictsInTime' /\ LoggedVerdictsHold'
         /\ HumansApprove' /\ RequestedByNow'
<1>1. TypeOK /\ PollsItsOwn /\ RepliesMatch
  BY DEF ApprovalsInv, ApprovalsSound
<1>2. TableStep
  BY <1>1, TableSteps
<1>3. now \in Nat /\ now' \in Nat /\ now <= now'
  BY <1>1, OtherVariables, ApprovalAssumption DEF TypeOK
<1>4. ASSUME NEW i \in Ids
      PROVE  /\ approvals'[i].status \in Verdicts =>
                   /\ approvals'[i].requested_at <= approvals'[i].decided_at
                   /\ approvals'[i].decided_at < approvals'[i].expires_at
             /\ \A v \in Verdicts : Logged(i, v)' => approvals'[i].status = v
             /\ approvals'[i].status = "approved" =>
                   approvals'[i].decided_by = "human"
             /\ approvals'[i].requested_at <= now'
  <2>1. /\ approvals[i].requested_at \in Nat /\ approvals[i].expires_at \in Nat
        /\ approvals[i].requested_at <= now
    BY <1>1, Rows DEF ApprovalsInv, RequestedByNow
  <2>2. \A v \in Verdicts : Logged(i, v) => approvals[i].status = v
    BY DEF ApprovalsInv, ApprovalsSound, LoggedVerdictsHold, Logged
  <2>3. RowStep(i)
    BY <1>1, RowSteps
  <2>4. CASE /\ approvals'[i] = approvals[i]
             /\ \A v \in Verdicts : Logged(i, v)' <=> Logged(i, v)
    BY <1>3, <2>1, <2>2, <2>4
       DEF ApprovalsInv, ApprovalsSound, VerdictsInTime, HumansApprove
  <2>5. CASE /\ approvals[i].status = "pending"
             /\ approvals'[i].status = "expired"
             /\ \A v \in Verdicts : Logged(i, v)' <=> Logged(i, v)
    <3>1. "expired" \notin Verdicts /\ "pending" \notin Verdicts
      BY DEF Verdicts
    <3>2. approvals'[i].requested_at <= now'
      BY <1>2, <1>3, <2>1 DEF TableStep
    <3> QED
      BY <2>2, <2>5, <3>1, <3>2
  <2>6. ASSUME NEW verdict \in Verdicts,
               approvals[i].status = "pending",
               now < approvals[i].expires_at,
               approvals'[i] = [call |-> approvals[i].call, status |-> verdict,
                                requested_at |-> approvals[i].requested_at,
                                expires_at |-> approvals[i].expires_at,
                                decided_at |-> now, decided_by |-> "human"],
               \A v \in Verdicts : Logged(i, v)' => v = verdict \/ Logged(i, v)
        PROVE  /\ approvals'[i].status \in Verdicts =>
                     /\ approvals'[i].requested_at <= approvals'[i].decided_at
                     /\ approvals'[i].decided_at < approvals'[i].expires_at
               /\ \A v \in Verdicts :
                     Logged(i, v)' => approvals'[i].status = v
               /\ approvals'[i].status = "approved" =>
                     approvals'[i].decided_by = "human"
               /\ approvals'[i].requested_at <= now'
    <3>1. "pending" \notin Verdicts
      BY DEF Verdicts
    <3>2. /\ approvals'[i].status = verdict
          /\ approvals'[i].requested_at = approvals[i].requested_at
          /\ approvals'[i].expires_at = approvals[i].expires_at
          /\ approvals'[i].decided_at = now
          /\ approvals'[i].decided_by = "human"
      BY <2>6
    <3> QED
      BY <1>3, <2>1, <2>2, <2>6, <3>1, <3>2
  <2> QED
    BY <2>3, <2>4, <2>5, <2>6 DEF RowStep
<1>5. ASSUME NEW i \in Ids' \ Ids
      PROVE  /\ approvals'[i].status = "pending"
             /\ \A v \in Verdicts : ~Logged(i, v)'
             /\ approvals'[i].requested_at <= now'
  <2>1. approvals'[i].requested_at <= now'
    BY <1>2, <1>3 DEF TableStep
  <2> QED
    BY <1>1, <1>2, <2>1, RowSteps DEF TableStep
<1>6. "pending" \notin Verdicts /\ Verdicts' = Verdicts
  BY DEF Verdicts
<1>7. VerdictsInTime'
  BY <1>4, <1>5, <1>6 DEF VerdictsInTime
<1>8. LoggedVerdictsHold'
  BY <1>4, <1>5, <1>6 DEF LoggedVerdictsHold, Logged
<1>9. HumansApprove' /\ RequestedByNow'
  BY <1>4, <1>5 DEF HumansApprove, RequestedByNow
<1> QED
  BY <1>7, <1>8, <1>9

\* The calls' part: each polls its own approval, and an approved answer is the
\* table's.
LEMMA CallsKept ==
  ASSUME ApprovalsInv, [Next]_vars
  PROVE  PollsItsOwn' /\ AnswersHold' /\ ForwardedWasApproved'
<1>1. TypeOK /\ PollsItsOwn /\ RepliesMatch
  BY DEF ApprovalsInv, ApprovalsSound
<1>2. TableStep
  BY <1>1, TableSteps
<1>3. \A i \in Ids : /\ i \in Ids'
                     /\ approvals'[i].call = approvals[i].call
                     /\ approvals[i].status = "approved" =>
                           approvals'[i] = approvals[i]
  BY <1>2 DEF TableStep
<1>4. ASSUME NEW c \in Calls
      PROVE  /\ call'[c].phase \in {"sleeping", "polling"} =>
                   call'[c].id \in Ids' /\ approvals'[call'[c].id].call = c
             /\ call'[c].phase = "polling" /\ call'[c].answer # Null
                   /\ call'[c].answer = "approved" =>
                   approvals'[call'[c].id].status = "approved"
             /\ call'[c].phase = "forwarded" =>
                   \E id \in Ids' : /\ approvals'[id].call = c
                                    /\ approvals'[id].status = "approved"
                                    /\ approvals'[id].decided_by = "human"
  <2>1. CallStep(c)
    BY <1>1, CallSteps
  <2>2. /\ call[c].phase \in {"sleeping", "polling"} =>
              call[c].id \in Ids /\ approvals[call[c].id].call = c
        /\ call[c].phase = "polling" /\ call[c].answer # Null
              /\ call[c].answer = "approved" =>
              approvals[call[c].id].status = "approved"
        /\ call[c].phase = "forwarded" =>
              \E id \in Ids : /\ approvals[id].call = c
                              /\ approvals[id].status = "approved"
                              /\ approvals[id].decided_by = "human"
    BY DEF ApprovalsInv, ApprovalsSound, PollsItsOwn, AnswersHold,
           ForwardedWasApproved
  <2>3. CASE call'[c] = call[c]
    BY <1>3, <2>2, <2>3
  <2>4. CASE call'[c].phase \in {"posting", "refused"}
    BY <2>4
  <2>5. CASE /\ call'[c].phase = "sleeping"
             /\ \E r \in replies : r.call = c /\ call'[c].id = r.id
    <3>1. PICK r \in replies : r.call = c /\ call'[c].id = r.id
      BY <2>5
    <3>2. r.id \in Ids /\ approvals[r.id].call = r.call
      BY <1>1 DEF TypeOK, RepliesMatch
    <3> QED
      BY <1>3, <2>5, <3>1, <3>2
  <2>6. CASE /\ call[c].phase = "sleeping" /\ call'[c].phase = "polling"
             /\ call'[c].id = call[c].id /\ call'[c].answer = Null
    BY <1>3, <2>2, <2>6
  <2>7. CASE /\ call[c].phase = "polling" /\ call'[c].phase = "sleeping"
             /\ call'[c].id = call[c].id
    BY <1>3, <2>2, <2>7
  <2>8. CASE /\ call[c].phase = "polling" /\ call'[c].phase = "forwarded"
             /\ call[c].answer # Null /\ call[c].answer = "approved"
    <3>1. /\ call[c].id \in Ids /\ approvals[call[c].id].call = c
          /\ approvals[call[c].id].status = "approved"
      BY <2>2, <2>8
    <3>2. approvals[call[c].id].decided_by = "human"
      BY <3>1 DEF ApprovalsInv, HumansApprove
    <3> QED
      BY <1>3, <2>8, <3>1, <3>2
  <2>9. CASE /\ call[c].phase = "polling" /\ call'[c].phase = "polling"
             /\ call'[c].id = call[c].id
             /\ call'[c].answer = approvals'[call[c].id].status
    BY <1>3, <2>2, <2>9
  <2> QED
    BY <2>1, <2>3, <2>4, <2>5, <2>6, <2>7, <2>8, <2>9 DEF CallStep
<1>5. PollsItsOwn'
  BY <1>4 DEF PollsItsOwn
<1>6. AnswersHold'
  BY <1>4 DEF AnswersHold
<1>7. ForwardedWasApproved'
  BY <1>4 DEF ForwardedWasApproved
<1> QED
  BY <1>5, <1>6, <1>7

\* Every step keeps the types.
LEMMA TypeKept ==
  ASSUME TypeOK, PollsItsOwn, RepliesMatch, [Next]_vars
  PROVE  TypeOK'
<1>1. /\ approvals' = [id \in Ids' |-> approvals'[id]]
      /\ \A id \in Ids' : approvals'[id] \in Row
      /\ Ids' \subseteq ApprovalIds
  BY TableSteps DEF TableStep
<1>2. approvals' \in [Ids' -> Row]
  BY <1>1
<1>3. Row' = Row /\ Verdicts' = Verdicts /\ CallState' = CallState
  BY DEF Row, Verdicts, CallState, Statuses
<1>4. call' \in [Calls -> CallState]
  BY CallSteps
<1> QED
  BY <1>1, <1>2, <1>3, <1>4, OtherVariables DEF TypeOK

\* Every step keeps the invariant.
LEMMA InvKept ==
  ASSUME ApprovalsInv, [Next]_vars
  PROVE  ApprovalsInv'
<1>1. TypeOK /\ PollsItsOwn /\ RepliesMatch
  BY DEF ApprovalsInv, ApprovalsSound
<1>2. RepliesMatch'
  <2>1. TableStep
    BY <1>1, TableSteps
  <2> QED
    BY <1>1, <2>1, OtherVariables DEF RepliesMatch, TableStep
<1> QED
  BY <1>1, <1>2, TypeKept, RowsKept, CallsKept DEF ApprovalsInv, ApprovalsSound

-----------------------------------------------------------------------------
(* The theorems *)

\* The invariant holds of the registry with its notification channels.
THEOREM ApprovalsInvariant == NotifierSpec => []ApprovalsInv
<1>1. NotifierInit => ApprovalsInv
  BY InitHolds DEF NotifierInit
<1>2. ApprovalsInv /\ [NotifierNext]_allVars => ApprovalsInv'
  BY NotifierSteps, InvKept DEF ApprovalsInv, ApprovalsSound
<1> QED
  BY <1>1, <1>2, PTL DEF NotifierSpec

\* Every variable always has its type.
THEOREM TypeCorrect == NotifierSpec => []TypeOK
<1>1. ApprovalsInv => TypeOK
  BY DEF ApprovalsInv, ApprovalsSound
<1> QED
  BY <1>1, ApprovalsInvariant, PTL

\* A held call is forwarded only on a human's approval of that very call, given
\* in time, and the log names no verdict but the table's, also if the registry
\* dies between the one and the other.
THEOREM ApprovalsAreSound == NotifierSpec => []ApprovalsSound
<1>1. ApprovalsInv => ApprovalsSound
  BY DEF ApprovalsInv
<1> QED
  BY <1>1, ApprovalsInvariant, PTL

\* A decided or expired approval never changes.
THEOREM DecisionsAreFinal == NotifierSpec => DecisionIsFinal
<1>1. ApprovalsInv /\ [NotifierNext]_allVars =>
         [\A id \in Ids : approvals[id].status # "pending"
                              => approvals'[id] = approvals[id]]_vars
  <2> SUFFICES ASSUME ApprovalsInv, [NotifierNext]_allVars
               PROVE  \A id \in Ids : approvals[id].status # "pending"
                                         => approvals'[id] = approvals[id]
    OBVIOUS
  <2>1. TypeOK /\ PollsItsOwn
    BY DEF ApprovalsInv, ApprovalsSound
  <2> QED
    BY <2>1, NotifierSteps, TableSteps DEF TableStep
<1> QED
  BY <1>1, ApprovalsInvariant, PTL DEF NotifierSpec, DecisionIsFinal

\* The registry that tells its channels one after the other, is clicked at and
\* restarted meanwhile, does nothing that Approvals does not allow.
THEOREM NotifierImplementsApprovals == NotifierSpec => Spec
<1>1. NotifierInit => Init
  BY DEF NotifierInit
<1>2. ApprovalsInv /\ [NotifierNext]_allVars => [Next]_vars
  BY NotifierSteps DEF ApprovalsInv, ApprovalsSound
<1> QED
  BY <1>1, <1>2, ApprovalsInvariant, PTL DEF NotifierSpec, Spec
=============================================================================
