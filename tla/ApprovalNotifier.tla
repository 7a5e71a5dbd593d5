-------------------------- MODULE ApprovalNotifier --------------------------
(***************************************************************************)
(* What the registry does between the insertion of an approval and the     *)
(* answer to the sidecar: it tells each configured channel in turn and     *)
(* waits for it, up to ten seconds, whether the one before failed or not.  *)
(* A Slack message carries two buttons with the approval's id; the click   *)
(* comes back by /slack-action, the link of a webhook by /approve or       *)
(* /deny, at any time: the registry may still be waiting for a channel, or *)
(* may have been restarted.                                                *)
(***************************************************************************)
EXTENDS Approvals, Sequences

CONSTANT Channels   \* the channels configured in the environment, in order

ASSUME NotifierAssumption == Channels \in Seq({"webhook", "slack"})

VARIABLE toTell  \* id -> channels that sendApprovalNotification has yet to try

allVars == <<vars, toTell>>

-----------------------------------------------------------------------------
\* Both messages offer both verdicts on the approval of their id: two links to
\* post to, or two buttons that carry the id.
buildWebhookPayload(id) == {[approval |-> id, verdict |-> v] : v \in Verdicts}

buildSlackBlockKit(id) ==
    {[value |-> id, action_id |-> a] : a \in {"approve_action", "deny_action"}}

\* The id in the URL, the same for every click, is ignored.
parseSlackAction(click) ==
    [approval |-> click.value,
     verdict |-> IF click.action_id = "approve_action"
                 THEN "approved" ELSE "denied"]

\* POST /api/v1/approvals, up to the first await
Request(c, id) ==
    /\ CreateApproval(c, id)
    /\ toTell' = [i \in DOMAIN toTell \cup {id} |->
                     IF i = id THEN Channels ELSE toTell[i]]

\* sendApprovalNotification: a channel answers, fails or is given up after ten
\* seconds; in any case the message may have arrived, and the next one follows.
Tell(id, channel) ==
    /\ id \in notifying
    /\ toTell[id] # <<>>
    /\ channel = Head(toTell[id])
    /\ toTell' = [toTell EXCEPT ![id] = Tail(@)]
    /\ UNCHANGED vars

\* The rest of the handler, once every channel was tried.
AnswerRequest(id) ==
    /\ AnswerCreate(id)
    /\ toTell[id] = <<>>
    /\ UNCHANGED toTell

\* Approvals that a channel was tried for or is awaited for: its message may
\* have arrived.
Told(channel) ==
    {id \in Ids : \A k \in DOMAIN toTell[id] : toTell[id][k] = channel => k = 1}

\* POST /api/v1/approvals/:id/slack-action
Clicked ==
    /\ \E id \in Told("slack") : \E click \in buildSlackBlockKit(id) :
          LET d == parseSlackAction(click) IN Decide(d.approval, d.verdict)
    /\ UNCHANGED toTell

\* POST /api/v1/approvals/:id/approve and /deny, by a reader of the webhook's
\* message or of the list of pending approvals, which shows every id.
Follows ==
    /\ \E id \in Ids : \E link \in buildWebhookPayload(id) :
          Decide(link.approval, link.verdict)
    /\ UNCHANGED toTell

\* What was not sent by now never is.
Restart ==
    /\ \/ RegistryCrash
       \/ \E id \in ApprovalIds, v \in Verdicts : CrashInVerdict(id, v)
    /\ UNCHANGED toTell

-----------------------------------------------------------------------------
NotifierInit ==
    /\ Init
    /\ toTell = [id \in {} |-> <<>>]

SidecarSteps(c) == (Hold(c) \/ Sidecar(c)) /\ UNCHANGED toTell
Served(c) == GetApproval(c) /\ UNCHANGED toTell
Others == (ListPending \/ Tick) /\ UNCHANGED toTell

NotifierNext ==
    \/ \E c \in Calls :
          \/ SidecarSteps(c) \/ Served(c)
          \/ \E id \in ApprovalIds : Request(c, id)
    \/ \E id \in ApprovalIds :
          \/ AnswerRequest(id)
          \/ \E channel \in {"webhook", "slack"} : Tell(id, channel)
    \/ Clicked \/ Follows
    \/ Restart
    \/ Others

\* Time passes and the sidecar's timers fire; nothing is assumed of the
\* registry, the channels or the human.
NotifierSpec ==
    /\ NotifierInit /\ [][NotifierNext]_allVars
    /\ WF_allVars(Tick /\ UNCHANGED toTell)
    /\ \A c \in Calls : WF_allVars(Sidecar(c) /\ UNCHANGED toTell)

=============================================================================
