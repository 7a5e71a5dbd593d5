------------------------------ MODULE Lifecycle ------------------------------
(***************************************************************************)
(* Heartbeats and the staleness job, beside the registry whose agents they *)
(* are about.  The job reports to a webhook: it is started by a timer that *)
(* does not wait for the answer to the report before, so reports overlap,  *)
(* fail unnoticed and arrive in any order.                                 *)
(***************************************************************************)
EXTENDS RegistryReads

CONSTANTS
    StaleAfter,  \* stalenessThresholdMinutes
    MaxSending   \* bound: reports on their way at once

ASSUME LifecycleAssumption == StaleAfter \in Nat /\ MaxSending \in Nat

VARIABLES
    lastSeen,  \* column last_seen_at, for the ids inserted so far
    sending    \* reports that have yet to arrive

lifecycleVars == <<lastSeen, sending>>
allVars == <<vars, lifecycleVars>>

\* known is history: the ids of the table when the report was made.
Report == [at: Nat, agents: SUBSET AgentIds, known: SUBSET AgentIds]

-----------------------------------------------------------------------------
recordHeartbeat(a) == [lastSeen EXCEPT ![a] = now]

\* POST /api/agents/:id/heartbeat: from agents of any status
Heartbeat(a) ==
    /\ a \in Ids
    /\ lastSeen' = recordHeartbeat(a)
    /\ UNCHANGED <<vars, sending>>

\* variant: an agent that never was seen is not silent
StaleOnceSeen(a, threshold) ==
    lastSeen[a] # Null /\ lastSeen[a] + threshold <= now

\* last_seen_at IS NULL OR last_seen_at <= now - threshold
Silent(a, threshold) ==
    lastSeen[a] = Null \/ lastSeen[a] + threshold <= now

findStaleAgents(threshold) == {a \in ActiveIds : Silent(a, threshold)}

\* The timer of startBackgroundJobs, up to the fetch of notifyStaleWebhook
StalenessJob ==
    /\ Cardinality(sending) < MaxSending
    /\ findStaleAgents(StaleAfter) # {}
    /\ sending' = sending \cup
          {[at |-> now, agents |-> findStaleAgents(StaleAfter), known |-> Ids]}
    /\ UNCHANGED <<vars, lastSeen>>

\* The receiver reads the report, or the fetch fails: neither changes anything
\* here.
ReportEnds(r) ==
    /\ sending' = sending \ {r}
    /\ UNCHANGED <<vars, lastSeen>>

-----------------------------------------------------------------------------
\* main(): the database is there, the jobs are started, then requests served.
LifecycleInit ==
    /\ Init
    /\ lastSeen = [a \in {} |-> Null]
    /\ sending = {}

\* A row is inserted with last_seen_at NULL; nothing else writes the column.  A
\* report that is on its way may arrive even if its sender crashed.
RegistryStep ==
    /\ Next
    /\ lastSeen' = [a \in Ids' |-> IF a \in Ids THEN lastSeen[a] ELSE Null]
    /\ UNCHANGED sending

LifecycleNext ==
    \/ RegistryStep
    \/ \E a \in AgentIds : Heartbeat(a)
    \/ StalenessJob
    \/ \E r \in sending : ReportEnds(r)

\* Time passes, and setInterval keeps running the expiry job, also while
\* reports are on their way.
LifecycleSpec ==
    /\ LifecycleInit /\ [][LifecycleNext]_allVars
    /\ WF_allVars(Tick /\ UNCHANGED lifecycleVars)
    /\ WF_allVars(AutoExpiry /\ UNCHANGED lifecycleVars)

-----------------------------------------------------------------------------
\* However late and in whatever order reports arrive: an agent that a report
\* names had been silent for StaleAfter when it was made, or had never been
\* seen, and an active agent that is silent since then is named.
ReportsTrue ==
    \A r \in sending :
        /\ \A a \in r.agents : \/ lastSeen[a] = Null
                               \/ lastSeen[a] + StaleAfter <= r.at
                               \/ lastSeen[a] >= r.at
        /\ \A a \in r.known \cap ActiveIds :
              (lastSeen[a] = Null \/ lastSeen[a] + StaleAfter <= r.at)
                  => a \in r.agents
=============================================================================
