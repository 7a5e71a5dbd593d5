--------------------------- MODULE RegistryReads ---------------------------
(***************************************************************************)
(* What the registry answers about its agents table: the chain routes, the *)
(* list, POST /api/explain and the compliance report.  Nothing is written. *)
(* Each answer walks the delegation tree in its own way (parents upwards,  *)
(* the recursive query downwards, a walk over a filtered list), over rows  *)
(* of every status.                                                        *)
(***************************************************************************)
EXTENDS RegistryProperties, Sequences

CONSTANT Star   \* the scope string "*", one of the Wildcards

ASSUME ReadsAssumption == Star \in Wildcards

UpwardClosed(S) ==
    \A b \in S : agents[b].parent_id \in Ids => agents[b].parent_id \in S

\* The rows that are found on the way up from a: the least set closed upwards.
Ancestry(a) ==
    LET closed == {S \in SUBSET Ids : a \in S /\ UpwardClosed(S)}
    IN  {b \in Ids : \A S \in closed : b \in S}

\* Each row in front is the parent of the one behind, whatever their status; the
\* last is a's.
LeadsTo(chain, a) ==
    /\ chain[Len(chain)] = a
    /\ \A i \in 1..(Len(chain) - 1) : chain[i] = agents[chain[i + 1]].parent_id

\* getDelegationChain
DelegationChain(a) ==
    LET above == Ancestry(a)
    IN  CHOOSE chain \in [1..Cardinality(above) -> above] : LeadsTo(chain, a)

Members(chain) == {chain[i] : i \in DOMAIN chain}

\* listAgents: a filter that is Null is not given
ListAgents(status, human, parent) ==
    {a \in Ids : /\ status # Null => agents[a].status = status
                 /\ human  # Null => agents[a].human = human
                 /\ parent # Null => agents[a].parent_id = parent}

\* GET /api/agents/:id and /chain
ChainAnswer(a) ==
    [chain |-> DelegationChain(a),
     depth |-> Len(DelegationChain(a)) - 1,
     root_human |-> agents[Head(DelegationChain(a))].human]

\* POST /api/explain: the row's scope decides, its status and expiry do not;
\* unlike /api/verify it takes "*" for every tool.
ExplainAllows(a, tool) == tool \in agents[a].scope \/ Star \in agents[a].scope

Explain(a, tool) ==
    [allowed |-> ExplainAllows(a, tool),
     human   |-> agents[a].human,
     depth   |-> agents[a].depth,
     chain   |-> DelegationChain(a)]

-----------------------------------------------------------------------------
(* GET /api/compliance/report.  A report is about the agents S it collects    *)
(* and the set of actions its period of the audit log shows.                  *)

Collected(human, ids) ==
    {a \in ListAgents(Null, Null, Null) :
        /\ human # Null => agents[a].human = human
        /\ ids # Null => a \in ids}

Unbound(S) == {a \in S : agents[a].human = Null}
Overdue(S) == {a \in S : agents[a].status = "active" /\ agents[a].expires_at < now}
Wildcarded(S) == {a \in S : agents[a].scope \cap Wildcards # {}}

Violations(S, logged) ==
    [severity: {"critical"}, category: {"Human Binding"}, agent: Unbound(S)]
    \cup [severity: {"high"}, category: {"Token Expiry"}, agent: Overdue(S)]
    \cup [severity: {"high"}, category: {"Scope"}, agent: Wildcarded(S)]
    \cup [severity: {"medium"}, category: {"Policy Violation"},
          agent: {a \in S : "tool_call_blocked" \in logged}]

\* variant: the walk goes on below active agents only
ActiveChainNodes(S, root) ==
    Subtree([a \in {b \in S : agents[b].status = "active"} |-> agents[a]], {root})

\* variant: the walk stops after the root's own delegates
ShallowChainNodes(S, root) ==
    {root} \cup {a \in S : agents[a].parent_id = root}

\* walk(root.id): down the rows of S only
ChainNodes(S, root) == Subtree([a \in S |-> agents[a]], {root})

NarrowingValid(S, nodes) ==
    \A a \in nodes : agents[a].parent_id \in S
                        => agents[a].scope \subseteq agents[agents[a].parent_id].scope

ChainAudit(S, root) ==
    LET nodes == ChainNodes(S, root)
    IN  [root |-> root, human |-> agents[root].human, nodes |-> nodes,
         narrowing |-> NarrowingValid(S, nodes),
         depthViolation |-> \E a \in nodes :
                                agents[a].depth > agents[root].max_depth]

DelegationChains(S) ==
    {ChainAudit(S, r) : r \in {a \in S : agents[a].parent_id = Null}}

ToolCalls == {"tool_call_allowed", "tool_call_blocked"}

\* Controls that fail.  CC7.2-2 and CC7.2-3 hold by construction, as do
\* Art.12-2, Art.12-3 and Art.14-3; the depthViolation of a chain enters none.
SOC2Failed(S, logged) ==
    {c \in {"CC6.1-1"} : Unbound(S) # {}}
    \cup {c \in {"CC6.1-2"} : Wildcarded(S) # {}}
    \cup {c \in {"CC6.1-3"} : Overdue(S) # {}}
    \cup {c \in {"CC7.2-1"} : logged \cap ToolCalls = {} /\ S # {}}

EUFailed(S, logged, chains) ==
    {c \in {"Art.12-1"} : logged = {} /\ S # {}}
    \cup {c \in {"Art.14-1"} : Unbound(S) # {}}
    \cup {c \in {"Art.14-2"} : \E h \in chains : ~h.narrowing}
    \cup {c \in {"Art.14-4"} : \E h \in chains : h.human = Null}

\* what the report asks for; advice on agents about to expire is left out
Recommendations(violations, failed) ==
    {v.category : v \in {w \in violations : w.severity \in {"critical", "high"}}}
    \cup failed
    \cup {m \in {"Maintain current compliance posture"} :
            violations = {} /\ failed = {}}

Posture(violations, failed) ==
    LET severe(s) == \E v \in violations : v.severity = s
    IN  IF severe("critical") \/ Cardinality(failed) >= 3
        THEN "NON-COMPLIANT"
        ELSE IF failed # {} \/ severe("high") THEN "PARTIAL" ELSE "COMPLIANT"

ComplianceReport(human, ids, logged) ==
    LET S == Collected(human, ids)
        chains == DelegationChains(S)
        violations == Violations(S, logged)
        failed == SOC2Failed(S, logged) \cup EUFailed(S, logged, chains)
    IN  [posture |-> Posture(violations, failed),
         chains |-> chains,
         recommendations |-> Recommendations(violations, failed)]

-----------------------------------------------------------------------------
(* What the answers promise *)

\* The tree is walked in three ways, and they agree whatever was revoked, had
\* expired or was inserted late: the chain that is shown for an agent starts
\* at a root of the same human, is as long as the agent is deep, and is the
\* only chain of the report (on everyone, or on that human) with the agent.
ChainsAgree ==
    \A h \in Humans \cup {Null} :
        LET S      == Collected(h, Null)
            audits == DelegationChains(S)
        IN  \A a \in S :
                LET answer == ChainAnswer(a)
                    root   == Head(answer.chain)
                IN  /\ agents[root].parent_id = Null
                    /\ answer.root_human = agents[a].human
                    /\ answer.depth = agents[a].depth
                    /\ {c.root : c \in {d \in audits : a \in d.nodes}} = {root}

\* A call that /api/verify lets through is one that every agent above the caller
\* may pass on, in the name of the same human and at the same risk, and before the
\* expiry of any of them, although the handler looks at the caller's row alone,
\* and although agents above may be revoked or deprovisioned by then.
VerifiedIsGranted ==
    \A t \in tokens, a \in Ids, tool \in Tools :
        (HoldsToken(t, a) /\ VerifyAllows(t, tool)) =>
            \A b \in Ancestry(a) \ {a} :
                /\ tool \in agents[b].can_delegate
                /\ agents[b].human = agents[a].human
                /\ agents[b].risk = agents[a].risk
                /\ now < agents[b].expires_at

\* What the log may show of a period: a period is any number of minutes, hours
\* or days.
PeriodLogs == {{"issued"}, {"issued"} \cup ToolCalls}

\* GET /api/compliance/report without a filter; the framework that is asked for
\* selects parts of the page, not of the rating.
ReportsOnEveryone == {ComplianceReport(Null, Null, logged) : logged \in PeriodLogs}

\* What an auditor may conclude from the rating COMPLIANT of a report on
\* everyone: a call that /api/verify lets through, and one that /api/explain
\* calls allowed, is allowed to every agent up the chain, deprovisioned and
\* expired ones included; and any other rating says what to do about it.
CompliantIsNarrow ==
    \A report \in ReportsOnEveryone :
        IF report.posture = "COMPLIANT"
        THEN \A a \in Ids :
                LET chain == Explain(a, Star).chain
                IN  \A tool \in Tools :
                        (\/ ExplainAllows(a, tool)
                         \/ \E t \in tokens : HoldsToken(t, a) /\ VerifyAllows(t, tool))
                        => \A b \in Members(chain) : ExplainAllows(b, tool)
        ELSE report.recommendations
                \ {"Maintain current compliance posture"} # {}
=============================================================================
