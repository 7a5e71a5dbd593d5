---------------------------- MODULE PolicyEngine ----------------------------
(***************************************************************************)
(* PolicyEvaluator: the rules of a policy, sorted by priority, and the     *)
(* first that matches a call.  A pattern is the set of names it matches;   *)
(* a condition that a rule does not make is not a field of its match, and  *)
(* no_agent stands for an agent_id of null.                                *)
(***************************************************************************)
EXTENDS Integers, Sequences, FiniteSets, SequencesExt

\* No claims, no arguments, no ruling
None == [none |-> TRUE]

Priority(rule) == IF "priority" \in DOMAIN rule THEN rule.priority ELSE 0

\* variant: among equals the last comes first
LastFirst(rules, i, j) ==
    \/ Priority(rules[i]) > Priority(rules[j])
    \/ Priority(rules[i]) = Priority(rules[j]) /\ i > j

\* Priorities descend; Array.sort is stable.
Before(rules, i, j) ==
    \/ Priority(rules[i]) > Priority(rules[j])
    \/ Priority(rules[i]) = Priority(rules[j]) /\ i < j

\* The place of a rule is the number of those that come before it.
RulesBefore(rules, i) == {j \in DOMAIN rules : Before(rules, j, i)}

SortedRules(rules) ==
    [place \in DOMAIN rules |->
        CHOOSE i \in DOMAIN rules : Cardinality(RulesBefore(rules, i)) = place - 1]

-----------------------------------------------------------------------------
(* ruleMatches: one operator for each condition *)

AgentMatches(pattern, claims) == claims # None /\ claims.agent \in pattern

EmailMatches(pattern, claims) == claims # None /\ claims.email \in pattern

DepthMatches(bounds, claims) ==
    /\ claims # None
    /\ "gt" \in DOMAIN bounds => claims.depth > bounds.gt
    /\ "lt" \in DOMAIN bounds => claims.depth < bounds.lt
    /\ "eq" \in DOMAIN bounds => claims.depth = bounds.eq

\* Both bounds name what lies outside office hours; "after" includes its minute.
TimeWindowMatches(window, time) ==
    /\ "days" \in DOMAIN window => time.day \in window.days
    /\ LET early == "before" \in DOMAIN window /\ time.minute < window.before
           late  == "after" \in DOMAIN window /\ time.minute >= window.after
       IN  {"after", "before"} \cap DOMAIN window # {} => early \/ late

ArgumentsMatch(patterns, args) ==
    /\ args # None
    /\ \A key \in DOMAIN patterns : key \in DOMAIN args /\ args[key] \in patterns[key]

RuleMatches(rule, call) ==
    LET m == rule.match IN
    /\ "tool" \in DOMAIN m => call.tool \in m.tool
    /\ "agent_id" \in DOMAIN m => AgentMatches(m.agent_id, call.claims)
    /\ "no_agent" \in DOMAIN m => call.claims = None
    /\ "human_email" \in DOMAIN m => EmailMatches(m.human_email, call.claims)
    /\ "delegation_depth" \in DOMAIN m => DepthMatches(m.delegation_depth, call.claims)
    /\ "time_window" \in DOMAIN m => TimeWindowMatches(m.time_window, call.time)
    /\ "arguments" \in DOMAIN m => ArgumentsMatch(m.arguments, call.args)

\* evaluate: the action and the rule it comes from, 0 for the default
Evaluate(config, call) ==
    LET order == SortedRules(config.rules)
        first == SelectInSeq(order, LAMBDA i : RuleMatches(config.rules[i], call))
    IN  IF first = 0 THEN [action |-> config.default_action, rule |-> 0]
        ELSE [action |-> config.rules[order[first]].action, rule |-> order[first]]

-----------------------------------------------------------------------------
(* What a policy says, without an order of evaluation *)

Outranks(rules, i, j) ==
    \/ Priority(rules[i]) > Priority(rules[j])
    \/ Priority(rules[i]) = Priority(rules[j]) /\ i <= j

PolicyRuling(config, call) ==
    LET rules   == config.rules
        matches == {i \in DOMAIN rules : RuleMatches(rules[i], call)}
    IN  IF matches = {} THEN [action |-> config.default_action, rule |-> 0]
        ELSE LET best == CHOOSE i \in matches : \A j \in matches : Outranks(rules, i, j)
             IN  [action |-> rules[best].action, rule |-> best]
=============================================================================
