------------------------------ MODULE MCPolicy ------------------------------
(***************************************************************************)
(* Two policies whose rules make every kind of condition, with equal and   *)
(* with different priorities, and calls on either side of each condition.  *)
(***************************************************************************)
EXTENDS PolicyReload

Rule(match, action) == [match |-> match, action |-> action]
Ranked(match, action, priority) ==
    [match |-> match, action |-> action, priority |-> priority]

office == [before |-> 8, after |-> 18]
weekend == [days |-> {"sat", "sun"}]

MCPolicies == [
    strict |-> [default_action |-> "deny", rules |-> <<
        Rule([tool |-> {"read", "write"}], "allow"),
        Rule([tool |-> {"read"}, time_window |-> office], "require_approval"),
        Ranked([no_agent |-> TRUE], "deny", 5),
        Ranked([time_window |-> weekend, tool |-> {"write"}], "deny", 5),
        Ranked([delegation_depth |-> [gt |-> 0, lt |-> 3]], "log", 2)>>],
    lax |-> [default_action |-> "allow", rules |-> <<
        Ranked([arguments |-> [path |-> {"secret"}]], "deny", -1),
        Rule([human_email |-> {"alice"}, delegation_depth |-> [eq |-> 0]], "log"),
        Rule([agent_id |-> {"bot"}], "require_approval")>>]]

Agent(name, email, depth) == [agent |-> name, email |-> email, depth |-> depth]
At(day, minute) == [day |-> day, minute |-> minute]
Call(tool, claims, args, time) ==
    [tool |-> tool, claims |-> claims, args |-> args, time |-> time]

MCCalls == {
    Call("read", None, None, At("mon", 7)),
    Call("read", Agent("bot", "alice", 0), [path |-> "secret"], At("mon", 18)),
    Call("write", Agent("bot", "bob", 1), [path |-> "notes"], At("sat", 12)),
    Call("write", Agent("helper", "alice", 0), [path |-> "secret"], At("tue", 8)),
    Call("other", Agent("helper", "bob", 3), None, At("sun", 17))}
=============================================================================
