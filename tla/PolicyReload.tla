---------------------------- MODULE PolicyReload ----------------------------
(***************************************************************************)
(* The sidecar's policy while it runs: a file that an editor writes in     *)
(* several steps, a watcher whose events restart a timer, a load that may  *)
(* fail, and calls that are judged by the policy in force and logged.      *)
(***************************************************************************)
EXTENDS PolicyEngine, DecisionLog

CONSTANTS
    Policies,   \* name -> configuration, the valid contents of the file
    Calls,      \* calls that may come
    MaxEdits    \* bound: writes to the file

NoPolicy == "none"

\* "invalid" stands for whatever loadPolicy throws at, a missing file included.
Contents == DOMAIN Policies \cup {"invalid"}

\* What policyConfigSchema lets through: a list of rules, and numbers for priorities
IsPolicy(config) ==
    /\ config.rules \in Seq(Range(config.rules))
    /\ \A i \in DOMAIN config.rules : Priority(config.rules[i]) \in Int

ASSUME PolicyReloadAssumption ==
    /\ MaxEdits \in Nat
    /\ DOMAIN Policies \cap {"invalid", NoPolicy} = {}
    /\ \A p \in DOMAIN Policies : IsPolicy(Policies[p])

VARIABLES
    file,       \* its content
    edits,      \* how often it was written
    events,     \* writes the watcher has not told of
    watch,      \* the watcher: not there "yet", "on", or "off" as watch threw
    timer,      \* the debounce timer runs
    evaluator,  \* the policy in force, if one was ever loaded
    seen,       \* history: what loads have found since the start
    missed      \* history: the last write since the start was not watched

watchVars == <<file, edits, events, watch, timer, evaluator, seen, missed>>
policyVars == <<watchVars, logVars>>

\* The editor: truncates, writes a part, writes the rest
Edit(content) ==
    /\ edits < MaxEdits
    /\ file' = content
    /\ edits' = edits + 1
    /\ events' = IF watch = "on" THEN events + 1 ELSE events
    /\ missed' = (watch # "on")
    /\ UNCHANGED <<watch, timer, evaluator, seen, logVars>>

\* The watcher tells of the writes; the timer starts anew.
Notice ==
    /\ events > 0
    /\ events' = 0
    /\ timer' = TRUE
    /\ UNCHANGED <<file, edits, watch, evaluator, seen, missed, logVars>>

\* variant: the first policy stays in force
updateOnce(content) == IF evaluator = NoPolicy /\ content # "invalid"
                       THEN content ELSE evaluator

\* A file that does not load leaves the policy in force.
updatePolicy(content) == IF content = "invalid" THEN evaluator ELSE content

\* A hundred milliseconds without an event: loadPolicy, and the callback.
Reload ==
    /\ timer
    /\ timer' = FALSE
    /\ evaluator' = updatePolicy(file)
    /\ seen' = seen \cup {file}
    /\ UNCHANGED <<file, edits, events, watch, missed, logVars>>

\* What PolicyEnforcer makes of a call, by the evaluator as it is
RulingOn(call) == IF evaluator = NoPolicy THEN None
                  ELSE Evaluate(Policies[evaluator], call)

\* A call is judged, and the decision is logged.
JudgeCall ==
    /\ watch # "yet"
    /\ LogDecision
    /\ UNCHANGED watchVars

\* The constructor first loads the file ...
LoadedFirst == IF file = "invalid" THEN NoPolicy ELSE file

PolicyInit ==
    /\ file \in Contents /\ edits = 0 /\ events = 0
    /\ watch = "yet"
    /\ timer = FALSE
    /\ evaluator = LoadedFirst
    /\ seen = {file}
    /\ missed = FALSE
    /\ LogInit

SidecarRestarts ==
    /\ events' = 0 /\ timer' = FALSE
    /\ watch' = "yet"
    /\ evaluator' = LoadedFirst
    /\ seen' = {file}
    /\ missed' = FALSE
    /\ LogRestarts
    /\ UNCHANGED <<file, edits>>

\* ... and then starts to watch it: a write in between is not told of.  A file
\* that is "invalid" because it is missing cannot be watched.
StartWatching ==
    /\ watch = "yet"
    /\ watch' \in {"on"} \cup (IF file = "invalid" THEN {"off"} ELSE {})
    /\ UNCHANGED <<file, edits, events, timer, evaluator, seen, missed, logVars>>

PolicyNext ==
    \/ \E content \in Contents : Edit(content)
    \/ Notice \/ Reload
    \/ JudgeCall
    \/ SidecarRestarts
    \/ StartWatching

PolicySpec == PolicyInit /\ [][PolicyNext]_policyVars

\* The file system tells of every write, and timers fire.
FairPolicySpec == PolicySpec /\ WF_policyVars(Notice) /\ WF_policyVars(Reload)

-----------------------------------------------------------------------------
(* Properties *)

\* Any call that comes is judged as the policy in force says, whatever the order
\* of its rules in the file; that policy is one that was loaded since the last
\* start, and once there was one there is one, however badly the file is edited.
RulingsFollowPolicy ==
    /\ evaluator \in (seen \ {"invalid"}) \cup {NoPolicy}
    /\ evaluator = NoPolicy => seen = {"invalid"}
    /\ evaluator # NoPolicy =>
          \A call \in Calls : RulingOn(call) = PolicyRuling(Policies[evaluator], call)

\* The last write counts, whatever was written and loaded before it and however
\* often the timer was set anew: a file that is valid and no longer written to
\* comes into force.  Not so if that write fell between the load and the watch of
\* a starting sidecar, or if there is no watcher; a restart then makes up for it.
LastEditWins ==
    \A p \in DOMAIN Policies :
        (file = p /\ edits = MaxEdits /\ ~missed) ~> (evaluator = p)
=============================================================================
