--------------------------- MODULE SidecarSession ---------------------------
(***************************************************************************)
(* A session of the stdio sidecar in either way of running it.  In enforce *)
(* mode lines are held (module Interceptor); in monitor and permissive     *)
(* mode they pass, and the decision on a call is only noted on its span,   *)
(* by when the token has been validated, under whatever request has the id *)
(* by then.  A signal stops the sidecar: it asks the server to exit and    *)
(* leaves after five seconds, whether the server did or not.               *)
(***************************************************************************)
EXTENDS Interceptor

VARIABLES
    mode,     \* "enforce", or "monitor" for the two modes that let all pass
    judging,  \* monitor: calls whose validation is under way
    noted,    \* monitor: on which span the decision on which call was noted
    stopping, \* "no"; "asked": the server was sent SIGTERM; "gave up"
    atExit    \* history: how many spans there were when the server exited

sessionVars == <<mode, judging, noted, stopping, atExit>>
allVars == <<vars, sessionVars>>

-----------------------------------------------------------------------------
(* Monitor and permissive mode *)

\* The callback throws before it notes anything; at a missing chain it throws
\* after.  Which rules evaluate looks at, and so its throw, is the same in all
\* modes.
ThrowsFirst(tool) == claims = "unreadable" \/ evaluate(tool) = "throws"

\* variant: the span that was started last
NotedOnNewest(l, table) ==
    IF ThrowsFirst(l.tool) \/ spans' = <<>> THEN noted
    ELSE noted \cup {[call |-> l.id, span |-> Len(spans')]}

\* span.setAttribute on what pendingSpans has for the id, if anything
Noted(l, table) ==
    IF ThrowsFirst(l.tool) \/ l.id \notin DOMAIN table THEN noted
    ELSE noted \cup {[call |-> l.id, span |-> table[l.id]]}

\* The line is forwarded and then looked at.  What is known of the token by now
\* is used before anything else happens.
Passthrough ==
    /\ mode = "monitor" /\ childUp /\ input # <<>>
    /\ input' = Tail(input)
    /\ LET l == Head(input)
       IN  /\ Push(l)
           /\ IF l.kind = "other" THEN UNCHANGED <<spans, pendingSpans>>
              ELSE /\ spans' = Started(l.id, "client")
                   /\ pendingSpans' = Track(l.id, NewSpan(spans'))
           /\ IF l.kind # "call" THEN UNCHANGED <<judging, noted>>
              ELSE IF claimsValidated
                   THEN noted' = Noted(l, pendingSpans') /\ UNCHANGED judging
                   ELSE judging' = judging \cup {l} /\ UNCHANGED noted
    /\ UNCHANGED <<sent, held, claims, claimsValidated, toClient, partial,
                   stage, mode, stopping, atExit>>

\* resolveEigentClaims(): each call that came before the first answer validates
\* the token for itself.
Judged(l) ==
    /\ running
    /\ l \in judging
    /\ judging' = judging \ {l}
    /\ claimsValidated' = (claims # "unreadable")
    /\ UNCHANGED <<input, sent, held, claims, toServer, owed, toClient, partial,
                   pendingSpans, spans, stage, mode, stopping, atExit>>
    /\ noted' = Noted(l, pendingSpans)

-----------------------------------------------------------------------------
(* The end *)

\* handleSignal runs stop() once, for whichever signal comes first.
Signalled == childUp /\ stopping = "no"

\* SIGINT or SIGTERM: the reaper's timer is cleared, the server sent SIGTERM.
Stop ==
    /\ Signalled
    /\ stopping' = "asked"
    /\ UNCHANGED <<vars, mode, judging, noted, atExit>>

\* Five seconds later.  child.killed says that a signal was sent, so SIGKILL
\* never is: the sidecar exits with its spans as they are.
GiveUp ==
    /\ childUp /\ stopping = "asked"
    /\ stopping' = "gave up"
    /\ stage' = "over"
    /\ UNCHANGED <<input, sent, held, claims, claimsValidated, toServer, owed,
                   toClient, partial, pendingSpans, spans, mode, judging, noted,
                   atExit>>

-----------------------------------------------------------------------------
Modes == {"enforce", "monitor"}

SessionInit ==
    /\ Init
    /\ mode \in Modes
    /\ judging = {} /\ noted = {} /\ stopping = "no" /\ atExit = 0

Enforce == mode = "enforce" /\ Sidecar /\ UNCHANGED sessionVars
Reaper(id) == stopping = "no" /\ Reap(id) /\ UNCHANGED sessionVars
Exit ==
    /\ ChildExit
    /\ atExit' = Len(spans)
    /\ UNCHANGED <<mode, judging, noted, stopping>>

\* Where a line is cut matters only if the sidecar writes to the client, too.
Chunk ==
    /\ mode = "enforce"
    /\ ServerTail \/ \E m \in ServerLines : ServerHead(m)
    /\ UNCHANGED sessionVars

SessionNext ==
    \/ \E l \in Lines : ClientSends(l) /\ UNCHANGED sessionVars
    \/ Enforce
    \/ Passthrough
    \/ \E l \in judging : Judged(l)
    \/ \E m \in ServerLines : ServerLine(m) /\ UNCHANGED sessionVars
    \/ Chunk
    \/ \E id \in DOMAIN pendingSpans : Reaper(id)
    \/ Stop \/ GiveUp \/ Exit
    \/ Leave /\ UNCHANGED sessionVars

\* Validation and approval polling answer in the end: the one by its timeouts,
\* the other by HeldCallsEnd of module Approvals.  The timers fire, the reaper's
\* and the one of stop().  Nothing is assumed once the server has exited.
SessionSpec ==
    /\ SessionInit /\ [][SessionNext]_allVars
    /\ WF_allVars(childUp /\ (Enforce \/ Passthrough))
    /\ \A id \in 1..MaxSent \cup ServerIds : WF_allVars(Reaper(id))
    /\ WF_allVars(GiveUp)

-----------------------------------------------------------------------------
(* Properties *)

\* However late the validation is, the decision on a call is noted on a span
\* that is still open: that of the call, or, once it was answered, reaped or
\* displaced, that of a later request of the server with the same id.
NotesFit ==
    [][\A n \in noted' \ noted :
          /\ spans'[n.span].id = n.call
          /\ spans'[n.span].end = "open"
          /\ spans'[n.span].from = "server" =>
                \E s \in 1..n.span - 1 :
                    spans'[s].id = n.call /\ spans'[s].from = "client"]_allVars

\* Of the spans that are open when the server exits only that of a held call may
\* be lost; of those that start later, for what it wrote before or for a decision
\* that was awaited, any; and all of them when the sidecar gives up waiting.
Abandoned(s) ==
    /\ ~childUp
    /\ \/ stopping = "gave up"
       \/ s > atExit
       \/ held.phase = "approval" /\ held.span = s

\* A span ends, by its response, the reaper, a decision or the server's exit,
\* unless it was displaced or abandoned, although stop() clears the reaper.
SpansEnd ==
    \A s \in 1..(2 * MaxSent + 1) :
        (s \in DOMAIN spans)
            ~> (s \in DOMAIN spans /\ (\/ spans[s].end # "open"
                                       \/ Displaced(s) \/ Abandoned(s)))

\* The sidecar implements MessageFilter: what scope and policy say of a call of
\* the tool, written down without the code's order of evaluation, in enforce
\* mode; "pass" for every line in the others.  Enforce mode is open to whoever
\* has a token at which the callback throws.
DeniedWith(c, tool) ==
    \/ c = "valid" /\ tool \notin Scope
    \/ c = "none" /\ Policy[tool] \in {"allow", "log"}
    \/ Policy[tool] = "deny"

Enforced(m, c) == m = "enforce" /\ c \in {"valid", "none"}

RulingWith(m, c) ==
    [l \in Lines |->
        IF ~Enforced(m, c) \/ l.kind # "call" THEN {"pass"}
        ELSE IF DeniedWith(c, l.tool) THEN {"refuse"}
        ELSE IF Policy[l.tool] = "require_approval" THEN {"pass", "refuse"}
        ELSE {"pass"}]

IsDenial(i) == toClient[i].msg.kind = "denial"

Filter == INSTANCE MessageFilter WITH
    Rulings   <- {RulingWith(m, c) : m \in Modes, c \in Tokens},
    ruling    <- RulingWith(mode, claims),
    waiting   <- IF held = Idle THEN input ELSE <<held.line>> \o input,
    delivered <- toServer,
    refused   <- {toClient[i].msg.line : i \in {j \in DOMAIN toClient : IsDenial(j)}},
    open      <- childUp

\* Lines reach the server in the order the client sent them; each is forwarded
\* or refused, never both, as mode, scope, policy and approval decide, where the
\* claims can be read, and no line is held for ever.
ImplementsFilter == Filter!FairSpec
=============================================================================
