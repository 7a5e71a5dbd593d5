----------------------------- MODULE Interceptor -----------------------------
(***************************************************************************)
(* The stdio sidecar in enforce mode, between an MCP client and the MCP    *)
(* server it spawned.  Lines from the client are held one at a time until  *)
(* handleClientMessageHold has decided on them; lines from the server pass *)
(* through in chunks that may cut a line in two.  A refusal is written to  *)
(* the client's stream directly.  Every request has a span, found again by *)
(* its JSON-RPC id; client and server count their ids independently.       *)
(***************************************************************************)
EXTENDS Integers, Sequences

CONSTANTS
    Tools,      \* names of tools
    Scope,      \* those in the token's scope
    Policy,     \* tool -> action of the first rule that matches, or the default
    Tokens,     \* what validation can make of the token: "valid"; "none", also
                \* if it is refused; "chainless", which is accepted without a
                \* delegation chain; or "unreadable", at which validation throws
    MaxSent,    \* bound: lines the client sends
    ServerIds,  \* ids of the requests the server sends, one each
    Null        \* no tool

\* "throws": the pattern of a rule is no regular expression.
PolicyActions == {"allow", "deny", "log", "require_approval", "throws"}

ASSUME InterceptorAssumption ==
    /\ Scope \subseteq Tools
    /\ Policy \in [Tools -> PolicyActions]
    /\ Tokens \subseteq {"valid", "none", "chainless", "unreadable"}
    /\ MaxSent \in Nat
    /\ ServerIds \subseteq Nat
    /\ Null \notin Tools

VARIABLES
    input,         \* lines in the sidecar's stdin
    sent,          \* how many lines the client has sent
    held,          \* the line that handleClientMessageHold awaits for, if any
    claims,        \* what validation makes of the token
    claimsValidated,  \* it was asked, and answered
    toServer,      \* lines written to the server's stdin
    owed,          \* ids of client requests the server has not answered
    toClient,      \* pieces of lines written to the client, in order
    partial,       \* the server's line of which only the head has arrived
    pendingSpans,  \* id -> span, as an index of spans
    spans,         \* every span that was started
    stage          \* the server is "up", or has exited and the sidecar is
                   \* "draining" what it wrote, or the sidecar is "over"

vars == <<input, sent, held, claims, claimsValidated, toServer, owed,
          toClient, partial, pendingSpans, spans, stage>>

\* The server runs.
childUp == stage = "up"

\* The sidecar runs.
running == stage # "over"

Idle == [phase |-> "idle"]

\* The client numbers its lines; a request's number is its id.  "other" stands
\* for notifications, responses and lines that are not JSON-RPC.
LinesNumbered(n) ==
    [id: {n}, kind: {"call"}, tool: Tools]
    \cup [id: {n}, kind: {"request", "other"}, tool: {Null}]
Lines == UNION {LinesNumbered(n) : n \in 1..MaxSent}

Denial(l) == [kind |-> "denial", line |-> l]
Response(id) == [kind |-> "response", id |-> id]
ServerRequest(id) == [kind |-> "request", id |-> id]

-----------------------------------------------------------------------------
(* PolicyEnforcer.evaluate in enforce mode, for tools/call *)

HasClaims == claims \in {"valid", "chainless"}

Base(tool) == IF HasClaims /\ tool \in Scope THEN "allow" ELSE "deny"

\* variant: a rule that logs also lets pass
MergeLogAllows(base, action) ==
    CASE action = "log"   -> "allow"
      [] action = "allow" -> base
      [] OTHER            -> action

mergeWithPolicy(base, action) ==
    IF action \in {"log", "allow"} THEN base ELSE action

evaluate(tool) ==
    IF HasClaims /\ tool \notin Scope
    THEN "deny"
    ELSE mergeWithPolicy(Base(tool), Policy[tool])

-----------------------------------------------------------------------------
(* Spans *)

Started(id, from) == Append(spans, [id |-> id, from |-> from, end |-> "open"])

NewSpan(list) == Len(list)

EndSpan(list, s, how) == [list EXCEPT ![s].end = how]

\* Map.set and Map.delete
Track(id, s) ==
    [i \in DOMAIN pendingSpans \cup {id} |-> IF i = id THEN s ELSE pendingSpans[i]]
Untrack(id) == [i \in DOMAIN pendingSpans \ {id} |-> pendingSpans[i]]

-----------------------------------------------------------------------------
(* Client to server *)

ClientSends(l) ==
    /\ childUp
    /\ l.id = sent + 1
    /\ sent' = l.id
    /\ input' = Append(input, l)
    /\ UNCHANGED <<held, claims, claimsValidated, toServer, owed, toClient,
                   partial, pendingSpans, spans, stage>>

\* push(line): the line reaches the server, which owes an answer to a request,
\* or nobody once the server has exited.
Push(l) ==
    IF childUp
    THEN /\ toServer' = Append(toServer, l)
         /\ owed' = IF l.kind = "other" THEN owed ELSE owed \cup {l.id}
    ELSE UNCHANGED <<toServer, owed>>

\* "allow" with a span that the response will end
ForwardTracked(l) ==
    /\ spans' = Started(l.id, "client")
    /\ pendingSpans' = Track(l.id, NewSpan(spans'))
    /\ Push(l)
    /\ held' = Idle
    /\ UNCHANGED toClient

\* Not a request, or the callback threw: the line passes without a span.
ForwardUntracked(l) ==
    /\ Push(l)
    /\ held' = Idle
    /\ UNCHANGED <<toClient, spans, pendingSpans>>

\* process.stdout.write(errorResponse), and the line is dropped
WriteDenial(l) ==
    /\ toClient' = Append(toClient, [piece |-> "whole", msg |-> Denial(l)])
    /\ held' = Idle
    /\ UNCHANGED <<toServer, owed, pendingSpans>>

Refuse(l) ==
    /\ spans' = EndSpan(Started(l.id, "client"), Len(spans) + 1, "denied")
    /\ WriteDenial(l)

AskForApproval(l) ==
    /\ spans' = Started(l.id, "client")
    /\ held' = [phase |-> "approval", line |-> l, span |-> NewSpan(spans')]
    /\ UNCHANGED <<toServer, owed, toClient, pendingSpans>>

\* The callback throws: validate at a payload that is null, evaluate at the
\* pattern of a rule, claims.delegation.chain.join where there is no chain,
\* whatever was decided by then.
Throws(tool) ==
    claims \in {"unreadable", "chainless"} \/ evaluate(tool) = "throws"

\* handleClientMessageHold, once validation has answered or thrown
Judge(l) ==
    \/ Throws(l.tool) /\ ForwardUntracked(l)
    \/ /\ ~Throws(l.tool)
       /\ \/ evaluate(l.tool) = "allow" /\ ForwardTracked(l)
          \/ evaluate(l.tool) = "deny" /\ Refuse(l)
          \/ evaluate(l.tool) = "require_approval" /\ AskForApproval(l)

Handle(l) ==
    \/ /\ l.kind = "other"
       /\ ForwardUntracked(l)
    \/ /\ l.kind = "request"
       /\ ForwardTracked(l)
    \/ /\ l.kind = "call" /\ claimsValidated
       /\ Judge(l)
    \/ /\ l.kind = "call" /\ ~claimsValidated
       /\ held' = [phase |-> "claims", line |-> l]
       /\ UNCHANGED <<toServer, owed, toClient, pendingSpans, spans>>

\* Transform: the next line is taken when the decision on the last one is in, if
\* both came in one chunk also after the server has exited.
ReadLine ==
    /\ running
    /\ held = Idle
    /\ input # <<>>
    /\ input' = Tail(input)
    /\ Handle(Head(input))
    /\ UNCHANGED <<sent, claims, claimsValidated, partial, stage>>

\* validator.validate answers, and is never asked again, or throws.
ClaimsResolved ==
    /\ running
    /\ held.phase = "claims"
    /\ claimsValidated' = (claims # "unreadable")
    /\ Judge(held.line)
    /\ UNCHANGED <<input, sent, claims, partial, stage>>

\* variant: the span of the approval is left open
ApprovedSpans == Started(held.line.id, "client")

\* the approval's span ends, that of the call starts
SpansOnceApproved ==
    Append(EndSpan(spans, held.span, "approved"),
           [id |-> held.line.id, from |-> "client", end |-> "open"])

\* requestAndPollApproval returns "approved"
Approved ==
    /\ running
    /\ held.phase = "approval"
    /\ spans' = SpansOnceApproved
    /\ pendingSpans' = Track(held.line.id, NewSpan(spans'))
    /\ Push(held.line)
    /\ held' = Idle
    /\ UNCHANGED <<input, sent, claims, claimsValidated, toClient, partial,
                   stage>>

\* ... or "denied", "expired" or "timeout"
NotApproved ==
    /\ running
    /\ held.phase = "approval"
    /\ spans' = EndSpan(spans, held.span, "denied")
    /\ WriteDenial(held.line)
    /\ UNCHANGED <<input, sent, claims, claimsValidated, partial, stage>>

-----------------------------------------------------------------------------
(* Server to client *)

\* handleServerMessage, for a line that has arrived completely
HandleServer(m) ==
    \/ /\ m.kind = "response"
       /\ owed' = owed \ {m.id}
       /\ IF m.id \in DOMAIN pendingSpans
          THEN /\ spans' = EndSpan(spans, pendingSpans[m.id], "answered")
               /\ pendingSpans' = Untrack(m.id)
          ELSE UNCHANGED <<spans, pendingSpans>>
    \/ /\ m.kind = "request"
       /\ spans' = Started(m.id, "server")
       /\ pendingSpans' = Track(m.id, NewSpan(spans'))
       /\ UNCHANGED owed

Asked == {spans[s].id : s \in {t \in DOMAIN spans : spans[t].from = "server"}}

ServerLines == {Response(id) : id \in owed}
               \cup {ServerRequest(id) : id \in ServerIds \ Asked}

\* A chunk is forwarded as it comes; it may end within a line.  What the server
\* wrote before it exited may be read later.
ServerLine(m) ==
    /\ running
    /\ partial = Idle
    /\ toClient' = Append(toClient, [piece |-> "whole", msg |-> m])
    /\ HandleServer(m)
    /\ UNCHANGED <<input, sent, held, claims, claimsValidated, toServer,
                   partial, stage>>

ServerHead(m) ==
    /\ running
    /\ partial = Idle
    /\ partial' = [phase |-> "partial", msg |-> m]
    /\ toClient' = Append(toClient, [piece |-> "head", msg |-> m])
    /\ UNCHANGED <<input, sent, held, claims, claimsValidated, toServer, owed,
                   pendingSpans, spans, stage>>

ServerTail ==
    /\ running
    /\ partial # Idle
    /\ partial' = Idle
    /\ toClient' = Append(toClient, [piece |-> "tail", msg |-> partial.msg])
    /\ HandleServer(partial.msg)
    /\ UNCHANGED <<input, sent, held, claims, claimsValidated, toServer, stage>>

-----------------------------------------------------------------------------
(* The reaper, and the end of the session *)

\* variant: spans of the server's own requests are left alone
ReapableClient ==
    {id \in DOMAIN pendingSpans : spans[pendingSpans[id]].from = "client"}

Reapable == DOMAIN pendingSpans

\* Sixty seconds after a request its span is ended, answered or not.
Reap(id) ==
    /\ childUp
    /\ id \in Reapable
    /\ spans' = EndSpan(spans, pendingSpans[id], "timeout")
    /\ pendingSpans' = Untrack(id)
    /\ UNCHANGED <<input, sent, held, claims, claimsValidated, toServer, owed,
                   toClient, partial, stage>>

\* The server exits: the spans that are found are ended, the reaper is gone.
ChildExit ==
    /\ childUp
    /\ stage' = "draining"
    /\ spans' = [s \in DOMAIN spans |->
                    IF \E id \in DOMAIN pendingSpans : pendingSpans[id] = s
                    THEN [spans[s] EXCEPT !.end = "exit"] ELSE spans[s]]
    /\ pendingSpans' = [id \in {} |-> 0]
    /\ UNCHANGED <<input, sent, held, claims, claimsValidated, toServer, owed,
                   toClient, partial>>

\* The pipelines have closed, and the process exits, whatever is still held.
Leave ==
    /\ stage = "draining"
    /\ stage' = "over"
    /\ UNCHANGED <<input, sent, held, claims, claimsValidated, toServer, owed,
                   toClient, partial, pendingSpans, spans>>

-----------------------------------------------------------------------------
Init ==
    /\ input = <<>> /\ sent = 0 /\ held = Idle
    /\ claims \in Tokens /\ claimsValidated = FALSE
    /\ toServer = <<>> /\ owed = {}
    /\ toClient = <<>> /\ partial = Idle
    /\ pendingSpans = [id \in {} |-> 0] /\ spans = <<>>
    /\ stage = "up"

Sidecar == ReadLine \/ ClaimsResolved \/ Approved \/ NotApproved

Next ==
    \/ \E l \in Lines : ClientSends(l)
    \/ Sidecar
    \/ \E m \in ServerLines : ServerLine(m) \/ ServerHead(m)
    \/ ServerTail
    \/ \E id \in DOMAIN pendingSpans : Reap(id)
    \/ ChildExit \/ Leave

Spec == Init /\ [][Next]_vars

-----------------------------------------------------------------------------
(* Properties *)

Span == [id: Nat, from: {"client", "server"},
         end: {"open", "denied", "approved", "answered", "timeout", "exit"}]
ServerMessage == [kind: {"response", "request"}, id: Nat]

\* Every variable has its type.
TypeOK ==
    /\ input \in Seq(Lines) /\ toServer \in Seq(Lines)
    /\ sent \in 0..MaxSent
    /\ held \in {Idle} \cup [phase: {"claims"}, line: Lines]
                \cup [phase: {"approval"}, line: Lines, span: DOMAIN spans]
    /\ claims \in Tokens /\ claimsValidated \in BOOLEAN
    /\ owed \subseteq 1..MaxSent
    /\ toClient \in Seq([piece: {"whole", "head", "tail"}, msg: ServerMessage]
                        \cup [piece: {"whole"},
                              msg: [kind: {"denial"}, line: Lines]])
    /\ partial \in {Idle} \cup [phase: {"partial"}, msg: ServerMessage]
    /\ spans \in Seq(Span)
    /\ DOMAIN pendingSpans \subseteq 1..MaxSent \cup ServerIds
    /\ \A id \in DOMAIN pendingSpans : pendingSpans[id] \in DOMAIN spans
    /\ stage \in {"up", "draining", "over"}

\* Another request took the span's place in pendingSpans.
Displaced(s) ==
    \E t \in DOMAIN spans : /\ s < t
                            /\ spans[t].id = spans[s].id
                            /\ spans[t].from # spans[s].from

\* Ids are reused between the two directions, spans end early, calls are held and
\* what the server wrote is read after its exit, and yet pendingSpans holds
\* exactly the spans that are open, each under its own id, but for the one of a
\* held call and those that were displaced.
OpenSpansTracked ==
    /\ TypeOK
    /\ \A id \in DOMAIN pendingSpans : LET s == pendingSpans[id]
                                       IN  spans[s].end = "open" /\ spans[s].id = id
    /\ \A s \in DOMAIN spans : spans[s].end = "open" =>
          \/ \E id \in DOMAIN pendingSpans : pendingSpans[id] = s
          \/ held.phase = "approval" /\ held.span = s
          \/ Displaced(s)

-----------------------------------------------------------------------------
(* Statements the code does not keep *)

\* parser.ts:141, "This ensures the sidecar never corrupts the byte stream
\* between MCP client and server": the head of a server's line is followed by
\* its tail.
DocumentedStream ==
    \A i \in DOMAIN toClient :
        (toClient[i].piece = "head" /\ i < Len(toClient))
            => toClient[i + 1].piece = "tail"
=============================================================================
