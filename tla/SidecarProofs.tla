---------------------------- MODULE SidecarProofs ----------------------------
(***************************************************************************)
(* The stdio sidecar, with the policy it judges by and the log of what it  *)
(* decided, for any tools, policies, calls, number of lines, server ids    *)
(* and sizes of the log.                                                   *)
(*                                                                         *)
(* Spans are found again by the ids of their requests, so the invariant    *)
(* says whose ids are still free: the client's lines are numbered, the     *)
(* server asks once per id, and the span of a held call is the only one of *)
(* the client under its id.  That every call is judged by the first rule   *)
(* of the highest priority is a fact about sorting, for any list of rules; *)
(* that the log has no gaps is one about files that move one by one.       *)
(***************************************************************************)
EXTENDS SidecarSession, PolicyReload, FiniteSetTheorems, SequenceTheorems,
        WellFoundedInduction, TLAPS

\* The id of the last line that was taken from the client.
Taken == sent - Len(input)

\* The lines that wait carry the numbers after it.
LinesInOrder ==
    /\ Len(input) <= sent
    /\ \A i \in 1..Len(input) : input[i].id = Taken + i

\* A span of the client is that of a line that was taken.
ClientSpansTaken ==
    \A s \in DOMAIN spans : spans[s].from = "client" => spans[s].id <= Taken

\* pendingSpans has open spans, each under its own id.
PendingOpen ==
    \A id \in DOMAIN pendingSpans :
        spans[pendingSpans[id]].end = "open" /\ spans[pendingSpans[id]].id = id

\* What is held is the call that was taken last.
HeldTaken ==
    held # Idle => /\ mode = "enforce"
                   /\ held.line.kind = "call"
                   /\ held.line.id = Taken

\* It has no span before the claims are known, ...
HeldForClaims ==
    held.phase = "claims" =>
        \A s \in DOMAIN spans :
            spans[s].from = "client" => spans[s].id # held.line.id

\* ... and one that is open and not in pendingSpans while it waits for an
\* approval, which its policy asks for.
HeldForApproval ==
    held.phase = "approval" =>
        /\ claims \in {"valid", "none"}
        /\ evaluate(held.line.tool) = "require_approval"
        /\ spans[held.span].end = "open"
        /\ spans[held.span].from = "client"
        /\ spans[held.span].id = held.line.id
        /\ \A s \in DOMAIN spans :
              (spans[s].from = "client" /\ spans[s].id = held.line.id)
                  => s = held.span
        /\ \A id \in DOMAIN pendingSpans : pendingSpans[id] # held.span

\* A line of which the head has arrived is a response, or a request under an id
\* that the server has not used yet.
PartialUnseen ==
    partial # Idle =>
        /\ mode = "enforce"
        /\ partial.msg.kind = "request" =>
              partial.msg.id \in ServerIds \ Asked

\* Every open span is tracked, held or displaced.
OpenTracked ==
    \A s \in DOMAIN spans : spans[s].end = "open" =>
        \/ \E id \in DOMAIN pendingSpans : pendingSpans[id] = s
        \/ held.phase = "approval" /\ held.span = s
        \/ Displaced(s)

\* In monitor mode pendingSpans has the latest span of each id, ...
LatestTracked ==
    mode = "monitor" =>
        \A id \in DOMAIN pendingSpans, s \in DOMAIN spans :
            spans[s].id = id => s <= pendingSpans[id]

\* ... and a call that is being judged has a span.
JudgedHaveSpans ==
    \A l \in judging : \E s \in DOMAIN spans :
        spans[s].from = "client" /\ spans[s].id = l.id

ModesApart == /\ mode \in Modes
              /\ mode = "enforce" => judging = {}

\* The part of the type invariant that is about spans.
SpansTyped ==
    /\ spans \in Seq(Span)
    /\ DOMAIN pendingSpans \subseteq 1..MaxSent \cup ServerIds
    /\ \A id \in DOMAIN pendingSpans : pendingSpans[id] \in DOMAIN spans

SpansInv ==
    /\ SpansTyped /\ ClientSpansTaken /\ PendingOpen /\ OpenTracked
    /\ HeldForClaims /\ HeldForApproval /\ LatestTracked /\ JudgedHaveSpans

SessionInv ==
    /\ TypeOK /\ LinesInOrder /\ HeldTaken /\ PartialUnseen /\ ModesApart
    /\ SpansInv

-----------------------------------------------------------------------------
(* Lines and spans *)

\* The fields of a line of the client.
LEMMA LineFields ==
  ASSUME NEW l \in Lines
  PROVE  /\ l.id \in 1..MaxSent /\ l.id \in Nat
         /\ l.kind \in {"call", "request", "other"}
         /\ l.kind = "call" => l.tool \in Tools
<1>1. PICK n \in 1..MaxSent : l \in LinesNumbered(n)
  BY DEF Lines
<1> QED
  BY <1>1, InterceptorAssumption DEF LinesNumbered

\* Taking a line: it is the next number, and those that wait stay in order.
LEMMA TakeLine ==
  ASSUME TypeOK, LinesInOrder, input # <<>>, input' = Tail(input), sent' = sent
  PROVE  /\ Head(input) \in Lines /\ input' \in Seq(Lines)
         /\ Taken \in Nat /\ Taken' = Taken + 1
         /\ Head(input).id = Taken + 1
         /\ LinesInOrder'
<1>1. input \in Seq(Lines) /\ sent \in Nat
  BY InterceptorAssumption DEF TypeOK
<1>2. /\ Len(input) \in Nat \ {0} /\ Len(input') = Len(input) - 1
      /\ Head(input) = input[1] /\ input[1] \in Lines
      /\ input' \in Seq(Lines)
      /\ \A i \in 1..Len(input) - 1 : input'[i] = input[i + 1]
  BY <1>1
<1>3. Taken \in Nat /\ Taken' = Taken + 1
  BY <1>1, <1>2 DEF Taken, LinesInOrder
<1>4. input[1].id = Taken + 1
  BY <1>2 DEF LinesInOrder
<1>5. LinesInOrder'
  <2>1. Len(input') <= sent'
    BY <1>1, <1>2 DEF LinesInOrder
  <2>2. ASSUME NEW i \in 1..Len(input')
        PROVE  input'[i].id = Taken' + i
    <3>1. input'[i] = input[i + 1] /\ i + 1 \in 1..Len(input)
      BY <1>2
    <3>2. input[i + 1].id = Taken + (i + 1)
      BY <3>1 DEF LinesInOrder
    <3> QED
      BY <1>2, <1>3, <3>1, <3>2
  <2> QED
    BY <2>1, <2>2 DEF LinesInOrder
<1> QED
  BY <1>2, <1>3, <1>4, <1>5

\* A span more at the end of the list.
LEMMA Starting ==
  ASSUME TypeOK, NEW id \in Nat, NEW from \in {"client", "server"}
  PROVE  /\ Started(id, from) \in Seq(Span)
         /\ Len(spans) \in Nat /\ DOMAIN spans = 1..Len(spans)
         /\ Len(Started(id, from)) = Len(spans) + 1
         /\ DOMAIN Started(id, from) = 1..Len(spans) + 1
         /\ \A s \in DOMAIN spans : Started(id, from)[s] = spans[s]
         /\ Started(id, from)[Len(spans) + 1].id = id
         /\ Started(id, from)[Len(spans) + 1].from = from
         /\ Started(id, from)[Len(spans) + 1].end = "open"
<1> DEFINE x == [id |-> id, from |-> from, end |-> "open"]
<1>1. x \in Span /\ x.id = id /\ x.from = from /\ x.end = "open"
  BY DEF Span
<1>2. spans \in Seq(Span)
  BY DEF TypeOK
<1> HIDE DEF x
<1>3. Started(id, from) = Append(spans, x)
  BY DEF Started, x
<1> QED
  BY <1>1, <1>2, <1>3

Ends == {"open", "denied", "approved", "answered", "timeout", "exit"}

\* A span ends, the others stay as they are.
LEMMA Ending ==
  ASSUME NEW list \in Seq(Span), NEW s \in DOMAIN list,
         NEW how \in Ends
  PROVE  /\ EndSpan(list, s, how) \in Seq(Span)
         /\ DOMAIN EndSpan(list, s, how) = DOMAIN list
         /\ DOMAIN list = 1..Len(list) /\ Len(list) \in Nat
         /\ Len(EndSpan(list, s, how)) = Len(list)
         /\ EndSpan(list, s, how)[s].end = how
         /\ EndSpan(list, s, how)[s].id = list[s].id
         /\ EndSpan(list, s, how)[s].from = list[s].from
         /\ \A t \in DOMAIN list : t # s => EndSpan(list, s, how)[t] = list[t]
<1>1. /\ Len(list) \in Nat /\ DOMAIN list = 1..Len(list)
      /\ \A t \in DOMAIN list : list[t] \in Span
  OBVIOUS
<1> DEFINE y == [list[s] EXCEPT !.end = how]
<1>2. y \in Span /\ y.end = how /\ y.id = list[s].id /\ y.from = list[s].from
  BY <1>1 DEF Span, Ends
<1> HIDE DEF y
<1>3. EndSpan(list, s, how) = [list EXCEPT ![s] = y]
  BY DEF EndSpan, y
<1> QED
  BY <1>1, <1>2, <1>3

\* The same for a step that ends a span.
LEMMA EndingStep ==
  ASSUME spans \in Seq(Span), NEW s \in DOMAIN spans,
         NEW how \in Ends,
         spans' = EndSpan(spans, s, how)
  PROVE  /\ spans' \in Seq(Span) /\ DOMAIN spans' = DOMAIN spans
         /\ spans'[s].end = how /\ spans'[s].id = spans[s].id
         /\ spans'[s].from = spans[s].from
         /\ \A t \in DOMAIN spans : t # s => spans'[t] = spans[t]
<1>1. /\ EndSpan(spans, s, how) \in Seq(Span)
      /\ DOMAIN EndSpan(spans, s, how) = DOMAIN spans
      /\ EndSpan(spans, s, how)[s].end = how
      /\ EndSpan(spans, s, how)[s].id = spans[s].id
      /\ EndSpan(spans, s, how)[s].from = spans[s].from
      /\ \A t \in DOMAIN spans : t # s => EndSpan(spans, s, how)[t] = spans[t]
  BY Ending
<1> QED
  BY <1>1

-----------------------------------------------------------------------------
(* What the steps do to the spans *)

\* A line that is decided on now: the number of the last line that was taken,
\* and no span of the client has it yet.
Fresh(l) ==
    /\ l.id \in 1..MaxSent /\ Taken' = l.id
    /\ \A s \in DOMAIN spans : spans[s].from = "client" => spans[s].id < l.id

\* The spans are a list, and what belongs to them has its type.
LEMMA SpanTypes ==
  ASSUME TypeOK
  PROVE  /\ spans \in Seq(Span)
         /\ Len(spans) \in Nat /\ DOMAIN spans = 1..Len(spans)
         /\ \A s \in DOMAIN spans : /\ spans[s].id \in Nat
                                    /\ spans[s].from \in {"client", "server"}
         /\ \A id \in DOMAIN pendingSpans :
               id \in Nat /\ pendingSpans[id] \in DOMAIN spans
         /\ held.phase = "approval" => held.span \in DOMAIN spans
<1>1. spans \in Seq(Span)
  BY DEF TypeOK
<1>2. /\ Len(spans) \in Nat /\ DOMAIN spans = 1..Len(spans)
      /\ \A s \in DOMAIN spans : spans[s] \in Span
  BY <1>1
<1>3. held.phase = "approval" => held.span \in DOMAIN spans
  BY DEF TypeOK, Idle
<1>4. \A id \in DOMAIN pendingSpans :
         id \in Nat /\ pendingSpans[id] \in DOMAIN spans
  <2>1. /\ DOMAIN pendingSpans \subseteq 1..MaxSent \cup ServerIds
        /\ \A id \in DOMAIN pendingSpans : pendingSpans[id] \in DOMAIN spans
    BY DEF TypeOK
  <2>2. 1..MaxSent \subseteq Nat /\ ServerIds \subseteq Nat
    BY InterceptorAssumption
  <2> QED
    BY <2>1, <2>2
<1> QED
  BY <1>1, <1>2, <1>3, <1>4 DEF Span

\* A step that leaves the spans alone, and what is held too.
LEMMA NothingHappens ==
  ASSUME SessionInv, spans' = spans, pendingSpans' = pendingSpans, held' = held,
         Taken' = Taken, judging' \subseteq judging,
         mode' = mode, claims' = claims
  PROVE  SpansInv'
<1>1. HeldForApproval'
  BY DEF SessionInv, SpansInv, HeldForApproval, evaluate, Base, HasClaims
<1>2. OpenTracked'
  BY DEF SessionInv, SpansInv, OpenTracked, Displaced
<1> QED
  BY <1>1, <1>2 DEF SessionInv, SpansInv, SpansTyped, ClientSpansTaken, PendingOpen,
     HeldForClaims, LatestTracked, JudgedHaveSpans

\* A line that passes without a span, or is held for its claims.
LEMMA NoSpan ==
  ASSUME SessionInv, NEW l, Fresh(l), spans' = spans, pendingSpans' = pendingSpans,
         held.phase # "approval",
         held' \in {Idle, [phase |-> "claims", line |-> l]},
         judging' \subseteq judging, mode' = mode
  PROVE  SpansInv'
<1>1. held'.phase # "approval"
  BY DEF Idle
<1>2. HeldForClaims'
  <2>1. CASE held' = Idle
    BY <2>1 DEF Idle, HeldForClaims
  <2>2. CASE held' = [phase |-> "claims", line |-> l]
    <3>1. held'.line = l
      BY <2>2
    <3>2. \A s \in DOMAIN spans : spans[s].id \in Nat
      BY SpanTypes DEF SessionInv
    <3> QED
      BY <3>1, <3>2 DEF Fresh, HeldForClaims
  <2> QED
    BY <2>1, <2>2
<1>3. OpenTracked'
  BY <1>1 DEF SessionInv, SpansInv, OpenTracked, Displaced
<1>4. ClientSpansTaken'
  <2>1. \A s \in DOMAIN spans : spans[s].id \in Nat
    BY SpanTypes DEF SessionInv
  <2> QED
    BY <2>1 DEF Fresh, ClientSpansTaken
<1> QED
  BY <1>1, <1>2, <1>3, <1>4 DEF SessionInv, SpansInv, SpansTyped, PendingOpen,
     HeldForApproval, LatestTracked, JudgedHaveSpans

\* A request passes with a span that its answer will end.
LEMMA SpanTracked ==
  ASSUME SessionInv, NEW l, Fresh(l), held.phase # "approval", held' = Idle,
         spans' = Started(l.id, "client"),
         pendingSpans' = Track(l.id, NewSpan(spans')),
         judging' \subseteq judging \cup {l}, mode' = mode
  PROVE  SpansInv' /\ Asked' \subseteq Asked
<1> DEFINE n == Len(spans) + 1
<1>1. TypeOK
  BY DEF SessionInv
<1>2. l.id \in Nat /\ l.id \in 1..MaxSent
  BY DEF Fresh
<1>3. /\ spans' \in Seq(Span)
      /\ Len(spans) \in Nat /\ DOMAIN spans = 1..Len(spans)
      /\ DOMAIN spans' = 1..n
      /\ \A s \in DOMAIN spans : spans'[s] = spans[s]
      /\ spans'[n].id = l.id /\ spans'[n].from = "client"
      /\ spans'[n].end = "open"
      /\ NewSpan(spans') = n
  BY <1>1, <1>2, Starting DEF NewSpan
<1>4. /\ DOMAIN pendingSpans' = DOMAIN pendingSpans \cup {l.id}
      /\ pendingSpans'[l.id] = n
      /\ \A id \in DOMAIN pendingSpans \ {l.id} : pendingSpans'[id] = pendingSpans[id]
  BY <1>3 DEF Track
<1>5. /\ \A s \in DOMAIN spans : /\ spans[s].id \in Nat
                                 /\ spans[s].from \in {"client", "server"}
      /\ \A id \in DOMAIN pendingSpans :
            id \in Nat /\ pendingSpans[id] \in DOMAIN spans
  BY <1>1, SpanTypes
<1>6. /\ n \in DOMAIN spans' /\ DOMAIN spans \subseteq DOMAIN spans'
      /\ \A s \in DOMAIN spans' : s \in DOMAIN spans \/ s = n
      /\ \A s \in DOMAIN spans : s \in Nat /\ s < n
  BY <1>3
<1>7. held'.phase # "approval" /\ held'.phase # "claims"
  BY DEF Idle
<1> HIDE DEF n
<1>8. SpansTyped'
  BY <1>1, <1>2, <1>3, <1>4, <1>5, <1>6 DEF TypeOK, SpansTyped
<1>9. ClientSpansTaken'
  BY <1>2, <1>3, <1>5, <1>6 DEF ClientSpansTaken, Fresh
<1>10. PendingOpen'
  BY <1>3, <1>4, <1>5 DEF SessionInv, SpansInv, PendingOpen
<1>11. OpenTracked'
  <2> SUFFICES ASSUME NEW s \in DOMAIN spans', spans'[s].end = "open"
               PROVE  \/ \E id \in DOMAIN pendingSpans' : pendingSpans'[id] = s
                      \/ Displaced(s)'
    BY DEF OpenTracked
  <2>1. CASE s = n
    BY <1>4, <2>1
  <2>2. CASE s \in DOMAIN spans
    <3>1. spans[s].end = "open"
      BY <1>3, <2>2
    <3>2. \/ \E id \in DOMAIN pendingSpans : pendingSpans[id] = s
          \/ Displaced(s)
      BY <2>2, <3>1 DEF SessionInv, SpansInv, OpenTracked
    <3>3. CASE Displaced(s)
      BY <1>3, <1>6, <2>2, <3>3 DEF Displaced
    <3>4. ASSUME NEW id \in DOMAIN pendingSpans, pendingSpans[id] = s, id # l.id
          PROVE  \E i \in DOMAIN pendingSpans' : pendingSpans'[i] = s
      BY <1>4, <3>4
    <3>5. ASSUME NEW id \in DOMAIN pendingSpans, pendingSpans[id] = s, id = l.id
          PROVE  Displaced(s)'
      <4>1. spans[s].id = l.id
        BY <3>5 DEF SessionInv, SpansInv, PendingOpen
      <4>2. spans[s].from # "client"
        BY <1>2, <2>2, <4>1 DEF Fresh
      <4> QED
        BY <1>3, <1>6, <2>2, <4>1, <4>2 DEF Displaced
    <3> QED
      BY <3>2, <3>3, <3>4, <3>5
  <2> QED
    BY <1>6, <2>1, <2>2
<1>12. LatestTracked'
  <2> SUFFICES ASSUME mode = "monitor", NEW id \in DOMAIN pendingSpans',
                      NEW s \in DOMAIN spans', spans'[s].id = id
               PROVE  s <= pendingSpans'[id]
    BY DEF LatestTracked
  <2>1. CASE id = l.id
    BY <1>3, <1>4, <1>6, <2>1 DEF n
  <2>2. CASE id # l.id
    <3>1. s \in DOMAIN spans /\ id \in DOMAIN pendingSpans
          /\ spans[s].id = id /\ pendingSpans'[id] = pendingSpans[id]
      BY <1>3, <1>4, <1>6, <2>2
    <3> QED
      BY <3>1 DEF SessionInv, SpansInv, LatestTracked
  <2> QED
    BY <2>1, <2>2
<1>13. JudgedHaveSpans'
  BY <1>3, <1>6 DEF SessionInv, SpansInv, JudgedHaveSpans
<1>14. Asked' \subseteq Asked
  BY <1>3, <1>6 DEF Asked
<1> QED
  BY <1>7, <1>8, <1>9, <1>10, <1>11, <1>12, <1>13, <1>14
     DEF SpansInv, HeldForClaims, HeldForApproval

\* A call is refused: its span is started and ended at once.
LEMMA SpanDenied ==
  ASSUME SessionInv, NEW l, Fresh(l), held.phase # "approval", held' = Idle,
         mode = "enforce",
         spans' = EndSpan(Started(l.id, "client"), Len(spans) + 1, "denied"),
         pendingSpans' = pendingSpans,
         judging' = judging, mode' = mode
  PROVE  SpansInv' /\ Asked' \subseteq Asked
<1> DEFINE n == Len(spans) + 1
           L == Started(l.id, "client")
<1>1. TypeOK
  BY DEF SessionInv
<1>2. l.id \in Nat /\ l.id \in 1..MaxSent
  BY DEF Fresh
<1>3. /\ L \in Seq(Span)
      /\ Len(spans) \in Nat /\ DOMAIN spans = 1..Len(spans)
      /\ DOMAIN L = 1..n
      /\ \A s \in DOMAIN spans : L[s] = spans[s]
      /\ L[n].id = l.id /\ L[n].from = "client"
  BY <1>1, <1>2, Starting
<1>4. n \in DOMAIN L /\ \A s \in DOMAIN spans : s # n /\ s \in DOMAIN L
  BY <1>3
<1> HIDE DEF L
<1>5. spans' = EndSpan(L, n, "denied")
  BY DEF L
<1> HIDE DEF n
<1>6. /\ spans' \in Seq(Span) /\ DOMAIN spans' = 1..n
      /\ \A s \in DOMAIN spans : spans'[s] = spans[s]
      /\ spans'[n].id = l.id /\ spans'[n].from = "client"
      /\ spans'[n].end = "denied"
  <2>1. L \in Seq(Span) /\ n \in DOMAIN L
    BY <1>3, <1>4
  <2>2. /\ EndSpan(L, n, "denied") \in Seq(Span)
        /\ DOMAIN EndSpan(L, n, "denied") = DOMAIN L
        /\ EndSpan(L, n, "denied")[n].end = "denied"
        /\ EndSpan(L, n, "denied")[n].id = L[n].id
        /\ EndSpan(L, n, "denied")[n].from = L[n].from
        /\ \A s \in DOMAIN L : s # n => EndSpan(L, n, "denied")[s] = L[s]
    BY <2>1, Ending DEF Ends
  <2> QED
    BY <1>3, <1>4, <1>5, <2>2
<1>7. DOMAIN spans \subseteq DOMAIN spans'
      /\ \A s \in DOMAIN spans' : s \in DOMAIN spans \/ s = n
  BY <1>3, <1>6 DEF n
<1>8. /\ \A s \in DOMAIN spans : /\ spans[s].id \in Nat
                                 /\ spans[s].from \in {"client", "server"}
      /\ \A id \in DOMAIN pendingSpans :
            id \in Nat /\ pendingSpans[id] \in DOMAIN spans
  BY <1>1, SpanTypes
<1>9. held'.phase # "approval" /\ held'.phase # "claims"
  BY DEF Idle
<1>10. SpansTyped'
  BY <1>1, <1>6, <1>7, <1>8 DEF TypeOK, SpansTyped
<1>11. ClientSpansTaken'
  BY <1>2, <1>6, <1>7, <1>8 DEF ClientSpansTaken, Fresh
<1>12. PendingOpen'
  BY <1>6, <1>8 DEF SessionInv, SpansInv, PendingOpen
<1>13. OpenTracked'
  BY <1>6, <1>7 DEF SessionInv, SpansInv, OpenTracked, Displaced
<1>14. LatestTracked'
  BY DEF LatestTracked
<1>15. JudgedHaveSpans'
  BY <1>6, <1>7 DEF SessionInv, SpansInv, JudgedHaveSpans
<1>16. Asked' \subseteq Asked
  BY <1>6, <1>7 DEF Asked
<1> QED
  BY <1>9, <1>10, <1>11, <1>12, <1>13, <1>14, <1>15, <1>16
     DEF SpansInv, HeldForClaims, HeldForApproval

\* A call is held for approval, with an open span.
LEMMA SpanHeld ==
  ASSUME SessionInv, NEW l, Fresh(l), held.phase # "approval",
         evaluate(l.tool) = "require_approval", claims' = claims,
         claims \in {"valid", "none"},
         mode = "enforce",
         spans' = Started(l.id, "client"),
         held' = [phase |-> "approval", line |-> l, span |-> NewSpan(spans')],
         pendingSpans' = pendingSpans,
         judging' = judging, mode' = mode
  PROVE  SpansInv' /\ Asked' \subseteq Asked
<1> DEFINE n == Len(spans) + 1
<1>1. TypeOK
  BY DEF SessionInv
<1>2. l.id \in Nat /\ l.id \in 1..MaxSent
  BY DEF Fresh
<1>3. /\ spans' \in Seq(Span)
      /\ Len(spans) \in Nat /\ DOMAIN spans = 1..Len(spans)
      /\ DOMAIN spans' = 1..n
      /\ \A s \in DOMAIN spans : spans'[s] = spans[s]
      /\ spans'[n].id = l.id /\ spans'[n].from = "client"
      /\ spans'[n].end = "open"
      /\ NewSpan(spans') = n
  BY <1>1, <1>2, Starting DEF NewSpan
<1>4. /\ DOMAIN spans \subseteq DOMAIN spans'
      /\ \A s \in DOMAIN spans' : s \in DOMAIN spans \/ s = n
      /\ \A s \in DOMAIN spans : s # n
  BY <1>3
<1>5. /\ \A s \in DOMAIN spans : /\ spans[s].id \in Nat
                                 /\ spans[s].from \in {"client", "server"}
      /\ \A id \in DOMAIN pendingSpans :
            id \in Nat /\ pendingSpans[id] \in DOMAIN spans
  BY <1>1, SpanTypes
<1> HIDE DEF n
<1>6. held'.phase = "approval" /\ held'.line = l /\ held'.span = n
  BY <1>3
<1>7. SpansTyped'
  BY <1>1, <1>3, <1>4, <1>5 DEF TypeOK, SpansTyped
<1>8. ClientSpansTaken'
  BY <1>2, <1>3, <1>4, <1>5 DEF ClientSpansTaken, Fresh
<1>9. PendingOpen'
  BY <1>3, <1>5 DEF SessionInv, SpansInv, PendingOpen
<1>10. OpenTracked'
  BY <1>3, <1>4, <1>6 DEF SessionInv, SpansInv, OpenTracked, Displaced
<1>11. HeldForApproval'
  <2>1. evaluate(l.tool)' = "require_approval"
    BY DEF evaluate, Base, HasClaims
  <2>2. \A s \in DOMAIN spans' :
           (spans'[s].from = "client" /\ spans'[s].id = l.id) => s = n
    BY <1>2, <1>3, <1>4, <1>5 DEF Fresh
  <2>3. \A id \in DOMAIN pendingSpans : pendingSpans[id] # n
    BY <1>4, <1>5
  <2>4. (held.line.tool)' = l.tool
    BY <1>6
  <2> QED
    BY <1>3, <1>6, <2>1, <2>2, <2>3 DEF HeldForApproval, evaluate, Base,
     HasClaims
<1>12. HeldForClaims'
  BY <1>6 DEF HeldForClaims
<1>13. LatestTracked'
  BY DEF LatestTracked
<1>14. JudgedHaveSpans'
  BY <1>3, <1>4 DEF SessionInv, SpansInv, JudgedHaveSpans
<1>15. Asked' \subseteq Asked
  BY <1>3, <1>4 DEF Asked
<1> QED
  BY <1>7, <1>8, <1>9, <1>10, <1>11, <1>12, <1>13, <1>14, <1>15 DEF SpansInv

\* The call is approved: the span of the wait ends, and that of the call starts
\* and is tracked.
LEMMA SpanApproved ==
  ASSUME SessionInv, held.phase = "approval", held' = Idle,
         spans' = SpansOnceApproved,
         pendingSpans' = Track(held.line.id, NewSpan(spans')),
         Taken' = Taken,
         judging' = judging, mode' = mode
  PROVE  SpansInv' /\ Asked' \subseteq Asked
<1> DEFINE n == Len(spans) + 1
           l == held.line
           h == held.span
           L == EndSpan(spans, h, "approved")
           x == [id |-> l.id, from |-> "client", end |-> "open"]
<1>1. TypeOK
  BY DEF SessionInv
<1>2. /\ held # Idle /\ l \in Lines /\ h \in DOMAIN spans
  BY <1>1, SpanTypes DEF TypeOK, Idle
<1>3. l.id \in Nat /\ l.id \in 1..MaxSent /\ l.id = Taken /\ mode = "enforce"
  BY <1>2, LineFields DEF SessionInv, HeldTaken
<1>4. /\ spans \in Seq(Span)
      /\ Len(spans) \in Nat /\ DOMAIN spans = 1..Len(spans)
      /\ \A s \in DOMAIN spans : /\ spans[s].id \in Nat
                                 /\ spans[s].from \in {"client", "server"}
      /\ \A id \in DOMAIN pendingSpans :
            id \in Nat /\ pendingSpans[id] \in DOMAIN spans
  BY <1>1, SpanTypes
<1>5. /\ spans[h].end = "open" /\ spans[h].from = "client"
      /\ spans[h].id = l.id
      /\ \A s \in DOMAIN spans :
            (spans[s].from = "client" /\ spans[s].id = l.id) => s = h
      /\ \A id \in DOMAIN pendingSpans : pendingSpans[id] # h
  BY DEF SessionInv, SpansInv, HeldForApproval
<1> HIDE DEF l, h
<1>6. /\ L \in Seq(Span) /\ Len(L) = Len(spans) /\ DOMAIN L = DOMAIN spans
      /\ L[h].end = "approved" /\ L[h].id = spans[h].id
      /\ L[h].from = spans[h].from
      /\ \A s \in DOMAIN spans : s # h => L[s] = spans[s]
  <2>1. spans \in Seq(Span) /\ h \in DOMAIN spans
    BY <1>2, <1>4
  <2> QED
    BY <2>1, Ending DEF Ends
<1>7. x \in Span /\ x.id = l.id /\ x.from = "client" /\ x.end = "open"
  BY <1>3 DEF Span
<1>8. spans' = Append(L, x)
  BY DEF SpansOnceApproved, l, h
<1> HIDE DEF L, x
<1>9. /\ spans' \in Seq(Span) /\ DOMAIN spans' = 1..n /\ Len(spans') = n
      /\ \A s \in DOMAIN spans : spans'[s] = L[s]
      /\ spans'[n] = x
  BY <1>4, <1>6, <1>7, <1>8
<1>10. /\ \A s \in DOMAIN spans : s # h => spans'[s] = spans[s]
       /\ \A s \in DOMAIN spans : /\ spans'[s].id = spans[s].id
                                  /\ spans'[s].from = spans[s].from
       /\ spans'[h].end = "approved"
       /\ spans'[n].id = l.id /\ spans'[n].from = "client"
       /\ spans'[n].end = "open"
  BY <1>2, <1>6, <1>7, <1>9
<1>11. /\ n \in DOMAIN spans' /\ DOMAIN spans \subseteq DOMAIN spans'
       /\ \A s \in DOMAIN spans' : s \in DOMAIN spans \/ s = n
       /\ \A s \in DOMAIN spans : s \in Nat /\ s < n /\ s # n
  BY <1>4, <1>9
<1>12. /\ DOMAIN pendingSpans' = DOMAIN pendingSpans \cup {l.id}
       /\ pendingSpans'[l.id] = n
       /\ \A id \in DOMAIN pendingSpans \ {l.id} :
             pendingSpans'[id] = pendingSpans[id]
  BY <1>9 DEF Track, NewSpan, l
<1> HIDE DEF n
<1>13. held'.phase # "approval" /\ held'.phase # "claims"
  BY DEF Idle
<1>14. SpansTyped'
  BY <1>1, <1>3, <1>4, <1>9, <1>11, <1>12 DEF TypeOK, SpansTyped
<1>15. ClientSpansTaken'
  BY <1>3, <1>4, <1>10, <1>11 DEF SessionInv, SpansInv, ClientSpansTaken
<1>16. PendingOpen'
  <2> SUFFICES ASSUME NEW id \in DOMAIN pendingSpans'
               PROVE  /\ spans'[pendingSpans'[id]].end = "open"
                      /\ spans'[pendingSpans'[id]].id = id
    BY DEF PendingOpen
  <2>1. CASE id = l.id
    BY <1>10, <1>12, <2>1
  <2>2. CASE id # l.id
    <3>1. /\ id \in DOMAIN pendingSpans /\ pendingSpans'[id] = pendingSpans[id]
          /\ pendingSpans[id] # h /\ pendingSpans[id] \in DOMAIN spans
      BY <1>4, <1>5, <1>12, <2>2
    <3>2. spans[pendingSpans[id]].end = "open" /\ spans[pendingSpans[id]].id = id
      BY <3>1 DEF SessionInv, SpansInv, PendingOpen
    <3> QED
      BY <1>10, <3>1, <3>2
  <2> QED
    BY <2>1, <2>2
<1>17. OpenTracked'
  <2> SUFFICES ASSUME NEW s \in DOMAIN spans', spans'[s].end = "open"
               PROVE  \/ \E id \in DOMAIN pendingSpans' : pendingSpans'[id] = s
                      \/ Displaced(s)'
    BY DEF OpenTracked
  <2>1. CASE s = n
    BY <1>12, <2>1
  <2>2. CASE s \in DOMAIN spans
    <3>1. s # h /\ spans[s].end = "open"
      BY <1>10, <2>2
    <3>2. \/ \E id \in DOMAIN pendingSpans : pendingSpans[id] = s
          \/ Displaced(s)
      BY <2>2, <3>1 DEF SessionInv, SpansInv, OpenTracked, h
    <3>3. CASE Displaced(s)
      BY <1>10, <1>11, <2>2, <3>3 DEF Displaced
    <3>4. ASSUME NEW id \in DOMAIN pendingSpans, pendingSpans[id] = s, id # l.id
          PROVE  \E i \in DOMAIN pendingSpans' : pendingSpans'[i] = s
      BY <1>12, <3>4
    <3>5. ASSUME NEW id \in DOMAIN pendingSpans, pendingSpans[id] = s, id = l.id
          PROVE  Displaced(s)'
      <4>1. spans[s].id = l.id
        BY <3>5 DEF SessionInv, SpansInv, PendingOpen
      <4>2. spans[s].from # "client"
        BY <1>5, <2>2, <3>1, <4>1
      <4> QED
        BY <1>10, <1>11, <2>2, <4>1, <4>2 DEF Displaced
    <3> QED
      BY <3>2, <3>3, <3>4, <3>5
  <2> QED
    BY <1>11, <2>1, <2>2
<1>18. LatestTracked'
  BY <1>3 DEF LatestTracked
<1>19. JudgedHaveSpans'
  BY <1>10, <1>11 DEF SessionInv, SpansInv, JudgedHaveSpans
<1>20. Asked' \subseteq Asked
  BY <1>10, <1>11 DEF Asked
<1> QED
  BY <1>13, <1>14, <1>15, <1>16, <1>17, <1>18, <1>19, <1>20
     DEF SpansInv, HeldForClaims, HeldForApproval

\* The call is not approved: the span of the wait ends.
LEMMA SpanNotApproved ==
  ASSUME SessionInv, held.phase = "approval", held' = Idle,
         spans' = EndSpan(spans, held.span, "denied"),
         pendingSpans' = pendingSpans, Taken' = Taken,
         judging' = judging, mode' = mode
  PROVE  SpansInv' /\ Asked' \subseteq Asked
<1> DEFINE h == held.span
<1>1. TypeOK
  BY DEF SessionInv
<1>2. held # Idle /\ h \in DOMAIN spans /\ spans \in Seq(Span)
  BY <1>1, SpanTypes DEF Idle
<1>3. mode = "enforce"
  BY <1>2 DEF SessionInv, HeldTaken
<1>4. \A id \in DOMAIN pendingSpans :
         id \in Nat /\ pendingSpans[id] \in DOMAIN spans /\ pendingSpans[id] # h
  BY <1>1, SpanTypes DEF SessionInv, SpansInv, HeldForApproval
<1> HIDE DEF h
<1>5. spans' = EndSpan(spans, h, "denied")
  BY DEF h
<1>6. /\ spans' \in Seq(Span) /\ DOMAIN spans' = DOMAIN spans
      /\ spans'[h].end = "denied" /\ spans'[h].id = spans[h].id
      /\ spans'[h].from = spans[h].from
      /\ \A s \in DOMAIN spans : s # h => spans'[s] = spans[s]
  BY <1>2, <1>5, EndingStep DEF Ends
<1>7. /\ \A s \in DOMAIN spans : /\ spans'[s].id = spans[s].id
                                 /\ spans'[s].from = spans[s].from
      /\ \A id \in DOMAIN pendingSpans :
            spans'[pendingSpans[id]] = spans[pendingSpans[id]]
  BY <1>4, <1>6
<1>8. held'.phase # "approval" /\ held'.phase # "claims"
  BY DEF Idle
<1>9. SpansTyped'
  BY <1>1, <1>4, <1>6 DEF TypeOK, SpansTyped
<1>10. ClientSpansTaken'
  BY <1>6, <1>7 DEF SessionInv, SpansInv, ClientSpansTaken
<1>11. PendingOpen'
  BY <1>7 DEF SessionInv, SpansInv, PendingOpen
<1>12. OpenTracked'
  <2> SUFFICES ASSUME NEW s \in DOMAIN spans, spans'[s].end = "open"
               PROVE  \/ \E id \in DOMAIN pendingSpans : pendingSpans[id] = s
                      \/ Displaced(s)'
    BY <1>6 DEF OpenTracked
  <2>1. s # h /\ spans[s].end = "open"
    BY <1>6
  <2>2. \/ \E id \in DOMAIN pendingSpans : pendingSpans[id] = s
        \/ Displaced(s)
    BY <2>1 DEF SessionInv, SpansInv, OpenTracked, h
  <2> QED
    BY <1>6, <1>7, <2>2 DEF Displaced
<1>13. LatestTracked'
  BY <1>3 DEF LatestTracked
<1>14. JudgedHaveSpans'
  BY <1>6, <1>7 DEF SessionInv, SpansInv, JudgedHaveSpans
<1>15. Asked' \subseteq Asked
  BY <1>6, <1>7 DEF Asked
<1> QED
  BY <1>8, <1>9, <1>10, <1>11, <1>12, <1>13, <1>14, <1>15
     DEF SpansInv, HeldForClaims, HeldForApproval

\* A tracked span ends, by its answer or by the reaper.
LEMMA SpanEnded ==
  ASSUME SessionInv, NEW id \in DOMAIN pendingSpans,
         NEW how \in {"answered", "timeout"},
         spans' = EndSpan(spans, pendingSpans[id], how),
         pendingSpans' = Untrack(id), held' = held, Taken' = Taken,
         claims' = claims, judging' = judging, mode' = mode
  PROVE  SpansInv' /\ Asked' \subseteq Asked
<1> DEFINE h == pendingSpans[id]
<1>1. TypeOK
  BY DEF SessionInv
<1>2. /\ h \in DOMAIN spans /\ spans \in Seq(Span)
      /\ \A i \in DOMAIN pendingSpans :
            i \in Nat /\ pendingSpans[i] \in DOMAIN spans
  BY <1>1, SpanTypes
<1>3. \A i \in DOMAIN pendingSpans : /\ spans[pendingSpans[i]].end = "open"
                                     /\ spans[pendingSpans[i]].id = i
  BY DEF SessionInv, SpansInv, PendingOpen
<1>4. \A i \in DOMAIN pendingSpans \ {id} : pendingSpans[i] # h
  BY <1>3
<1>5. /\ DOMAIN pendingSpans' = DOMAIN pendingSpans \ {id}
      /\ \A i \in DOMAIN pendingSpans \ {id} : pendingSpans'[i] = pendingSpans[i]
  BY DEF Untrack
<1> HIDE DEF h
<1>6. spans' = EndSpan(spans, h, how)
  BY DEF h
<1>7. /\ spans' \in Seq(Span) /\ DOMAIN spans' = DOMAIN spans
      /\ spans'[h].end = how /\ spans'[h].id = spans[h].id
      /\ spans'[h].from = spans[h].from
      /\ \A s \in DOMAIN spans : s # h => spans'[s] = spans[s]
  BY <1>2, <1>6, EndingStep DEF Ends
<1>8. /\ \A s \in DOMAIN spans : /\ spans'[s].id = spans[s].id
                                 /\ spans'[s].from = spans[s].from
      /\ \A i \in DOMAIN pendingSpans \ {id} :
            spans'[pendingSpans[i]] = spans[pendingSpans[i]]
  BY <1>2, <1>4, <1>7
<1>9. SpansTyped'
  BY <1>1, <1>2, <1>5, <1>7 DEF TypeOK, SpansTyped
<1>10. ClientSpansTaken'
  BY <1>7, <1>8 DEF SessionInv, SpansInv, ClientSpansTaken
<1>11. PendingOpen'
  BY <1>3, <1>5, <1>8 DEF PendingOpen
<1>12. OpenTracked'
  <2> SUFFICES ASSUME NEW s \in DOMAIN spans, spans'[s].end = "open"
               PROVE  \/ \E i \in DOMAIN pendingSpans \ {id} : pendingSpans[i] = s
                      \/ held.phase = "approval" /\ held.span = s
                      \/ Displaced(s)'
    BY <1>5, <1>7 DEF OpenTracked
  <2>1. s # h /\ spans[s].end = "open"
    BY <1>7
  <2>2. \/ \E i \in DOMAIN pendingSpans : pendingSpans[i] = s
        \/ held.phase = "approval" /\ held.span = s
        \/ Displaced(s)
    BY <2>1 DEF SessionInv, SpansInv, OpenTracked
  <2>3. CASE Displaced(s)
    BY <1>7, <1>8, <2>3 DEF Displaced
  <2> QED
    BY <2>1, <2>2, <2>3 DEF h
<1>13. HeldForClaims'
  BY <1>7, <1>8 DEF SessionInv, SpansInv, HeldForClaims
<1>14. HeldForApproval'
  <2> SUFFICES ASSUME held.phase = "approval" PROVE HeldForApproval'
    BY DEF HeldForApproval
  <2>1. held.span \in DOMAIN spans
    BY <1>1, SpanTypes
  <2>2. held.span # h
    BY DEF SessionInv, SpansInv, HeldForApproval, h
  <2>3. spans'[held.span] = spans[held.span]
    BY <1>7, <2>1, <2>2
  <2> QED
    BY <1>5, <1>7, <1>8, <2>3
       DEF SessionInv, SpansInv, HeldForApproval, evaluate, Base, HasClaims
<1>15. LatestTracked'
  BY <1>5, <1>7, <1>8 DEF SessionInv, SpansInv, LatestTracked
<1>16. JudgedHaveSpans'
  BY <1>7, <1>8 DEF SessionInv, SpansInv, JudgedHaveSpans
<1>17. Asked' \subseteq Asked
  BY <1>7, <1>8 DEF Asked
<1> QED
  BY <1>9, <1>10, <1>11, <1>12, <1>13, <1>14, <1>15, <1>16, <1>17 DEF SpansInv

\* The server asks: its request is tracked, in the place of the client's request
\* with its id, if that is tracked.
LEMMA SpanOfServer ==
  ASSUME SessionInv, NEW id \in ServerIds \ Asked,
         spans' = Started(id, "server"),
         pendingSpans' = Track(id, NewSpan(spans')), held' = held,
         Taken' = Taken, claims' = claims, judging' = judging,
         mode' = mode
  PROVE  SpansInv'
<1> DEFINE n == Len(spans) + 1
<1>1. TypeOK
  BY DEF SessionInv
<1>2. id \in Nat
  BY InterceptorAssumption
<1>3. /\ spans' \in Seq(Span)
      /\ Len(spans) \in Nat /\ DOMAIN spans = 1..Len(spans)
      /\ DOMAIN spans' = 1..n
      /\ \A s \in DOMAIN spans : spans'[s] = spans[s]
      /\ spans'[n].id = id /\ spans'[n].from = "server"
      /\ spans'[n].end = "open"
      /\ NewSpan(spans') = n
  BY <1>1, <1>2, Starting DEF NewSpan
<1>4. /\ DOMAIN pendingSpans' = DOMAIN pendingSpans \cup {id}
      /\ pendingSpans'[id] = n
      /\ \A i \in DOMAIN pendingSpans \ {id} : pendingSpans'[i] = pendingSpans[i]
  BY <1>3 DEF Track
<1>5. /\ \A s \in DOMAIN spans : /\ spans[s].id \in Nat
                                 /\ spans[s].from \in {"client", "server"}
      /\ \A i \in DOMAIN pendingSpans :
            i \in Nat /\ pendingSpans[i] \in DOMAIN spans
  BY <1>1, SpanTypes
<1>6. /\ n \in DOMAIN spans' /\ DOMAIN spans \subseteq DOMAIN spans'
      /\ \A s \in DOMAIN spans' : s \in DOMAIN spans \/ s = n
      /\ \A s \in DOMAIN spans : s \in Nat /\ s < n /\ s # n
  BY <1>3
<1>7. \A s \in DOMAIN spans : spans[s].id = id => spans[s].from = "client"
  BY <1>5 DEF Asked
<1>8. LatestTracked'
  <2> SUFFICES ASSUME mode = "monitor", NEW i \in DOMAIN pendingSpans',
                      NEW s \in DOMAIN spans', spans'[s].id = i
               PROVE  s <= pendingSpans'[i]
    BY DEF LatestTracked
  <2>1. CASE i = id
    BY <1>3, <1>4, <1>6, <2>1
  <2>2. CASE i # id
    <3>1. s # n
      BY <1>3, <2>2
    <3>2. s \in DOMAIN spans /\ i \in DOMAIN pendingSpans
          /\ spans[s].id = i /\ pendingSpans'[i] = pendingSpans[i]
      BY <1>3, <1>4, <1>6, <2>2, <3>1
    <3> QED
      BY <3>2 DEF SessionInv, SpansInv, LatestTracked
  <2> QED
    BY <2>1, <2>2
<1> HIDE DEF n
<1>9. SpansTyped'
  <2>1. DOMAIN pendingSpans' \subseteq 1..MaxSent \cup ServerIds
    BY <1>1, <1>4 DEF TypeOK, SpansTyped
  <2>2. \A i \in DOMAIN pendingSpans' : pendingSpans'[i] \in DOMAIN spans'
    BY <1>4, <1>5, <1>6
  <2> QED
    BY <1>3, <2>1, <2>2 DEF SpansTyped
<1>10. ClientSpansTaken'
  BY <1>3, <1>6 DEF SessionInv, SpansInv, ClientSpansTaken
<1>11. PendingOpen'
  BY <1>3, <1>4, <1>5 DEF SessionInv, SpansInv, PendingOpen
<1>12. OpenTracked'
  <2> SUFFICES ASSUME NEW s \in DOMAIN spans', spans'[s].end = "open"
               PROVE  \/ \E i \in DOMAIN pendingSpans' : pendingSpans'[i] = s
                      \/ held.phase = "approval" /\ held.span = s
                      \/ Displaced(s)'
    BY DEF OpenTracked
  <2>1. CASE s = n
    BY <1>4, <2>1
  <2>2. CASE s \in DOMAIN spans
    <3>1. spans[s].end = "open"
      BY <1>3, <2>2
    <3>2. \/ \E i \in DOMAIN pendingSpans : pendingSpans[i] = s
          \/ held.phase = "approval" /\ held.span = s
          \/ Displaced(s)
      BY <2>2, <3>1 DEF SessionInv, SpansInv, OpenTracked
    <3>3. CASE Displaced(s)
      BY <1>3, <1>6, <2>2, <3>3 DEF Displaced
    <3>4. ASSUME NEW i \in DOMAIN pendingSpans, pendingSpans[i] = s, i # id
          PROVE  \E j \in DOMAIN pendingSpans' : pendingSpans'[j] = s
      BY <1>4, <3>4
    <3>5. ASSUME NEW i \in DOMAIN pendingSpans, pendingSpans[i] = s, i = id
          PROVE  Displaced(s)'
      <4>1. spans[s].id = id
        BY <3>5 DEF SessionInv, SpansInv, PendingOpen
      <4>2. spans[s].from = "client"
        BY <1>7, <2>2, <4>1
      <4> QED
        BY <1>3, <1>6, <2>2, <4>1, <4>2 DEF Displaced
    <3> QED
      BY <3>2, <3>3, <3>4, <3>5
  <2> QED
    BY <1>6, <2>1, <2>2
<1>13. HeldForClaims'
  BY <1>3, <1>6 DEF SessionInv, SpansInv, HeldForClaims
<1>14. HeldForApproval'
  <2> SUFFICES ASSUME held.phase = "approval" PROVE HeldForApproval'
    BY DEF HeldForApproval
  <2>1. held.span \in DOMAIN spans
    BY <1>1, SpanTypes
  <2>2. spans'[held.span] = spans[held.span] /\ held.span # n
    BY <1>3, <1>6, <2>1
  <2>3. \A i \in DOMAIN pendingSpans' : pendingSpans'[i] # held.span
    BY <1>4, <2>2 DEF SessionInv, SpansInv, HeldForApproval
  <2>4. \A s \in DOMAIN spans' :
           (spans'[s].from = "client" /\ spans'[s].id = held.line.id)
               => s = held.span
    BY <1>3, <1>6 DEF SessionInv, SpansInv, HeldForApproval
  <2> QED
    BY <2>2, <2>3, <2>4 DEF SessionInv, SpansInv, HeldForApproval, evaluate, Base, HasClaims
<1>15. JudgedHaveSpans'
  BY <1>3, <1>6 DEF SessionInv, SpansInv, JudgedHaveSpans
<1> QED
  BY <1>8, <1>9, <1>10, <1>11, <1>12, <1>13, <1>14, <1>15 DEF SpansInv

\* The server exits: what is tracked ends, what is held does not.
LEMMA SpansAtExit ==
  ASSUME SessionInv, ChildExit, judging' = judging, mode' = mode
  PROVE  SpansInv' /\ Asked' \subseteq Asked
<1> DEFINE Gone(s) == IF \E id \in DOMAIN pendingSpans : pendingSpans[id] = s
                      THEN [spans[s] EXCEPT !.end = "exit"] ELSE spans[s]
<1>1. TypeOK
  BY DEF SessionInv
<1>2. spans \in Seq(Span) /\ Len(spans) \in Nat /\ DOMAIN spans = 1..Len(spans)
  BY <1>1, SpanTypes
<1>3. /\ held' = held /\ claims' = claims
      /\ spans' = [s \in DOMAIN spans |-> Gone(s)]
      /\ pendingSpans' = [id \in {} |-> 0]
      /\ sent' = sent /\ input' = input
  BY DEF ChildExit
<1>4. \A s \in DOMAIN spans : /\ Gone(s) \in Span
                             /\ Gone(s).id = spans[s].id
                             /\ Gone(s).from = spans[s].from
  <2> TAKE s \in DOMAIN spans
  <2>1. spans[s] \in Span
    BY <1>2
  <2> QED
    BY <2>1 DEF Span
<1>5. held.phase = "approval" => Gone(held.span) = spans[held.span]
  BY DEF SessionInv, SpansInv, HeldForApproval
<1> HIDE DEF Gone
<1>6. /\ spans' \in Seq(Span) /\ DOMAIN spans' = DOMAIN spans
      /\ \A s \in DOMAIN spans : /\ spans'[s].id = spans[s].id
                                 /\ spans'[s].from = spans[s].from
  BY <1>2, <1>3, <1>4
<1>7. held.phase = "approval" => spans'[held.span] = spans[held.span]
  BY <1>1, <1>3, <1>5, SpanTypes
<1>8. DOMAIN pendingSpans' = {}
  BY <1>3
<1>9. Taken' = Taken
  BY <1>3 DEF Taken
<1>10. HeldForApproval'
  BY <1>3, <1>6, <1>7, <1>8
     DEF SessionInv, SpansInv, HeldForApproval, evaluate, Base, HasClaims
<1>11. SpansTyped' /\ PendingOpen' /\ LatestTracked'
  BY <1>6, <1>8 DEF SpansTyped, PendingOpen, LatestTracked
<1>12. ClientSpansTaken' /\ HeldForClaims' /\ JudgedHaveSpans'
  BY <1>3, <1>6, <1>9
     DEF SessionInv, SpansInv, ClientSpansTaken, HeldForClaims, JudgedHaveSpans
<1>13. Asked' \subseteq Asked
  BY <1>6 DEF Asked
<1>14. OpenTracked'
  <2> SUFFICES ASSUME NEW s \in DOMAIN spans, Gone(s).end = "open"
               PROVE  (held.phase = "approval" /\ held.span = s) \/ Displaced(s)'
    BY <1>3, <1>6 DEF OpenTracked
  <2>1. /\ ~ \E id \in DOMAIN pendingSpans : pendingSpans[id] = s
        /\ spans[s].end = "open"
    <3>1. spans[s] \in Span
      BY <1>2
    <3> QED
      BY <3>1 DEF Gone, Span
  <2>2. (held.phase = "approval" /\ held.span = s) \/ Displaced(s)
    BY <2>1 DEF SessionInv, SpansInv, OpenTracked
  <2> QED
    BY <1>6, <2>2 DEF Displaced
<1> QED
  BY <1>10, <1>11, <1>12, <1>13, <1>14 DEF SpansInv

-----------------------------------------------------------------------------
(* What the steps do to the rest *)

\* The type invariant in parts.
HeldTyped ==
    held \in {Idle} \cup [phase: {"claims"}, line: Lines]
            \cup [phase: {"approval"}, line: Lines, span: DOMAIN spans]

Piece == [piece: {"whole", "head", "tail"}, msg: ServerMessage]
         \cup [piece: {"whole"}, msg: [kind: {"denial"}, line: Lines]]

ServerTyped == toServer \in Seq(Lines) /\ owed \subseteq 1..MaxSent
ClientTyped == toClient \in Seq(Piece)
RestTyped ==
    /\ input \in Seq(Lines) /\ sent \in 0..MaxSent
    /\ claims \in Tokens /\ claimsValidated \in BOOLEAN
    /\ partial \in {Idle} \cup [phase: {"partial"}, msg: ServerMessage]
    /\ stage \in {"up", "draining", "over"}

\* The types, split into the parts that the actions change together.
LEMMA TypeParts ==
  /\ TypeOK <=> /\ HeldTyped /\ ServerTyped /\ ClientTyped /\ RestTyped
                /\ SpansTyped
  /\ TypeOK' <=> /\ HeldTyped' /\ ServerTyped' /\ ClientTyped' /\ RestTyped'
                 /\ SpansTyped'
BY DEF TypeOK, HeldTyped, ServerTyped, ClientTyped, RestTyped, SpansTyped, Piece

\* Forwarding a line to the server keeps the type of the server's input.
LEMMA Pushing ==
  ASSUME ServerTyped, NEW l \in Lines, Push(l)
  PROVE  ServerTyped'
<1>1. toServer' \in Seq(Lines)
  BY DEF ServerTyped, Push
<1>2. owed' \subseteq owed \cup {l.id} /\ l.id \in 1..MaxSent
  BY LineFields DEF Push
<1>3. Lines' = Lines
  BY DEF Lines, LinesNumbered
<1> QED
  BY <1>1, <1>2, <1>3 DEF ServerTyped

\* Writing a refusal, or a piece of the server's message, keeps the type of the output.
LEMMA Writing ==
  ASSUME ClientTyped
  PROVE  /\ \A l \in Lines :
               toClient' = Append(toClient, [piece |-> "whole", msg |-> Denial(l)])
                  => ClientTyped'
         /\ \A m \in ServerMessage, p \in {"whole", "head", "tail"} :
               toClient' = Append(toClient, [piece |-> p, msg |-> m])
                  => ClientTyped'
<1>1. Piece' = Piece
  BY DEF Piece, ServerMessage
<1>2. \A l \in Lines : [piece |-> "whole", msg |-> Denial(l)] \in Piece
  BY DEF Piece, Denial
<1>3. \A m \in ServerMessage, p \in {"whole", "head", "tail"} :
         [piece |-> p, msg |-> m] \in Piece
  BY DEF Piece
<1>4. \A x \in Piece : toClient' = Append(toClient, x) => ClientTyped'
  BY <1>1 DEF ClientTyped
<1> QED
  BY <1>2, <1>3, <1>4

\* What is decided of a call, once the claims are known.
LEMMA Judging ==
  ASSUME SessionInv, NEW l \in Lines, Fresh(l), held.phase # "approval",
         mode = "enforce", l.kind = "call", Judge(l), claims' = claims,
         judging' = judging, mode' = mode
  PROVE  /\ SpansInv' /\ Asked' \subseteq Asked
         /\ HeldTyped' /\ HeldTaken' /\ ServerTyped' /\ ClientTyped'
<1>1. TypeOK /\ HeldTyped /\ ServerTyped /\ ClientTyped
  BY TypeParts DEF SessionInv
<1>2. held' = Idle => HeldTyped' /\ HeldTaken'
  BY DEF HeldTyped, HeldTaken
<1>3. toServer' = toServer /\ owed' = owed => ServerTyped'
  BY <1>1 DEF ServerTyped
<1>4. toClient' = toClient => ClientTyped'
  BY <1>1 DEF ClientTyped, Piece, ServerMessage
<1>5. CASE ForwardTracked(l)
  <2>1. SpansInv' /\ Asked' \subseteq Asked
    BY <1>5, SpanTracked DEF ForwardTracked
  <2> QED
    BY <1>1, <1>2, <1>4, <1>5, <2>1, Pushing DEF ForwardTracked
<1>6. CASE ForwardUntracked(l)
  <2>1. SpansInv' /\ Asked' \subseteq Asked
    BY <1>6, NoSpan DEF ForwardUntracked, Asked
  <2> QED
    BY <1>1, <1>2, <1>4, <1>6, <2>1, Pushing DEF ForwardUntracked
<1>7. CASE Refuse(l)
  <2>1. SpansInv' /\ Asked' \subseteq Asked
    BY <1>7, SpanDenied DEF Refuse, WriteDenial
  <2> QED
    BY <1>1, <1>2, <1>3, <1>7, <2>1, Writing DEF Refuse, WriteDenial
<1>8. CASE /\ AskForApproval(l) /\ evaluate(l.tool) = "require_approval"
           /\ claims \in {"valid", "none"}
  <2>1. SpansInv' /\ Asked' \subseteq Asked
    BY <1>8, SpanHeld DEF AskForApproval
  <2>2. HeldTyped' /\ HeldTaken'
    <3>1. l.id \in Nat
      BY LineFields
    <3>2. Len(Started(l.id, "client")) \in DOMAIN Started(l.id, "client")
      BY <1>1, <3>1, Starting
    <3>3. NewSpan(spans') \in DOMAIN spans'
      BY <1>8, <3>2 DEF AskForApproval, NewSpan
    <3>4. held' = [phase |-> "approval", line |-> l, span |-> NewSpan(spans')]
      BY <1>8 DEF AskForApproval
    <3>5. HeldTyped'
      BY <3>3, <3>4 DEF HeldTyped
    <3>6. HeldTaken'
      BY <3>4 DEF HeldTaken, Fresh
    <3> QED
      BY <3>5, <3>6
  <2> QED
    BY <1>3, <1>4, <1>8, <2>1, <2>2 DEF AskForApproval
<1>9. Throws(l.tool) \/ claims \in {"valid", "none"}
  BY <1>1, InterceptorAssumption DEF TypeOK, Throws
<1> QED
  BY <1>5, <1>6, <1>7, <1>8, <1>9 DEF Judge

\* Reading a line in either mode: it is fresh, and the lines that wait stay in
\* order.
LEMMA Reading ==
  ASSUME SessionInv, held = Idle, input # <<>>, input' = Tail(input), sent' = sent
  PROVE  /\ Head(input) \in Lines /\ input' \in Seq(Lines)
         /\ Fresh(Head(input)) /\ LinesInOrder'
<1>1. /\ Head(input) \in Lines /\ input' \in Seq(Lines)
      /\ Taken \in Nat /\ Taken' = Taken + 1
      /\ Head(input).id = Taken + 1
      /\ LinesInOrder'
  BY TakeLine DEF SessionInv
<1>2. Head(input).id \in 1..MaxSent
  BY <1>1, LineFields
<1>3. \A s \in DOMAIN spans :
         spans[s].from = "client" => spans[s].id < Head(input).id
  <2>1. \A s \in DOMAIN spans : spans[s].id \in Nat
    BY SpanTypes DEF SessionInv
  <2> QED
    BY <1>1, <2>1 DEF SessionInv, SpansInv, ClientSpansTaken
<1> QED
  BY <1>1, <1>2, <1>3 DEF Fresh

\* The sidecar's own steps in enforce mode.
LEMMA EnforceKeeps ==
  ASSUME SessionInv, Enforce
  PROVE  SessionInv'
<1>1. /\ TypeOK /\ HeldTyped /\ ServerTyped /\ ClientTyped /\ RestTyped
      /\ mode = "enforce" /\ mode' = mode /\ judging' = judging
  BY TypeParts DEF SessionInv, Enforce, sessionVars
<1>2. ASSUME stage' = stage, claims' = claims, sent' = sent,
             claimsValidated' \in BOOLEAN, partial' = partial,
             input' \in Seq(Lines), LinesInOrder', Asked' \subseteq Asked,
             SpansInv', HeldTyped', HeldTaken', ServerTyped', ClientTyped'
      PROVE  SessionInv'
  <2>1. RestTyped'
    BY <1>1, <1>2 DEF RestTyped, ServerMessage
  <2>2. TypeOK'
    BY <1>2, <2>1, TypeParts DEF SpansInv
  <2>3. PartialUnseen'
    BY <1>1, <1>2 DEF SessionInv, PartialUnseen
  <2>4. ModesApart'
    BY <1>1 DEF SessionInv, ModesApart
  <2> QED
    BY <1>2, <2>2, <2>3, <2>4 DEF SessionInv
<1>3. held' = Idle => HeldTyped' /\ HeldTaken'
  BY DEF HeldTyped, HeldTaken
<1>4. toServer' = toServer /\ owed' = owed => ServerTyped'
  BY <1>1 DEF ServerTyped
<1>5. toClient' = toClient => ClientTyped'
  BY <1>1 DEF ClientTyped, Piece, ServerMessage
<1>6. input' = input /\ sent' = sent => LinesInOrder' /\ Taken' = Taken
  BY DEF SessionInv, LinesInOrder, Taken
<1>7. CASE ReadLine
  <2> DEFINE l == Head(input)
  <2>1. /\ held = Idle /\ input # <<>> /\ input' = Tail(input) /\ sent' = sent
        /\ Handle(l)
        /\ claims' = claims /\ claimsValidated' = claimsValidated
        /\ partial' = partial /\ stage' = stage
    BY <1>7 DEF ReadLine
  <2>2. /\ l \in Lines /\ input' \in Seq(Lines) /\ Fresh(l)
        /\ LinesInOrder' /\ claimsValidated' \in BOOLEAN
        /\ held.phase # "approval"
    BY <1>1, <2>1, Reading DEF RestTyped, Idle
  <2> HIDE DEF l
  <2>3. CASE l.kind = "other" /\ ForwardUntracked(l)
    <3>1. SpansInv' /\ Asked' \subseteq Asked
      BY <1>1, <2>1, <2>2, <2>3, NoSpan DEF ForwardUntracked, Asked
    <3> QED
      BY <1>1, <1>2, <1>3, <1>5, <2>1, <2>2, <2>3, <3>1, Pushing
         DEF ForwardUntracked
  <2>4. CASE l.kind = "request" /\ ForwardTracked(l)
    <3>1. SpansInv' /\ Asked' \subseteq Asked
      BY <1>1, <2>1, <2>2, <2>4, SpanTracked DEF ForwardTracked
    <3> QED
      BY <1>1, <1>2, <1>3, <1>5, <2>1, <2>2, <2>4, <3>1, Pushing
         DEF ForwardTracked
  <2>5. CASE l.kind = "call" /\ Judge(l)
    BY <1>1, <1>2, <2>1, <2>2, <2>5, Judging
  <2>6. CASE /\ l.kind = "call"
             /\ held' = [phase |-> "claims", line |-> l]
             /\ UNCHANGED <<toServer, owed, toClient, pendingSpans, spans>>
    <3>1. SpansInv' /\ Asked' \subseteq Asked
      BY <1>1, <2>1, <2>2, <2>6, NoSpan DEF Asked
    <3>2. HeldTyped'
      BY <2>2, <2>6 DEF HeldTyped
    <3>3. HeldTaken'
      BY <1>1, <2>2, <2>6 DEF HeldTaken, Fresh
    <3> QED
      BY <1>1, <1>2, <1>4, <1>5, <2>1, <2>2, <2>6, <3>1, <3>2, <3>3
  <2> QED
    BY <2>1, <2>3, <2>4, <2>5, <2>6 DEF Handle
<1>8. CASE ClaimsResolved
  <2> DEFINE l == held.line
  <2>1. /\ held.phase = "claims" /\ claimsValidated' \in BOOLEAN
        /\ Judge(l)
        /\ input' = input /\ sent' = sent /\ claims' = claims
        /\ partial' = partial /\ stage' = stage
    BY <1>8 DEF ClaimsResolved
  <2>2. held # Idle /\ l \in Lines
    BY <1>1, <2>1 DEF HeldTyped, Idle
  <2>3. l.kind = "call" /\ l.id = Taken /\ l.id \in 1..MaxSent
    BY <2>2, LineFields DEF SessionInv, HeldTaken
  <2>4. Fresh(l)
    <3>1. /\ \A s \in DOMAIN spans : spans[s].id \in Nat
          /\ l.id \in Nat
      BY <1>1, <2>2, SpanTypes, LineFields
    <3>2. \A s \in DOMAIN spans : spans[s].from = "client" =>
             spans[s].id <= Taken /\ spans[s].id # l.id
      BY <2>1 DEF SessionInv, SpansInv, ClientSpansTaken, HeldForClaims
    <3> QED
      BY <1>6, <2>1, <2>3, <3>1, <3>2 DEF Fresh
  <2> HIDE DEF l
  <2>5. input' \in Seq(Lines)
    BY <1>1, <2>1 DEF RestTyped
  <2> QED
    BY <1>1, <1>2, <1>6, <2>1, <2>2, <2>3, <2>4, <2>5, Judging
<1>9. CASE Approved
  <2>1. /\ held.phase = "approval" /\ held' = Idle /\ Push(held.line)
        /\ input' = input /\ sent' = sent /\ claims' = claims
        /\ claimsValidated' = claimsValidated /\ toClient' = toClient
        /\ partial' = partial /\ stage' = stage
        /\ spans' = SpansOnceApproved
        /\ pendingSpans' = Track(held.line.id, NewSpan(spans'))
    BY <1>9 DEF Approved
  <2>2. held.line \in Lines
    BY <1>1, <2>1 DEF HeldTyped, Idle
  <2>3. SpansInv' /\ Asked' \subseteq Asked
    BY <1>1, <1>6, <2>1, SpanApproved
  <2>4. input' \in Seq(Lines) /\ claimsValidated' \in BOOLEAN
    BY <1>1, <2>1 DEF RestTyped
  <2> QED
    BY <1>1, <1>2, <1>3, <1>5, <1>6, <2>1, <2>2, <2>3, <2>4, Pushing
<1>10. CASE NotApproved
  <2>1. /\ held.phase = "approval" /\ held' = Idle
        /\ toClient' = Append(toClient, [piece |-> "whole",
                                         msg |-> Denial(held.line)])
        /\ toServer' = toServer /\ owed' = owed
        /\ input' = input /\ sent' = sent /\ claims' = claims
        /\ claimsValidated' = claimsValidated
        /\ partial' = partial /\ stage' = stage
        /\ spans' = EndSpan(spans, held.span, "denied")
        /\ pendingSpans' = pendingSpans
    BY <1>10 DEF NotApproved, WriteDenial
  <2>2. held.line \in Lines
    BY <1>1, <2>1 DEF HeldTyped, Idle
  <2>3. SpansInv' /\ Asked' \subseteq Asked
    BY <1>1, <1>6, <2>1, SpanNotApproved
  <2>4. input' \in Seq(Lines) /\ claimsValidated' \in BOOLEAN
    BY <1>1, <2>1 DEF RestTyped
  <2>5. ClientTyped'
    BY <1>1, <2>1, <2>2, Writing
  <2> QED
    BY <1>1, <1>2, <1>3, <1>4, <1>6, <2>1, <2>3, <2>4, <2>5
<1> QED
  BY <1>7, <1>8, <1>9, <1>10 DEF Enforce, Sidecar

\* The server's messages: what it answers is owed, what it asks is new.
LEMMA ServerMessages ==
  ASSUME TypeOK, NEW m \in ServerLines
  PROVE  /\ m \in ServerMessage
         /\ m.kind = "request" => m.id \in ServerIds \ Asked
<1>1. owed \subseteq Nat /\ ServerIds \subseteq Nat
  BY InterceptorAssumption DEF TypeOK
<1>2. CASE \E id \in owed : m = Response(id)
  BY <1>1, <1>2 DEF Response, ServerMessage
<1>3. CASE \E id \in ServerIds \ Asked : m = ServerRequest(id)
  BY <1>1, <1>3 DEF ServerRequest, ServerMessage
<1> QED
  BY <1>2, <1>3 DEF ServerLines

\* A line of the server has arrived completely.
LEMMA ServerHandled ==
  ASSUME SessionInv, NEW m \in ServerMessage,
         m.kind = "request" => m.id \in ServerIds \ Asked,
         HandleServer(m), NEW p \in {"whole", "tail"},
         toClient' = Append(toClient, [piece |-> p, msg |-> m]), partial' = Idle,
         UNCHANGED <<input, sent, held, claims, claimsValidated, toServer, stage,
                     mode, judging>>
  PROVE  SessionInv'
<1>1. /\ TypeOK /\ HeldTyped /\ ServerTyped /\ ClientTyped /\ RestTyped
  BY TypeParts DEF SessionInv
<1>2. Taken' = Taken
  BY DEF Taken
<1>3. SpansInv' /\ owed' \subseteq owed
  <2>1. CASE m.kind = "response" /\ m.id \in DOMAIN pendingSpans
    <3>1. /\ spans' = EndSpan(spans, pendingSpans[m.id], "answered")
          /\ pendingSpans' = Untrack(m.id) /\ owed' \subseteq owed
      BY <2>1 DEF HandleServer
    <3> QED
      BY <1>1, <1>2, <2>1, <3>1, SpanEnded
  <2>2. CASE m.kind = "response" /\ m.id \notin DOMAIN pendingSpans
    <3>1. spans' = spans /\ pendingSpans' = pendingSpans /\ owed' \subseteq owed
      BY <2>2 DEF HandleServer
    <3> QED
      BY <1>1, <1>2, <3>1, NothingHappens
  <2>3. CASE m.kind = "request"
    <3>1. /\ spans' = Started(m.id, "server")
          /\ pendingSpans' = Track(m.id, NewSpan(spans')) /\ owed' = owed
      BY <2>3 DEF HandleServer
    <3> QED
      BY <1>1, <1>2, <2>3, <3>1, SpanOfServer
  <2> QED
    BY <2>1, <2>2, <2>3 DEF HandleServer
<1>4. HeldTyped'
  <2>1. held.phase = "approval" => held.span \in DOMAIN spans'
    <3>1. held.phase = "approval" => held.span \in DOMAIN spans
      BY <1>1, SpanTypes
    <3>2. DOMAIN spans \subseteq DOMAIN spans'
      <4>1. ASSUME m.kind = "response", m.id \in DOMAIN pendingSpans
            PROVE  DOMAIN spans \subseteq DOMAIN spans'
        <5>1. spans' = EndSpan(spans, pendingSpans[m.id], "answered")
          BY <4>1 DEF HandleServer
        <5>2. spans \in Seq(Span) /\ pendingSpans[m.id] \in DOMAIN spans
          BY <1>1, <4>1, SpanTypes
        <5> QED
          BY <5>1, <5>2, EndingStep DEF Ends
      <4>2. ASSUME m.kind = "request"
            PROVE  DOMAIN spans \subseteq DOMAIN spans'
        <5>1. spans' = Started(m.id, "server") /\ m.id \in Nat
          BY <4>2, InterceptorAssumption DEF HandleServer
        <5> QED
          BY <1>1, <5>1, Starting
      <4> QED
        BY <4>1, <4>2 DEF HandleServer
    <3> QED
      BY <3>1, <3>2
  <2> QED
    BY <1>1, <2>1 DEF HeldTyped, Idle
<1>5. ServerTyped'
  BY <1>1, <1>3 DEF ServerTyped
<1>6. ClientTyped'
  BY <1>1, Writing
<1>7. RestTyped'
  BY <1>1 DEF RestTyped
<1>8. TypeOK'
  BY <1>3, <1>4, <1>5, <1>6, <1>7, TypeParts DEF SpansInv
<1>9. LinesInOrder' /\ HeldTaken' /\ ModesApart'
  BY <1>1, <1>2 DEF SessionInv, LinesInOrder, HeldTaken, ModesApart
<1>10. PartialUnseen'
  BY DEF PartialUnseen
<1> QED
  BY <1>3, <1>8, <1>9, <1>10 DEF SessionInv

\* A step that leaves spans, input and what is held alone keeps the rest, too.
LEMMA QuietSteps ==
  ASSUME SessionInv, SpansInv', held' = held, sent' = sent, input' = input,
         DOMAIN spans' = DOMAIN spans, Asked' \subseteq Asked,
         claims' = claims, claimsValidated' \in BOOLEAN,
         toServer' = toServer, owed' = owed,
         stage' \in {"up", "draining", "over"},
         mode' = mode, judging' \subseteq judging,
         \/ toClient' = toClient /\ partial' = partial
         \/ \E m \in ServerLines : /\ mode = "enforce"
                                   /\ toClient' = Append(toClient,
                                         [piece |-> "head", msg |-> m])
                                   /\ partial' = [phase |-> "partial", msg |-> m]
  PROVE  SessionInv'
<1>1. /\ TypeOK /\ HeldTyped /\ ServerTyped /\ ClientTyped /\ RestTyped
  BY TypeParts DEF SessionInv
<1>2. HeldTyped' /\ ServerTyped'
  BY <1>1 DEF HeldTyped, ServerTyped
<1>3. ClientTyped' /\ RestTyped' /\ PartialUnseen'
  <2>1. CASE toClient' = toClient /\ partial' = partial
    BY <1>1, <2>1 DEF ClientTyped, RestTyped, Piece, SessionInv, PartialUnseen
  <2>2. ASSUME NEW m \in ServerLines, mode = "enforce",
               toClient' = Append(toClient, [piece |-> "head", msg |-> m]),
               partial' = [phase |-> "partial", msg |-> m]
        PROVE  ClientTyped' /\ RestTyped' /\ PartialUnseen'
    <3>1. m \in ServerMessage /\ (m.kind = "request" => m.id \in ServerIds \ Asked)
      BY <1>1, ServerMessages
    <3>2. ClientTyped'
      BY <1>1, <2>2, <3>1, Writing
    <3>3. RestTyped'
      BY <1>1, <2>2, <3>1 DEF RestTyped
    <3>4. PartialUnseen'
      BY <2>2, <3>1 DEF PartialUnseen
    <3> QED
      BY <3>2, <3>3, <3>4
  <2> QED
    BY <2>1, <2>2
<1>4. TypeOK'
  BY <1>2, <1>3, TypeParts DEF SpansInv
<1>5. Taken' = Taken
  BY DEF Taken
<1>6. LinesInOrder' /\ HeldTaken' /\ ModesApart'
  BY <1>5 DEF SessionInv, LinesInOrder, HeldTaken, ModesApart
<1> QED
  BY <1>3, <1>4, <1>6 DEF SessionInv

\* The client sends its next line.
LEMMA ClientSendsKeeps ==
  ASSUME SessionInv, NEW l \in Lines, ClientSends(l), UNCHANGED sessionVars
  PROVE  SessionInv'
<1>1. /\ TypeOK /\ HeldTyped /\ ServerTyped /\ ClientTyped /\ RestTyped
      /\ mode' = mode /\ judging' = judging
  BY TypeParts DEF SessionInv, sessionVars
<1>2. /\ l.id = sent + 1 /\ sent' = l.id /\ input' = Append(input, l)
      /\ held' = held /\ claims' = claims /\ claimsValidated' = claimsValidated
      /\ toServer' = toServer /\ owed' = owed /\ toClient' = toClient
      /\ partial' = partial /\ pendingSpans' = pendingSpans /\ spans' = spans
      /\ stage' = stage
  BY DEF ClientSends
<1>3. input \in Seq(Lines) /\ sent \in Nat /\ Len(input) \in Nat
  BY <1>1, InterceptorAssumption DEF RestTyped
<1>4. /\ input' \in Seq(Lines) /\ Len(input') = Len(input) + 1
      /\ \A i \in 1..Len(input) : input'[i] = input[i]
      /\ input'[Len(input) + 1] = l
  BY <1>2, <1>3
<1>5. Taken' = Taken
  BY <1>2, <1>3, <1>4 DEF Taken
<1>6. SpansInv'
  BY <1>1, <1>2, <1>5, NothingHappens
<1>7. LinesInOrder'
  <2>1. Len(input') <= sent'
    BY <1>2, <1>3, <1>4 DEF SessionInv, LinesInOrder
  <2>2. ASSUME NEW i \in 1..Len(input')
        PROVE  input'[i].id = Taken' + i
    <3>1. CASE i \in 1..Len(input)
      BY <1>4, <1>5, <3>1 DEF SessionInv, LinesInOrder
    <3>2. CASE i = Len(input) + 1
      BY <1>2, <1>3, <1>4, <1>5, <3>2 DEF Taken
    <3> QED
      BY <1>3, <1>4, <3>1, <3>2
  <2> QED
    BY <2>1, <2>2 DEF LinesInOrder
<1>8. RestTyped'
  <2>1. sent' \in 0..MaxSent
    BY <1>2, LineFields
  <2> QED
    BY <1>1, <1>2, <1>4, <2>1 DEF RestTyped, Lines, LinesNumbered, ServerMessage
<1>9. HeldTyped' /\ ServerTyped' /\ ClientTyped'
  BY <1>1, <1>2 DEF HeldTyped, ServerTyped, ClientTyped, Piece
<1>10. TypeOK'
  BY <1>6, <1>8, <1>9, TypeParts DEF SpansInv
<1>11. HeldTaken' /\ ModesApart' /\ PartialUnseen'
  BY <1>1, <1>2, <1>5 DEF SessionInv, HeldTaken, ModesApart, PartialUnseen, Asked
<1> QED
  BY <1>6, <1>7, <1>10, <1>11 DEF SessionInv

\* Monitor mode: a line passes and a call among them is judged later.
LEMMA PassthroughKeeps ==
  ASSUME SessionInv, Passthrough
  PROVE  SessionInv'
<1> DEFINE l == Head(input)
<1>1. /\ TypeOK /\ HeldTyped /\ ServerTyped /\ ClientTyped /\ RestTyped
  BY TypeParts DEF SessionInv
<1>2. /\ mode = "monitor" /\ mode' = mode /\ input # <<>> /\ input' = Tail(input)
      /\ Push(l) /\ sent' = sent /\ held' = held /\ claims' = claims
      /\ claimsValidated' = claimsValidated /\ toClient' = toClient
      /\ partial' = partial /\ stage' = stage
  BY DEF Passthrough
<1>3. held = Idle /\ held.phase # "approval" /\ held' = Idle
  BY <1>2 DEF SessionInv, HeldTaken, Idle
<1>4. l \in Lines /\ input' \in Seq(Lines) /\ Fresh(l) /\ LinesInOrder'
  BY <1>2, <1>3, Reading
<1>5. \/ /\ l.kind = "other" /\ judging' = judging
         /\ spans' = spans /\ pendingSpans' = pendingSpans
      \/ /\ spans' = Started(l.id, "client")
         /\ pendingSpans' = Track(l.id, NewSpan(spans'))
         /\ judging' \subseteq judging \cup {l}
  BY DEF Passthrough
<1> HIDE DEF l
<1>6. SpansInv' /\ Asked' \subseteq Asked
  BY <1>2, <1>3, <1>4, <1>5, NoSpan, SpanTracked DEF Asked
<1>7. HeldTyped' /\ HeldTaken'
  BY <1>3 DEF HeldTyped, HeldTaken
<1>8. ServerTyped'
  BY <1>1, <1>2, <1>4, Pushing
<1>9. ClientTyped' /\ RestTyped'
  BY <1>1, <1>2, <1>4 DEF ClientTyped, RestTyped, Piece
<1>10. TypeOK'
  BY <1>6, <1>7, <1>8, <1>9, TypeParts DEF SpansInv
<1>11. PartialUnseen' /\ ModesApart'
  BY <1>2, <1>6 DEF SessionInv, PartialUnseen, ModesApart
<1> QED
  BY <1>4, <1>6, <1>7, <1>10, <1>11 DEF SessionInv

\* Every step of a session keeps the invariant.
LEMMA SessionKeeps ==
  ASSUME SessionInv, [SessionNext]_allVars
  PROVE  SessionInv'
<1>1. TypeOK /\ RestTyped
  BY TypeParts DEF SessionInv
<1>2. ASSUME spans' = spans, pendingSpans' = pendingSpans, held' = held,
             sent' = sent, input' = input, judging' \subseteq judging,
             claims' = claims, mode' = mode
      PROVE  SpansInv' /\ Asked' = Asked /\ DOMAIN spans' = DOMAIN spans
  <2>1. Taken' = Taken
    BY <1>2 DEF Taken
  <2> QED
    BY <1>2, <2>1, NothingHappens DEF Asked
<1>3. CASE UNCHANGED allVars
  BY <1>1, <1>2, <1>3, QuietSteps DEF allVars, vars, sessionVars, RestTyped
<1>4. ASSUME NEW l \in Lines, ClientSends(l) /\ UNCHANGED sessionVars
      PROVE  SessionInv'
  BY <1>4, ClientSendsKeeps
<1>5. CASE Enforce
  BY <1>5, EnforceKeeps
<1>6. CASE Passthrough
  BY <1>6, PassthroughKeeps
<1>7. ASSUME NEW l \in judging, Judged(l)
      PROVE  SessionInv'
  BY <1>1, <1>2, <1>7, QuietSteps DEF Judged, RestTyped
<1>8. ASSUME NEW m \in ServerLines, ServerLine(m) /\ UNCHANGED sessionVars
      PROVE  SessionInv'
  BY <1>1, <1>8, ServerMessages, ServerHandled DEF ServerLine, sessionVars
<1>9. CASE Chunk
  <2>1. ASSUME NEW m \in ServerLines, ServerHead(m)
        PROVE  SessionInv'
    BY <1>1, <1>2, <1>9, <2>1, QuietSteps DEF Chunk, ServerHead, sessionVars, RestTyped
  <2>2. CASE ServerTail
    <3>1. /\ partial # Idle /\ partial' = Idle /\ HandleServer(partial.msg)
          /\ toClient' = Append(toClient, [piece |-> "tail", msg |-> partial.msg])
          /\ UNCHANGED <<input, sent, held, claims, claimsValidated, toServer,
                         stage, mode, judging>>
      BY <1>9, <2>2 DEF Chunk, ServerTail, sessionVars
    <3>2. partial.msg \in ServerMessage
      BY <1>1, <3>1 DEF RestTyped
    <3>3. partial.msg.kind = "request" => partial.msg.id \in ServerIds \ Asked
      BY <3>1 DEF SessionInv, PartialUnseen
    <3> QED
      BY <3>1, <3>2, <3>3, ServerHandled
  <2> QED
    BY <1>9, <2>1, <2>2 DEF Chunk
<1>10. ASSUME NEW id \in DOMAIN pendingSpans, Reaper(id)
       PROVE  SessionInv'
  <2>1. /\ spans' = EndSpan(spans, pendingSpans[id], "timeout")
        /\ pendingSpans' = Untrack(id)
        /\ UNCHANGED <<input, sent, held, claims, claimsValidated, toServer, owed,
                       toClient, partial, stage, sessionVars>>
    BY <1>10 DEF Reaper, Reap
  <2>2. mode' = mode /\ judging' = judging /\ Taken' = Taken
    BY <2>1 DEF sessionVars, Taken
  <2>3. SpansInv' /\ Asked' \subseteq Asked
    BY <2>1, <2>2, SpanEnded
  <2>4. DOMAIN spans' = DOMAIN spans
    <3>1. spans \in Seq(Span) /\ pendingSpans[id] \in DOMAIN spans
      BY <1>1, SpanTypes
    <3> QED
      BY <2>1, <3>1, EndingStep DEF Ends
  <2> QED
    BY <1>1, <2>1, <2>2, <2>3, <2>4, QuietSteps DEF RestTyped
<1>11. CASE Stop
  BY <1>1, <1>2, <1>11, QuietSteps DEF Stop, vars, RestTyped
<1>12. CASE GiveUp
  BY <1>1, <1>2, <1>12, QuietSteps DEF GiveUp, RestTyped
<1>13. CASE Exit
  <2>1. SpansInv' /\ Asked' \subseteq Asked
    BY <1>13, SpansAtExit DEF Exit, sessionVars
  <2>2. DOMAIN spans' = DOMAIN spans
    BY <1>13 DEF Exit, ChildExit
  <2> QED
    BY <1>1, <1>13, <2>1, <2>2, QuietSteps DEF Exit, ChildExit, sessionVars, RestTyped
<1>14. CASE Leave /\ UNCHANGED sessionVars
  BY <1>1, <1>2, <1>14, QuietSteps DEF Leave, sessionVars, RestTyped
<1> QED
  BY <1>3, <1>4, <1>5, <1>6, <1>7, <1>8, <1>9, <1>10, <1>11, <1>12, <1>13, <1>14
     DEF SessionNext

\* Every session starts with it.
LEMMA SessionStarts ==
  ASSUME SessionInit
  PROVE  SessionInv
<1>1. /\ input = <<>> /\ sent = 0 /\ held = Idle /\ toServer = <<>> /\ owed = {}
      /\ toClient = <<>> /\ partial = Idle /\ pendingSpans = [id \in {} |-> 0]
      /\ spans = <<>> /\ stage = "up" /\ claims \in Tokens
      /\ claimsValidated = FALSE /\ mode \in Modes /\ judging = {}
  BY DEF SessionInit, Init
<1>2. /\ DOMAIN spans = {} /\ DOMAIN pendingSpans = {} /\ Len(input) = 0
      /\ input \in Seq(Lines) /\ toServer \in Seq(Lines) /\ spans \in Seq(Span)
      /\ toClient \in Seq(Piece)
  BY <1>1
<1>3. HeldTyped /\ ServerTyped /\ ClientTyped /\ RestTyped /\ SpansTyped
  <2>1. HeldTyped /\ ServerTyped /\ ClientTyped
    BY <1>1, <1>2 DEF HeldTyped, ServerTyped, ClientTyped
  <2>2. SpansTyped
    BY <1>2 DEF SpansTyped
  <2>3. sent \in 0..MaxSent
    BY <1>1, InterceptorAssumption
  <2>4. RestTyped
    BY <1>1, <1>2, <2>3 DEF RestTyped
  <2> QED
    BY <2>1, <2>2, <2>4
<1>4. LinesInOrder
  BY <1>1, <1>2 DEF LinesInOrder
<1>5. HeldTaken /\ PartialUnseen /\ ModesApart
  BY <1>1 DEF HeldTaken, PartialUnseen, ModesApart
<1>6. SpansInv
  BY <1>1, <1>2, <1>3 DEF SpansInv, ClientSpansTaken, PendingOpen, OpenTracked,
     HeldForClaims, HeldForApproval, LatestTracked, JudgedHaveSpans, Idle
<1> QED
  BY <1>3, <1>4, <1>5, <1>6, TypeParts DEF SessionInv

-----------------------------------------------------------------------------
(* The theorems about spans *)

\* The invariant holds of every session.
THEOREM SessionInvariant == SessionSpec => []SessionInv
<1>1. SessionInit => SessionInv
  BY SessionStarts
<1>2. SessionInv /\ [SessionNext]_allVars => SessionInv'
  BY SessionKeeps
<1> QED
  BY <1>1, <1>2, PTL DEF SessionSpec

\* Every variable always has its type.
THEOREM TypeCorrect == SessionSpec => []TypeOK
<1>1. SessionInv => TypeOK
  BY DEF SessionInv
<1> QED
  BY <1>1, SessionInvariant, PTL

\* pendingSpans holds exactly the spans that are open, each under its own id, but
\* for the one of a held call and those that were displaced.
THEOREM OpenSpansAreTracked == SessionSpec => []OpenSpansTracked
<1>1. SessionInv => OpenSpansTracked
  BY DEF SessionInv, SpansInv, PendingOpen, OpenTracked, OpenSpansTracked
<1> QED
  BY <1>1, SessionInvariant, PTL

\* What is noted late is noted on an open span of the call's id, the call's own
\* or one of the server that came after it.
LEMMA LateNotes ==
  ASSUME SessionInv, NEW l \in judging, Judged(l), NEW n \in noted' \ noted
  PROVE  /\ spans'[n.span].id = n.call
         /\ spans'[n.span].end = "open"
         /\ spans'[n.span].from = "server" =>
               \E s \in 1..n.span - 1 :
                   spans'[s].id = n.call /\ spans'[s].from = "client"
<1> DEFINE t == pendingSpans[l.id]
<1>1. l.id \in DOMAIN pendingSpans /\ n = [call |-> l.id, span |-> t]
  BY DEF Judged, Noted
<1>2. spans' = spans /\ n.call = l.id /\ n.span = t
  BY <1>1 DEF Judged
<1>3. spans[t].id = l.id /\ spans[t].end = "open"
  BY <1>1 DEF SessionInv, SpansInv, PendingOpen
<1>4. TypeOK /\ mode = "monitor"
  BY DEF SessionInv, ModesApart, Modes
<1>5. PICK s \in DOMAIN spans : spans[s].from = "client" /\ spans[s].id = l.id
  BY DEF SessionInv, SpansInv, JudgedHaveSpans
<1>6. s <= t
  BY <1>1, <1>4, <1>5 DEF SessionInv, SpansInv, LatestTracked
<1>7. t \in Nat /\ s \in Nat /\ 1 <= s
  BY <1>1, <1>4, <1>5, SpanTypes
<1>8. ASSUME spans[t].from = "server"
      PROVE  s \in 1..t - 1
  <2>1. s # t
    BY <1>5, <1>8
  <2> QED
    BY <1>6, <1>7, <2>1
<1> HIDE DEF t
<1> QED
  BY <1>2, <1>3, <1>5, <1>8

\* However late the validation is, the decision on a call is noted on a span that
\* is still open: the call's own or a later one of the server.
THEOREM NotesAlwaysFit == SessionSpec => NotesFit
<1> DEFINE Fits(n) ==
             /\ spans'[n.span].id = n.call
             /\ spans'[n.span].end = "open"
             /\ spans'[n.span].from = "server" =>
                   \E s \in 1..n.span - 1 :
                       spans'[s].id = n.call /\ spans'[s].from = "client"
<1>1. ASSUME SessionInv, [SessionNext]_allVars, NEW n \in noted' \ noted
      PROVE  Fits(n)
  <2>1. CASE \E l \in judging : Judged(l)
    BY <1>1, <2>1, LateNotes
  <2>2. CASE Passthrough
    <3> DEFINE l == Head(input)
    <3>1. /\ spans' = Started(l.id, "client")
          /\ pendingSpans' = Track(l.id, NewSpan(spans'))
          /\ noted' = Noted(l, pendingSpans')
      BY <1>1, <2>2 DEF Passthrough
    <3>2. l.id \in Nat
      <4>1. held = Idle /\ input # <<>> /\ input' = Tail(input) /\ sent' = sent
        BY <1>1, <2>2 DEF Passthrough, SessionInv, HeldTaken
      <4>2. l \in Lines
        BY <1>1, <4>1, Reading
      <4> QED
        BY <4>2, LineFields
    <3> HIDE DEF l
    <3>3. pendingSpans'[l.id] = NewSpan(spans')
      BY <3>1 DEF Track
    <3>4. n = [call |-> l.id, span |-> NewSpan(spans')]
      BY <1>1, <3>1, <3>3 DEF Noted
    <3>5. n.call = l.id /\ n.span = NewSpan(spans')
      BY <3>4
    <3>6. /\ NewSpan(spans') = Len(spans) + 1
          /\ spans'[Len(spans) + 1].id = l.id
          /\ spans'[Len(spans) + 1].from = "client"
          /\ spans'[Len(spans) + 1].end = "open"
      BY <1>1, <3>1, <3>2, Starting DEF SessionInv, NewSpan
    <3> QED
      BY <3>5, <3>6
  <2>3. CASE noted' = noted
    BY <1>1, <2>3
  <2>4. (\E l \in judging : Judged(l)) \/ Passthrough \/ noted' = noted
    BY <1>1 DEF SessionNext, allVars, sessionVars, Enforce, Chunk, Reaper, Stop,
                GiveUp, Exit
  <2> QED
    BY <2>1, <2>2, <2>3, <2>4
<1>2. SessionInv /\ [SessionNext]_allVars =>
         [\A n \in noted' \ noted : Fits(n)]_allVars
  BY <1>1
<1> QED
  BY <1>2, SessionInvariant, PTL DEF SessionSpec, NotesFit

-----------------------------------------------------------------------------
(* The sidecar implements the filter *)

\* What MessageFilter's variables stand for.
Ruling  == RulingWith(mode, claims)
Waiting == IF held = Idle THEN input ELSE <<held.line>> \o input
Refused == {toClient[i].msg.line : i \in {j \in DOMAIN toClient : IsDenial(j)}}

\* The filter's steps in these terms.
FilterDelivers ==
    /\ childUp /\ Waiting # <<>> /\ "pass" \in Ruling[Head(Waiting)]
    /\ Waiting' = Tail(Waiting) /\ toServer' = Append(toServer, Head(Waiting))
    /\ Ruling' = Ruling /\ Refused' = Refused /\ childUp' = childUp

FilterRefuses ==
    /\ Waiting # <<>> /\ "refuse" \in Ruling[Head(Waiting)]
    /\ Waiting' = Tail(Waiting) /\ Refused' = Refused \cup {Head(Waiting)}
    /\ Ruling' = Ruling /\ toServer' = toServer /\ childUp' = childUp

FilterLoses ==
    /\ ~childUp /\ Waiting # <<>> /\ "pass" \in Ruling[Head(Waiting)]
    /\ Waiting' = Tail(Waiting)
    /\ Ruling' = Ruling /\ toServer' = toServer /\ Refused' = Refused
    /\ childUp' = childUp

FilterSends(l) ==
    /\ childUp /\ Waiting' = Append(Waiting, l)
    /\ Ruling' = Ruling /\ toServer' = toServer /\ Refused' = Refused
    /\ childUp' = childUp

FilterExits ==
    /\ childUp /\ childUp' = FALSE
    /\ Ruling' = Ruling /\ Waiting' = Waiting /\ toServer' = toServer
    /\ Refused' = Refused

FilterStutters ==
    /\ Ruling' = Ruling /\ Waiting' = Waiting /\ toServer' = toServer
    /\ Refused' = Refused /\ childUp' = childUp

FilterStep ==
    \/ FilterDelivers \/ FilterRefuses \/ FilterLoses \/ FilterExits
    \/ FilterStutters
    \/ \E l \in Lines : FilterSends(l)

\* They are the filter's steps.
LEMMA FilterSteps ==
  ASSUME FilterStep
  PROVE  [Filter!Next]_(Filter!vars)
<1>1. CASE FilterDelivers
  <2>1. Filter!Deliver
    BY <1>1 DEF FilterDelivers, Filter!Deliver, Filter!Rules, Ruling, Waiting, Refused
  <2> QED
    BY <2>1 DEF Filter!Next
<1>2. CASE FilterRefuses
  <2>1. Filter!Refuse
    BY <1>2 DEF FilterRefuses, Filter!Refuse, Filter!Rules, Ruling, Waiting, Refused
  <2> QED
    BY <2>1 DEF Filter!Next
<1>3. CASE FilterExits
  <2>1. Filter!Exit
    BY <1>3 DEF FilterExits, Filter!Exit, Ruling, Waiting, Refused
  <2> QED
    BY <2>1 DEF Filter!Next
<1>4. CASE FilterStutters
  BY <1>4 DEF FilterStutters, Filter!vars, Ruling, Waiting, Refused
<1>5. ASSUME NEW l \in Lines, FilterSends(l)
      PROVE  Filter!Next
  <2>1. Filter!Send(l)
    BY <1>5 DEF FilterSends, Filter!Send, Ruling, Waiting, Refused
  <2> QED
    BY <2>1 DEF Filter!Next
<1>6. CASE FilterLoses
  <2>1. Filter!Lose
    BY <1>6 DEF FilterLoses, Filter!Lose, Filter!Rules, Ruling, Waiting, Refused
  <2> QED
    BY <2>1 DEF Filter!Next
<1> QED
  BY <1>1, <1>2, <1>3, <1>4, <1>5, <1>6 DEF FilterStep

\* The code's order of evaluation amounts to the ruling.
LEMMA RulingOfEvaluation ==
  ASSUME TypeOK, NEW l \in Lines
  PROVE  /\ ~Enforced(mode, claims) \/ l.kind # "call" => "pass" \in Ruling[l]
         /\ Enforced(mode, claims) /\ l.kind = "call" =>
               /\ evaluate(l.tool) \in {"allow", "throws", "require_approval"}
                     => "pass" \in Ruling[l]
               /\ evaluate(l.tool) \in {"deny", "require_approval"}
                     => "refuse" \in Ruling[l]
<1>1. Ruling[l] = IF ~Enforced(mode, claims) \/ l.kind # "call" THEN {"pass"}
                  ELSE IF DeniedWith(claims, l.tool) THEN {"refuse"}
                  ELSE IF Policy[l.tool] = "require_approval"
                       THEN {"pass", "refuse"} ELSE {"pass"}
  BY DEF Ruling, RulingWith
<1>2. ASSUME Enforced(mode, claims), l.kind = "call"
      PROVE  /\ evaluate(l.tool) \in {"allow", "throws", "require_approval"}
                   => "pass" \in Ruling[l]
             /\ evaluate(l.tool) \in {"deny", "require_approval"}
                   => "refuse" \in Ruling[l]
  <2>1. Policy[l.tool] \in PolicyActions
    BY <1>2, LineFields, InterceptorAssumption
  <2> DEFINE tool == l.tool
             p == Policy[l.tool]
  <2>2. claims \in {"valid", "none"} /\ (HasClaims <=> claims = "valid")
    BY <1>2 DEF Enforced, HasClaims
  <2>3. evaluate(tool) =
           IF claims = "valid" /\ tool \notin Scope THEN "deny"
           ELSE IF p \in {"log", "allow"}
                THEN IF claims = "valid" /\ tool \in Scope THEN "allow" ELSE "deny"
                ELSE p
    BY <2>2 DEF evaluate, mergeWithPolicy, Base
  <2>4. DeniedWith(claims, tool) <=> \/ claims = "valid" /\ tool \notin Scope
                                     \/ claims = "none" /\ p \in {"allow", "log"}
                                     \/ p = "deny"
    BY DEF DeniedWith
  <2>5. Ruling[l] = IF DeniedWith(claims, tool) THEN {"refuse"}
                    ELSE IF p = "require_approval" THEN {"pass", "refuse"}
                    ELSE {"pass"}
    BY <1>1, <1>2
  <2> HIDE DEF tool, p
  <2>6. p \in PolicyActions
    BY <2>1 DEF p
  <2>7. CASE claims = "valid"
    BY <2>3, <2>4, <2>5, <2>6, <2>7 DEF PolicyActions, tool
  <2>8. CASE claims = "none"
    BY <2>3, <2>4, <2>5, <2>6, <2>8 DEF PolicyActions, tool
  <2> QED
    BY <2>2, <2>7, <2>8
<1> QED
  BY <1>1, <1>2

\* The line that is decided on heads what waits.
LEMMA WaitingLines ==
  ASSUME TypeOK
  PROVE  /\ held = Idle => Waiting = input
         /\ held # Idle => /\ held.line \in Lines /\ Waiting \in Seq(Lines)
                           /\ Waiting # <<>>
                           /\ Head(Waiting) = held.line
                           /\ Tail(Waiting) = input
<1>1. input \in Seq(Lines) /\ (held # Idle => held.line \in Lines)
  BY DEF TypeOK
<1>2. ASSUME NEW x \in Lines
      PROVE  LET w == <<x>> \o input
             IN  w \in Seq(Lines) /\ w # <<>> /\ Head(w) = x /\ Tail(w) = input
  BY <1>1
<1> QED
  BY <1>1, <1>2 DEF Waiting

\* What is written to the client changes the refused lines only if it is a denial.
LEMMA RefusedLines ==
  ASSUME ClientTyped, NEW x \in Piece, toClient' = Append(toClient, x)
  PROVE  Refused' = IF x.msg.kind = "denial" THEN Refused \cup {x.msg.line}
                    ELSE Refused
<1> DEFINE n == Len(toClient) + 1
<1>1. /\ Len(toClient) \in Nat /\ DOMAIN toClient = 1..Len(toClient)
      /\ DOMAIN toClient' = 1..n
      /\ \A i \in 1..Len(toClient) : toClient'[i] = toClient[i]
      /\ toClient'[n] = x
  BY DEF ClientTyped
<1>2. DOMAIN toClient' = DOMAIN toClient \cup {n}
  BY <1>1
<1> HIDE DEF n
<1>3. \A i \in DOMAIN toClient : toClient'[i] = toClient[i]
  BY <1>1
<1> DEFINE D == {j \in DOMAIN toClient : toClient[j].msg.kind = "denial"}
           D1 == {j \in DOMAIN toClient' : toClient'[j].msg.kind = "denial"}
<1>4. D1 = IF x.msg.kind = "denial" THEN D \cup {n} ELSE D
  BY <1>1, <1>2, <1>3
<1>5. /\ Refused = {toClient[i].msg.line : i \in D}
      /\ Refused' = {toClient'[i].msg.line : i \in D1}
  BY DEF Refused, IsDenial
<1>6. \A i \in D : toClient'[i] = toClient[i]
  BY <1>3
<1> HIDE DEF D, D1
<1>same. {toClient'[i].msg.line : i \in D} = Refused
  <2> DEFINE before(i) == toClient[i].msg.line
             after(i) == toClient'[i].msg.line
  <2>1. \A i \in D : after(i) = before(i)
    BY <1>6
  <2>2. Refused = {before(i) : i \in D}
    BY <1>5
  <2> HIDE DEF before, after
  <2>3. {after(i) : i \in D} = {before(i) : i \in D}
    BY <2>1
  <2> QED
    BY <2>2, <2>3 DEF after
<1>7. CASE x.msg.kind = "denial"
  <2>1. D1 = D \cup {n} /\ toClient'[n] = x
    BY <1>1, <1>4, <1>7
  <2>2. Refused' = {toClient'[i].msg.line : i \in D} \cup {x.msg.line}
    BY <1>5, <2>1
  <2> QED
    BY <1>same, <1>7, <2>2
<1>8. CASE x.msg.kind # "denial"
  <2>1. Refused' = {toClient'[i].msg.line : i \in D}
    BY <1>4, <1>5, <1>8
  <2> QED
    BY <1>same, <1>8, <2>1
<1> QED
  BY <1>7, <1>8

\* What is not written to the client, or is no denial, refuses nothing.
LEMMA NothingRefused ==
  ASSUME ClientTyped,
         \/ toClient' = toClient
         \/ \E m \in ServerMessage, p \in {"whole", "head", "tail"} :
               toClient' = Append(toClient, [piece |-> p, msg |-> m])
  PROVE  Refused' = Refused
<1>1. CASE toClient' = toClient
  BY <1>1 DEF Refused, IsDenial
<1>2. ASSUME NEW m \in ServerMessage, NEW p \in {"whole", "head", "tail"},
             toClient' = Append(toClient, [piece |-> p, msg |-> m])
      PROVE  Refused' = Refused
  <2> DEFINE x == [piece |-> p, msg |-> m]
  <2>1. x \in Piece /\ x.msg = m
    BY DEF Piece
  <2>2. m.kind # "denial"
    BY DEF ServerMessage
  <2> HIDE DEF x
  <2>3. toClient' = Append(toClient, x)
    BY <1>2 DEF x
  <2> QED
    BY <2>1, <2>2, <2>3, RefusedLines
<1> QED
  BY <1>1, <1>2

\* A denial refuses its line.
LEMMA DenialRefuses ==
  ASSUME ClientTyped, NEW l \in Lines,
         toClient' = Append(toClient, [piece |-> "whole", msg |-> Denial(l)])
  PROVE  Refused' = Refused \cup {l}
<1> DEFINE x == [piece |-> "whole", msg |-> Denial(l)]
<1>1. x \in Piece /\ x.msg.kind = "denial" /\ x.msg.line = l
  BY DEF Piece, Denial
<1> HIDE DEF x
<1>2. toClient' = Append(toClient, x)
  BY DEF x
<1> QED
  BY <1>1, <1>2, RefusedLines

\* Deciding on the line that heads what waits: it is delivered or refused as it may
\* be, or goes on waiting at the head.
LEMMA DecidingSteps ==
  ASSUME SessionInv, NEW l \in Lines, stage' = stage,
         mode' = mode, claims' = claims,
         Waiting # <<>>, Waiting \in Seq(Lines), Head(Waiting) = l,
         Tail(Waiting) = input'
  PROVE  /\ Push(l) /\ held' = Idle /\ toClient' = toClient
               /\ "pass" \in Ruling[l] => FilterStep
         /\ WriteDenial(l) /\ "refuse" \in Ruling[l] => FilterStep
         /\ held' # Idle /\ held'.line = l /\ toServer' = toServer
               /\ toClient' = toClient => FilterStep
<1>1. ClientTyped
  BY TypeParts DEF SessionInv
<1>2. Ruling' = Ruling
  BY DEF Ruling, RulingWith, DeniedWith, Enforced
<1>3. /\ held' = Idle => Waiting' = Tail(Waiting)
      /\ childUp' = childUp
  BY DEF Waiting, childUp
<1>4. ASSUME Push(l), held' = Idle, toClient' = toClient, "pass" \in Ruling[l]
      PROVE  FilterDelivers \/ FilterLoses
  <2>1. Refused' = Refused
    BY <1>1, <1>4, NothingRefused
  <2> QED
    BY <1>2, <1>3, <1>4, <2>1 DEF FilterDelivers, FilterLoses, Push
<1>5. ASSUME WriteDenial(l), "refuse" \in Ruling[l]
      PROVE  FilterRefuses
  <2>1. Refused' = Refused \cup {l}
    BY <1>1, <1>5, DenialRefuses DEF WriteDenial
  <2> QED
    BY <1>2, <1>3, <1>5, <2>1 DEF FilterRefuses, WriteDenial
<1>6. ASSUME held' # Idle, held'.line = l, toServer' = toServer, toClient' = toClient
      PROVE  FilterStutters
  <2>1. Refused' = Refused
    BY <1>1, <1>6, NothingRefused
  <2>2. Waiting' = <<l>> \o Tail(Waiting)
    BY <1>6 DEF Waiting
  <2>3. Waiting' = Waiting
    <3>1. \A w \in Seq(Lines) : w # <<>> => <<Head(w)>> \o Tail(w) = w
      <4> TAKE w \in Seq(Lines)
      <4> HAVE w # <<>>
      <4>1. Len(w) \in Nat \ {0} /\ Tail(w) \in Seq(Lines)
            /\ Len(Tail(w)) = Len(w) - 1 /\ Head(w) = w[1] /\ w[1] \in Lines
            /\ \A i \in 1..Len(w) - 1 : Tail(w)[i] = w[i + 1]
        OBVIOUS
      <4>2. <<Head(w)>> \in Seq(Lines) /\ Len(<<Head(w)>>) = 1
            /\ <<Head(w)>>[1] = Head(w)
        BY <4>1
      <4>3. /\ <<Head(w)>> \o Tail(w) \in Seq(Lines)
            /\ Len(<<Head(w)>> \o Tail(w)) = Len(w)
            /\ \A i \in 1..Len(w) : (<<Head(w)>> \o Tail(w))[i] = w[i]
        BY <4>1, <4>2
      <4> QED
        BY <4>3
    <3> QED
      BY <2>2, <3>1
  <2> QED
    BY <1>2, <1>3, <1>6, <2>1, <2>3 DEF FilterStutters
<1> QED
  BY <1>4, <1>5, <1>6 DEF FilterStep

\* Judging a call, in the same terms.
LEMMA JudgingSteps ==
  ASSUME SessionInv, NEW l \in Lines, stage' = stage,
         mode = "enforce", mode' = mode, claims' = claims, l.kind = "call",
         Waiting # <<>>, Waiting \in Seq(Lines), Head(Waiting) = l,
         Tail(Waiting) = input', Judge(l)
  PROVE  FilterStep
<1>1. TypeOK
  BY DEF SessionInv
<1>2. Throws(l.tool) => "pass" \in Ruling[l]
  BY <1>1, RulingOfEvaluation DEF Throws, Enforced
<1>3. ~Throws(l.tool) => Enforced(mode, claims)
  BY <1>1, InterceptorAssumption DEF TypeOK, Throws, Enforced
<1>4. /\ ~Throws(l.tool) /\ evaluate(l.tool) = "allow" => "pass" \in Ruling[l]
      /\ ~Throws(l.tool) /\ evaluate(l.tool) = "deny" => "refuse" \in Ruling[l]
  BY <1>1, <1>3, RulingOfEvaluation
<1>5. CASE "pass" \in Ruling[l] /\ (ForwardTracked(l) \/ ForwardUntracked(l))
  BY <1>5, DecidingSteps DEF ForwardTracked, ForwardUntracked
<1>6. CASE "refuse" \in Ruling[l] /\ Refuse(l)
  BY <1>6, DecidingSteps DEF Refuse
<1>7. CASE AskForApproval(l)
  <2>1. /\ held' = [phase |-> "approval", line |-> l, span |-> NewSpan(spans')]
        /\ toServer' = toServer /\ toClient' = toClient
    BY <1>7 DEF AskForApproval
  <2>2. held' # Idle /\ held'.line = l
    BY <2>1 DEF Idle
  <2> QED
    BY <2>1, <2>2, DecidingSteps
<1> QED
  BY <1>2, <1>4, <1>5, <1>6, <1>7 DEF Judge

\* The sidecar's steps in enforce mode.
LEMMA EnforceSteps ==
  ASSUME SessionInv, Enforce
  PROVE  FilterStep
<1>1. TypeOK /\ mode = "enforce" /\ mode' = mode
      /\ input \in Seq(Lines)
  BY DEF SessionInv, Enforce, sessionVars, TypeOK
<1>2. CASE ReadLine
  <2> DEFINE l == Head(input)
  <2>1. /\ stage' = stage /\ claims' = claims
        /\ held = Idle /\ input # <<>> /\ input' = Tail(input) /\ Handle(l)
    BY <1>2 DEF ReadLine
  <2>2. /\ l \in Lines /\ Waiting # <<>> /\ Waiting \in Seq(Lines)
        /\ Head(Waiting) = l /\ Tail(Waiting) = input'
    BY <1>1, <2>1, WaitingLines
  <2> HIDE DEF l
  <2>3. CASE l.kind = "call" /\ Judge(l)
    BY <1>1, <2>1, <2>2, <2>3, JudgingSteps
  <2>4. CASE l.kind # "call" /\ (ForwardTracked(l) \/ ForwardUntracked(l))
    <3>1. "pass" \in Ruling[l]
      BY <1>1, <2>2, <2>4, RulingOfEvaluation
    <3> QED
      BY <1>1, <2>1, <2>2, <2>4, <3>1, DecidingSteps
         DEF ForwardTracked, ForwardUntracked
  <2>5. CASE /\ held' = [phase |-> "claims", line |-> l]
             /\ toServer' = toServer /\ toClient' = toClient
    <3>1. held' # Idle /\ held'.line = l
      BY <2>5 DEF Idle
    <3> QED
      BY <1>1, <2>1, <2>2, <2>5, <3>1, DecidingSteps
  <2> QED
    BY <2>1, <2>3, <2>4, <2>5 DEF Handle
<1>3. CASE ClaimsResolved
  <2>1. /\ stage' = stage /\ claims' = claims
        /\ held.phase = "claims" /\ input' = input /\ Judge(held.line)
    BY <1>3 DEF ClaimsResolved
  <2>2. held # Idle
    BY <2>1 DEF Idle
  <2>3. held.line \in Lines /\ held.line.kind = "call"
    BY <1>1, <2>2, WaitingLines DEF SessionInv, HeldTaken
  <2> QED
    BY <1>1, <2>1, <2>2, <2>3, WaitingLines, JudgingSteps
<1>4. CASE Approved \/ NotApproved
  <2>1. /\ stage' = stage /\ claims' = claims
        /\ held.phase = "approval" /\ input' = input
        /\ \/ WriteDenial(held.line)
           \/ Push(held.line) /\ held' = Idle /\ toClient' = toClient
    BY <1>4 DEF Approved, NotApproved
  <2>2. held # Idle
    BY <2>1 DEF Idle
  <2>3. held.line \in Lines /\ held.line.kind = "call"
    BY <1>1, <2>2, WaitingLines DEF SessionInv, HeldTaken
  <2>4. evaluate(held.line.tool) = "require_approval" /\ Enforced(mode, claims)
    BY <1>1, <2>1 DEF SessionInv, SpansInv, HeldForApproval, Enforced
  <2>5. "pass" \in Ruling[held.line] /\ "refuse" \in Ruling[held.line]
    BY <1>1, <2>3, <2>4, RulingOfEvaluation
  <2> QED
    BY <1>1, <2>1, <2>2, <2>3, <2>5, WaitingLines, DecidingSteps
<1> QED
  BY <1>2, <1>3, <1>4 DEF Enforce, Sidecar

\* Prepending and appending commute.
LEMMA AppendAfter ==
  ASSUME NEW l \in Lines, NEW x \in Lines, NEW w \in Seq(Lines)
  PROVE  <<x>> \o Append(w, l) = Append(<<x>> \o w, l)
<1>1. <<x>> \in Seq(Lines) /\ <<l>> \in Seq(Lines) /\ <<x>> \o w \in Seq(Lines)
  OBVIOUS
<1>2. Append(w, l) = w \o <<l>>
  BY AppendIsConcat
<1>3. Append(<<x>> \o w, l) = (<<x>> \o w) \o <<l>>
  BY <1>1, AppendIsConcat
<1>4. (<<x>> \o w) \o <<l>> = <<x>> \o (w \o <<l>>)
  BY <1>1, ConcatAssociative
<1> QED
  BY <1>2, <1>3, <1>4

\* Every step of a session is a step of the filter, or none.
LEMMA SessionSteps ==
  ASSUME SessionInv, [SessionNext]_allVars
  PROVE  FilterStep
<1>1. /\ TypeOK /\ ClientTyped /\ RestTyped
      /\ input \in Seq(Lines) /\ childUp \in BOOLEAN
      /\ stage' = stage => childUp' = childUp
  BY TypeParts DEF SessionInv, RestTyped, childUp
<1>2. mode' = mode /\ claims' = claims => Ruling' = Ruling
  BY DEF Ruling, RulingWith, DeniedWith, Enforced
<1>3. held' = held /\ input' = input => Waiting' = Waiting
  BY DEF Waiting
<1>4. ASSUME mode' = mode, claims' = claims, held' = held, input' = input,
             toServer' = toServer,
             \/ toClient' = toClient
             \/ \E m \in ServerMessage, p \in {"whole", "head", "tail"} :
                   toClient' = Append(toClient, [piece |-> p, msg |-> m])
      PROVE  /\ childUp' = childUp => FilterStep
             /\ childUp /\ childUp' = FALSE => FilterStep
  <2>1. Refused' = Refused
    BY <1>1, <1>4, NothingRefused
  <2> QED
    BY <1>2, <1>3, <1>4, <2>1 DEF FilterStep, FilterStutters, FilterExits
<1>5. CASE UNCHANGED allVars
  BY <1>1, <1>4, <1>5 DEF allVars, vars, sessionVars
<1>6. ASSUME NEW l \in Lines, ClientSends(l) /\ UNCHANGED sessionVars
      PROVE  FilterStep
  <2>1. /\ childUp /\ stage' = stage /\ mode' = mode /\ claims' = claims
        /\ held' = held /\ input' = Append(input, l) /\ toServer' = toServer
        /\ toClient' = toClient
    BY <1>6 DEF ClientSends, sessionVars
  <2>2. Waiting' = Append(Waiting, l)
    <3>1. CASE held = Idle
      BY <2>1, <3>1 DEF Waiting
    <3>2. CASE held # Idle
      <4>1. \A x \in Lines, w \in Seq(Lines) :
               <<x>> \o Append(w, l) = Append(<<x>> \o w, l)
        BY AppendAfter
      <4>2. held.line \in Lines
        BY <1>1, <3>2, WaitingLines
      <4> QED
        BY <1>1, <2>1, <3>2, <4>1, <4>2 DEF Waiting
    <3> QED
      BY <3>1, <3>2
  <2>3. Refused' = Refused
    BY <1>1, <2>1, NothingRefused
  <2> QED
    BY <1>1, <1>2, <2>1, <2>2, <2>3 DEF FilterStep, FilterSends
<1>7. CASE Enforce
  BY <1>7, EnforceSteps
<1>8. CASE Passthrough
  <2> DEFINE l == Head(input)
  <2>1. /\ stage' = stage /\ mode = "monitor" /\ mode' = mode
        /\ claims' = claims /\ held' = held /\ input # <<>>
        /\ input' = Tail(input) /\ Push(l) /\ toClient' = toClient
    BY <1>8 DEF Passthrough
  <2>2. held = Idle
    BY <2>1 DEF SessionInv, HeldTaken
  <2>3. /\ l \in Lines /\ Waiting # <<>> /\ Waiting \in Seq(Lines)
        /\ Head(Waiting) = l /\ Tail(Waiting) = input'
    BY <1>1, <2>1, <2>2, WaitingLines
  <2>4. "pass" \in Ruling[l]
    BY <1>1, <2>1, <2>3, RulingOfEvaluation DEF Enforced
  <2> HIDE DEF l
  <2> QED
    BY <2>1, <2>2, <2>3, <2>4, DecidingSteps
<1>9. ASSUME NEW l \in judging, Judged(l)
      PROVE  FilterStep
  BY <1>1, <1>4, <1>9 DEF Judged
<1>10. ASSUME NEW m \in ServerLines, ServerLine(m) /\ UNCHANGED sessionVars
       PROVE  FilterStep
  <2>1. m \in ServerMessage
    BY <1>1, ServerMessages
  <2> QED
    BY <1>1, <1>4, <1>10, <2>1 DEF ServerLine, sessionVars
<1>11. CASE Chunk
  <2>1. ASSUME NEW m \in ServerLines, ServerHead(m)
        PROVE  FilterStep
    <3>1. m \in ServerMessage
      BY <1>1, ServerMessages
    <3> QED
      BY <1>1, <1>4, <1>11, <2>1, <3>1 DEF Chunk, ServerHead, sessionVars
  <2>2. CASE ServerTail
    <3>1. partial.msg \in ServerMessage
      BY <1>1, <2>2 DEF RestTyped, ServerTail
    <3> QED
      BY <1>1, <1>4, <1>11, <2>2, <3>1 DEF Chunk, ServerTail, sessionVars
  <2> QED
    BY <1>11, <2>1, <2>2 DEF Chunk
<1>12. ASSUME NEW id \in DOMAIN pendingSpans, Reaper(id)
       PROVE  FilterStep
  BY <1>1, <1>4, <1>12 DEF Reaper, Reap, sessionVars
<1>13. CASE Stop
  BY <1>1, <1>4, <1>13 DEF Stop, vars
<1>14. CASE GiveUp \/ Exit
  <2>1. childUp /\ childUp' = FALSE
    BY <1>14 DEF GiveUp, Exit, ChildExit, childUp
  <2> QED
    BY <1>4, <1>14, <2>1 DEF GiveUp, Exit, ChildExit
<1>15. CASE Leave /\ UNCHANGED sessionVars
  <2>1. childUp' = childUp
    BY <1>15 DEF Leave, childUp
  <2> QED
    BY <1>4, <1>15, <2>1 DEF Leave, sessionVars
<1> QED
  BY <1>5, <1>6, <1>7, <1>8, <1>9, <1>10, <1>11, <1>12, <1>13, <1>14, <1>15
     DEF SessionNext

\* A session implements the filter: lines are taken in the order in which the client
\* sent them, and each is delivered or refused as mode, scope, policy and approval
\* say.  (That each is decided in the end is left to TLC.)
THEOREM SessionImplementsFilter == SessionSpec => Filter!Spec
<1>1. SessionInit => Filter!Init
  <2> SUFFICES ASSUME SessionInit PROVE Filter!Init
    OBVIOUS
  <2>1. /\ mode \in Modes /\ claims \in Tokens /\ held = Idle /\ input = <<>>
        /\ toServer = <<>> /\ toClient = <<>> /\ childUp = TRUE
    BY DEF SessionInit, Init, childUp
  <2>2. Refused = {}
    BY <2>1 DEF Refused
  <2> QED
    BY <2>1, <2>2 DEF Filter!Init, Refused
<1>2. SessionInv /\ [SessionNext]_allVars => [Filter!Next]_(Filter!vars)
  BY SessionSteps, FilterSteps
<1> QED
  BY <1>1, <1>2, SessionInvariant, PTL DEF SessionSpec, Filter!Spec

-----------------------------------------------------------------------------
(* The rule that decides.  The places of the rules are numbers of rules before *)
(* them, which are different for different rules: so that each place is taken. *)

\* One rule comes before the other, and then has fewer before it.
LEMMA RulesAreRanked ==
  ASSUME NEW n \in Nat, NEW rules, DOMAIN rules = 1..n,
         \A i \in 1..n : Priority(rules[i]) \in Int
  PROVE  /\ \A i \in 1..n : Cardinality(RulesBefore(rules, i)) \in 0..(n - 1)
         /\ \A i, j \in 1..n : Before(rules, i, j) =>
               Cardinality(RulesBefore(rules, i)) < Cardinality(RulesBefore(rules, j))
         /\ \A i, j \in 1..n : i # j => Before(rules, i, j) \/ Before(rules, j, i)
<1> DEFINE S(i) == RulesBefore(rules, i)
<1>1. \A i \in 1..n : i \notin S(i) /\ S(i) \subseteq 1..n
  BY DEF RulesBefore, Before
<1>2. \A i, j \in 1..n : Before(rules, i, j) => i \in S(j) /\ S(i) \subseteq S(j)
  BY DEF RulesBefore, Before
<1>3. \A i, j \in 1..n : i # j => Before(rules, i, j) \/ Before(rules, j, i)
  BY DEF Before
<1>4. IsFiniteSet(1..n) /\ Cardinality(1..n) = n
  BY FS_Interval
<1> HIDE DEF S
<1>5. \A i \in 1..n : /\ IsFiniteSet(S(i)) /\ Cardinality(S(i)) \in Nat
                      /\ IsFiniteSet(S(i) \cup {i})
                      /\ Cardinality(S(i) \cup {i}) = Cardinality(S(i)) + 1
  BY <1>1, <1>4, FS_Subset, FS_CardinalityType, FS_AddElement
<1>6. ASSUME NEW i \in 1..n
      PROVE  Cardinality(S(i)) \in 0..(n - 1)
  <2>1. S(i) \cup {i} \subseteq 1..n
    BY <1>1
  <2>2. Cardinality(S(i) \cup {i}) <= n
    BY <1>4, <2>1, FS_Subset
  <2>3. Cardinality(S(i)) + 1 <= n /\ Cardinality(S(i)) \in Nat
    BY <1>5, <2>2
  <2> QED
    BY <2>3
<1>7. ASSUME NEW i \in 1..n, NEW j \in 1..n, Before(rules, i, j)
      PROVE  Cardinality(S(i)) < Cardinality(S(j))
  <2>1. S(i) \cup {i} \subseteq S(j)
    BY <1>2, <1>7
  <2>2. Cardinality(S(i) \cup {i}) <= Cardinality(S(j))
    BY <1>5, <2>1, FS_Subset
  <2>3. /\ Cardinality(S(i)) + 1 <= Cardinality(S(j))
        /\ Cardinality(S(i)) \in Nat /\ Cardinality(S(j)) \in Nat
    BY <1>5, <2>2
  <2> QED
    BY <2>3
<1> QED
  BY <1>3, <1>6, <1>7 DEF S

\* Sorting finds a rule for each place and loses none; what comes first is before.
LEMMA SortingSorts ==
  ASSUME NEW n \in Nat, NEW rules, DOMAIN rules = 1..n,
         \A i \in 1..n : Priority(rules[i]) \in Int
  PROVE  LET order == SortedRules(rules) IN
         /\ order \in [1..n -> 1..n]
         /\ \A i \in 1..n : \E k \in 1..n : order[k] = i
         /\ \A k, l \in 1..n : k < l => Before(rules, order[k], order[l])
<1> DEFINE rank == [i \in 1..n |-> Cardinality(RulesBefore(rules, i)) + 1]
           order == SortedRules(rules)
<1>1. /\ \A i \in 1..n : Cardinality(RulesBefore(rules, i)) \in 0..(n - 1)
      /\ \A i, j \in 1..n : Before(rules, i, j) =>
            Cardinality(RulesBefore(rules, i)) < Cardinality(RulesBefore(rules, j))
      /\ \A i, j \in 1..n : i # j => Before(rules, i, j) \/ Before(rules, j, i)
  BY RulesAreRanked
<1>2. rank \in [1..n -> 1..n]
  BY <1>1
<1>3. \A i, j \in 1..n : Before(rules, i, j) => rank[i] < rank[j]
  BY <1>1
<1>4. \A k \in 1..n : order[k] = CHOOSE i \in 1..n : rank[i] = k
  <2>1. order = [k \in 1..n |->
                  CHOOSE i \in 1..n : Cardinality(RulesBefore(rules, i)) = k - 1]
    BY DEF SortedRules
  <2>2. \A k \in 1..n : \A i \in 1..n :
           (rank[i] = k) <=> (Cardinality(RulesBefore(rules, i)) = k - 1)
    <3> SUFFICES ASSUME NEW k \in 1..n, NEW i \in 1..n
                 PROVE  (rank[i] = k) <=> (Cardinality(RulesBefore(rules, i)) = k - 1)
      OBVIOUS
    <3>1. PICK c \in 0..(n - 1) : c = Cardinality(RulesBefore(rules, i))
      BY <1>1
    <3>2. rank[i] = c + 1
      BY <3>1
    <3> QED
      BY <3>1, <3>2
  <2>3. ASSUME NEW k \in 1..n
        PROVE  (CHOOSE i \in 1..n : Cardinality(RulesBefore(rules, i)) = k - 1)
                  = (CHOOSE i \in 1..n : rank[i] = k)
    BY <2>2, <2>3
  <2> HIDE DEF rank, order
  <2> QED
    BY <2>1, <2>3
<1>5. order = [k \in 1..n |-> order[k]]
  BY DEF SortedRules
<1> HIDE DEF rank, order
<1>apart. \A i, j \in 1..n : rank[i] = rank[j] => i = j
  <2> SUFFICES ASSUME NEW i \in 1..n, NEW j \in 1..n, rank[i] = rank[j], i # j
               PROVE  FALSE
    OBVIOUS
  <2>1. rank[i] \in 1..n /\ rank[j] \in 1..n
    BY <1>2
  <2>2. Before(rules, i, j) \/ Before(rules, j, i)
    BY <1>1
  <2>3. rank[i] < rank[j] \/ rank[j] < rank[i]
    BY <1>3, <2>2
  <2> QED
    BY <2>1, <2>3
<1>6. rank \in Injection(1..n, 1..n)
  <2> QED
    BY <1>2, <1>apart DEF Injection, IsInjective
<1>7. IsFiniteSet(1..n)
  BY FS_Interval
<1>8. rank \in Surjection(1..n, 1..n)
  BY <1>6, <1>7, FS_Injection
<1>9. \A k \in 1..n : \E i \in 1..n : rank[i] = k
  BY <1>8 DEF Surjection
<1>10. \A k \in 1..n : order[k] \in 1..n /\ rank[order[k]] = k
  <2> SUFFICES ASSUME NEW k \in 1..n PROVE order[k] \in 1..n /\ rank[order[k]] = k
    OBVIOUS
  <2>1. \E i \in 1..n : rank[i] = k
    BY <1>9
  <2> QED
    BY <1>4, <2>1
<1>11. order \in [1..n -> 1..n]
  BY <1>5, <1>10
<1>12. ASSUME NEW i \in 1..n PROVE \E k \in 1..n : order[k] = i
  <2>1. rank[i] \in 1..n /\ rank[order[rank[i]]] = rank[i] /\ order[rank[i]] \in 1..n
    BY <1>2, <1>10
  <2>2. order[rank[i]] = i
    BY <1>apart, <2>1
  <2> QED
    BY <2>1, <2>2
<1>13. ASSUME NEW k \in 1..n, NEW l \in 1..n, k < l
       PROVE  Before(rules, order[k], order[l])
  <2>1. /\ order[k] \in 1..n /\ rank[order[k]] = k
        /\ order[l] \in 1..n /\ rank[order[l]] = l
    BY <1>10
  <2>2. order[k] # order[l] /\ ~Before(rules, order[l], order[k])
    BY <1>3, <1>13, <2>1
  <2> QED
    BY <1>1, <2>1, <2>2
<1> QED
  BY <1>11, <1>12, <1>13 DEF order

\* A set of places has a first one.
LEMMA FirstPlace ==
  ASSUME NEW n \in Nat, NEW I \in SUBSET (1..n), I # {}
  PROVE  Min(I) \in I /\ \A k \in I : Min(I) <= k
<1>1. I \subseteq Nat
  OBVIOUS
<1>2. \E x \in I : \A y \in I : <<y, x>> \notin OpToRel(<, Nat)
  BY <1>1, NatLessThanWellFounded, WFMin
<1>3. \E x \in I : \A y \in I : x <= y
  <2>1. PICK x \in I : \A y \in I : ~(y < x)
    BY <1>1, <1>2 DEF OpToRel
  <2> QED
    BY <1>1, <2>1
<1> QED
  BY <1>3 DEF Min

\* Walking down the sorted rules to the first that matches gives the ruling that
\* the policy defines without any order of evaluation.
LEMMA EvaluateIsRuling ==
  ASSUME NEW config, IsPolicy(config), NEW call
  PROVE  Evaluate(config, call) = PolicyRuling(config, call)
<1> DEFINE rules == config.rules
           order == SortedRules(rules)
           I == {k \in 1..Len(order) : RuleMatches(rules[order[k]], call)}
           M == {i \in DOMAIN rules : RuleMatches(rules[i], call)}
           best(b) == \A j \in M : Outranks(rules, b, j)
<1>1. PICK n \in Nat : DOMAIN rules = 1..n
  <2>1. rules \in Seq(Range(rules))
    BY DEF IsPolicy
  <2> QED
    BY <2>1, LenProperties
<1>2. \A i \in 1..n : Priority(rules[i]) \in Int
  BY <1>1 DEF IsPolicy
<1>3. /\ order \in [1..n -> 1..n]
      /\ \A i \in 1..n : \E k \in 1..n : order[k] = i
      /\ \A k, l \in 1..n : k < l => Before(rules, order[k], order[l])
  <2> HIDE DEF rules
  <2> QED
    BY <1>1, <1>2, SortingSorts
<1>4. SelectInSeq(order, LAMBDA i : RuleMatches(rules[i], call))
        = IF I # {} THEN Min(I) ELSE 0
  BY DEF SelectInSeq
<1>5. Evaluate(config, call) =
        IF I # {} THEN IF Min(I) = 0 THEN [action |-> config.default_action, rule |-> 0]
                       ELSE [action |-> rules[order[Min(I)]].action, rule |-> order[Min(I)]]
        ELSE [action |-> config.default_action, rule |-> 0]
  BY <1>4 DEF Evaluate
<1>6. PolicyRuling(config, call) =
        IF M = {} THEN [action |-> config.default_action, rule |-> 0]
        ELSE [action |-> rules[CHOOSE b \in M : best(b)].action,
              rule |-> CHOOSE b \in M : best(b)]
  BY DEF PolicyRuling
<1>7. Len(order) = n
  <2>1. order \in Seq(1..n)
    BY <1>3, SeqDef
  <2>2. Len(order) \in Nat /\ 1..Len(order) = 1..n
    BY <1>3, <2>1, LenProperties
  <2> QED
    BY <2>2
<1>8. I \in SUBSET (1..n) /\ M \in SUBSET (1..n)
  BY <1>1, <1>7
<1>9. \A k \in 1..n : k \in I <=> order[k] \in M
  BY <1>1, <1>3, <1>7
<1> HIDE DEF rules, order, I, M
<1>10. I = {} <=> M = {}
  BY <1>3, <1>8, <1>9
<1>11. ASSUME I # {}
       PROVE  /\ Min(I) # 0
              /\ order[Min(I)] = CHOOSE b \in M : best(b)
  <2>1. Min(I) \in I /\ \A k \in I : Min(I) <= k
    BY <1>8, <1>11, FirstPlace
  <2> DEFINE first == Min(I)
  <2> HIDE DEF first
  <2>2. first \in 1..n /\ order[first] \in M /\ order[first] \in 1..n
    BY <1>3, <1>8, <1>9, <2>1 DEF first
  <2>3. best(order[first])
    <3> SUFFICES ASSUME NEW j \in M PROVE Outranks(rules, order[first], j)
      OBVIOUS
    <3>1. PICK l \in 1..n : order[l] = j
      BY <1>3, <1>8
    <3>2. l \in I /\ first <= l
      BY <1>9, <2>1, <3>1 DEF first
    <3>3. order[first] = j \/ Before(rules, order[first], j)
      BY <1>3, <2>2, <3>1, <3>2
    <3> QED
      BY <1>2, <1>8, <2>2, <3>3 DEF Before, Outranks
  <2>4. ASSUME NEW b \in M, best(b) PROVE b = order[first]
    <3>1. Outranks(rules, b, order[first]) /\ Outranks(rules, order[first], b)
      BY <2>2, <2>3, <2>4
    <3> QED
      BY <1>2, <1>8, <2>2, <3>1 DEF Outranks
  <2> HIDE DEF best
  <2>5. (CHOOSE b \in M : best(b)) = order[first]
    BY <2>2, <2>3, <2>4
  <2> QED
    BY <2>2, <2>5 DEF first
<1> HIDE DEF best
<1>12. CASE I = {}
  BY <1>5, <1>6, <1>10, <1>12
<1>13. CASE I # {}
  <2>1. M # {}
    BY <1>10, <1>13
  <2> DEFINE b == CHOOSE x \in M : best(x)
             first == Min(I)
  <2>2. PolicyRuling(config, call) = [action |-> rules[b].action, rule |-> b]
    BY <1>6, <2>1
  <2>3. first # 0 /\ order[first] = b
    BY <1>11, <1>13
  <2>4. Evaluate(config, call) =
           IF first = 0 THEN [action |-> config.default_action, rule |-> 0]
           ELSE [action |-> rules[order[first]].action, rule |-> order[first]]
    BY <1>5, <1>13
  <2> HIDE DEF b, first
  <2> QED
    BY <2>2, <2>3, <2>4
<1> QED
  BY <1>12, <1>13

-----------------------------------------------------------------------------
(* The policy in force *)

\* Something is in force once something was loaded, and it was loaded.
PolicyInv ==
  /\ file \in Contents
  /\ seen \subseteq Contents
  /\ evaluator \in (seen \ {"invalid"}) \cup {NoPolicy}
  /\ evaluator = NoPolicy => seen = {"invalid"}

\* Every step of the policy, the judge and the log keeps the invariant.
LEMMA PolicyStep ==
  ASSUME PolicyInv, [PolicyNext]_policyVars
  PROVE  PolicyInv'
<1>1. /\ NoPolicy \notin Contents
      /\ "invalid" \in Contents /\ NoPolicy # "invalid"
      /\ \A p : p \in DOMAIN Policies <=> p \in Contents /\ p # "invalid"
  BY PolicyReloadAssumption DEF Contents, NoPolicy
<1>2. CASE \E content \in Contents : Edit(content)
  BY <1>2 DEF Edit, PolicyInv
<1>3. CASE Notice
  BY <1>3 DEF Notice, PolicyInv
<1>4. CASE Reload
  BY <1>1, <1>4 DEF Reload, PolicyInv, updatePolicy
<1>5. CASE JudgeCall
  BY <1>5 DEF JudgeCall, watchVars, PolicyInv
<1>6. CASE SidecarRestarts
  BY <1>1, <1>6 DEF SidecarRestarts, PolicyInv, LoadedFirst
<1>7. CASE StartWatching
  BY <1>7 DEF StartWatching, PolicyInv
<1>8. CASE UNCHANGED policyVars
  BY <1>8 DEF policyVars, watchVars, PolicyInv
<1> QED
  BY <1>2, <1>3, <1>4, <1>5, <1>6, <1>7, <1>8 DEF PolicyNext

\* What is in force is a policy that was read from the file, or nothing: then no
\* read found anything but an invalid file.
THEOREM PolicyInvariant == PolicySpec => []PolicyInv
<1>1. PolicyInit => PolicyInv
  BY PolicyReloadAssumption DEF PolicyInit, PolicyInv, LoadedFirst, Contents, NoPolicy
<1> QED
  BY <1>1, PolicyStep, PTL DEF PolicySpec

\* Whatever is edited while calls are judged: they are judged by a policy that
\* was loaded, and as it says.
THEOREM RulingsArePolicy == PolicySpec => []RulingsFollowPolicy
<1>1. ASSUME PolicyInv, evaluator # NoPolicy, NEW call \in Calls
      PROVE  RulingOn(call) = PolicyRuling(Policies[evaluator], call)
  <2>1. evaluator \in DOMAIN Policies
    BY <1>1 DEF PolicyInv, Contents
  <2>2. IsPolicy(Policies[evaluator])
    BY <2>1, PolicyReloadAssumption
  <2> QED
    BY <1>1, <2>2, EvaluateIsRuling DEF RulingOn
<1>2. PolicyInv => RulingsFollowPolicy
  BY <1>1 DEF PolicyInv, RulingsFollowPolicy
<1> QED
  BY <1>2, PolicyInvariant, PTL

-----------------------------------------------------------------------------
(* The log of decisions *)

Logged(lines, last) ==
  /\ lines \in [0..MaxFiles -> Seq(Nat)]
  /\ last \in Nat
  /\ \A i \in 0..MaxFiles : \A k \in DOMAIN lines[i] : lines[i][k] <= last

LogInv == Logged(files, decisions) /\ LogIsContiguous

\* Every line is a decision's number.
LEMMA LinesAreNumbers ==
  ASSUME NEW lines, NEW last, Logged(lines, last)
  PROVE  /\ DOMAIN lines = 0..MaxFiles /\ MaxFiles \in Nat /\ MaxFiles > 0
         /\ \A i \in 0..MaxFiles :
               /\ lines[i] \in Seq(Nat)
               /\ \A k \in DOMAIN lines[i] : lines[i][k] \in Nat /\ lines[i][k] <= last
<1>1. \A i \in 0..MaxFiles : lines[i] \in Seq(Nat)
  BY DEF Logged
<1>2. \A i \in 0..MaxFiles : \A k \in DOMAIN lines[i] : lines[i][k] \in Nat
  BY <1>1, ElementOfSeq, LenProperties
<1> QED
  BY <1>1, <1>2, DecisionLogAssumption DEF Logged

\* A decision that is not written is missing.
LEMMA NotWritten ==
  ASSUME NEW lines, NEW last, NEW missing,
         Logged(lines, last), Contiguous(lines, last, missing)
  PROVE  /\ Logged(lines, last + 1)
         /\ Contiguous(lines, last + 1, missing \cup {last + 1})
<1>1. /\ DOMAIN lines = 0..MaxFiles /\ last \in Nat
      /\ \A i \in 0..MaxFiles : \A k \in DOMAIN lines[i] : lines[i][k] \in Nat
  BY LinesAreNumbers DEF Logged
<1>2. Logged(lines, last + 1)
  <2>1. \A i \in 0..MaxFiles : \A k \in DOMAIN lines[i] : lines[i][k] <= last + 1
    BY <1>1 DEF Logged
  <2> QED
    BY <1>1, <2>1 DEF Logged
<1>3. ASSUME NEW m \in Nat
      PROVE  \A n \in m..(last + 1) : n \in m..last \/ n = last + 1
  BY <1>1
<1> QED
  BY <1>1, <1>2, <1>3 DEF Contiguous

\* A decision that is written is the newest line.
LEMMA Written ==
  ASSUME NEW lines, NEW last, NEW missing,
         Logged(lines, last), Contiguous(lines, last, missing)
  PROVE  LET new == [lines EXCEPT ![0] = Append(@, last + 1)]
         IN  Logged(new, last + 1) /\ Contiguous(new, last + 1, missing)
<1> DEFINE new == [lines EXCEPT ![0] = Append(@, last + 1)]
           len == Len(lines[0])
<1>1. /\ DOMAIN lines = 0..MaxFiles /\ last \in Nat /\ MaxFiles \in Nat
      /\ \A i \in 0..MaxFiles :
            /\ lines[i] \in Seq(Nat)
            /\ \A k \in DOMAIN lines[i] : lines[i][k] \in Nat /\ lines[i][k] <= last
  BY LinesAreNumbers DEF Logged
<1>2. /\ new \in [0..MaxFiles -> Seq(Nat)]
      /\ new[0] = Append(lines[0], last + 1)
      /\ \A i \in 0..MaxFiles \ {0} : new[i] = lines[i]
  <2>1. Append(lines[0], last + 1) \in Seq(Nat)
    BY <1>1, AppendProperties
  <2> QED
    BY <1>1, <2>1 DEF Logged
<1>3. /\ len \in Nat /\ DOMAIN lines[0] = 1..len /\ DOMAIN new[0] = 1..(len + 1)
      /\ \A k \in 1..len : new[0][k] = lines[0][k]
      /\ new[0][len + 1] = last + 1
  BY <1>1, <1>2, LenProperties, AppendProperties
<1> HIDE DEF new, len
<1>4. \A i \in 0..MaxFiles : \A k \in DOMAIN new[i] :
         \/ i = 0 /\ k = len + 1 /\ new[i][k] = last + 1
         \/ k \in DOMAIN lines[i] /\ new[i][k] = lines[i][k]
  <2>1. 1..(len + 1) = (1..len) \cup {len + 1}
    BY <1>3
  <2> QED
    BY <1>2, <1>3, <2>1
<1>5. Logged(new, last + 1)
  <2>1. \A i \in 0..MaxFiles : \A k \in DOMAIN new[i] : new[i][k] <= last + 1
    BY <1>1, <1>4
  <2> QED
    BY <1>1, <1>2, <2>1 DEF Logged
<1>6. ASSUME NEW i \in 0..MaxFiles, NEW k \in DOMAIN new[i],
             NEW j \in 0..MaxFiles, NEW m \in DOMAIN new[j],
             i > j \/ (i = j /\ k < m)
      PROVE  new[i][k] < new[j][m]
  <2>1. CASE k \in DOMAIN lines[i] /\ new[i][k] = lines[i][k]
    <3>1. CASE m \in DOMAIN lines[j] /\ new[j][m] = lines[j][m]
      BY <1>1, <1>6, <2>1, <3>1 DEF Contiguous
    <3>2. CASE j = 0 /\ m = len + 1 /\ new[j][m] = last + 1
      BY <1>1, <2>1, <3>2
    <3> QED
      BY <1>4, <3>1, <3>2
  <2>2. CASE i = 0 /\ k = len + 1
    <3>1. j = 0 /\ m \in 1..(len + 1) /\ k < m
      BY <1>1, <1>3, <1>6, <2>2
    <3> QED
      BY <1>3, <2>2, <3>1
  <2> QED
    BY <1>4, <2>1, <2>2
<1>7. ASSUME NEW i \in 0..MaxFiles, NEW k \in DOMAIN new[i],
             NEW n \in new[i][k]..(last + 1)
      PROVE  n \in missing \/ \E j \in 0..MaxFiles : n \in Range(new[j])
  <2>1. CASE n = last + 1
    <3>1. last + 1 \in Range(new[0])
      BY <1>3 DEF Range
    <3> QED
      BY <1>1, <2>1, <3>1
  <2>2. CASE n # last + 1
    <3>1. k \in DOMAIN lines[i] /\ new[i][k] = lines[i][k]
      BY <1>1, <1>4, <2>2
    <3>2. n \in lines[i][k]..last
      BY <1>1, <1>7, <2>2, <3>1
    <3>3. n \in missing \/ \E j \in 0..MaxFiles : n \in Range(lines[j])
      BY <1>1, <3>1, <3>2 DEF Contiguous
    <3>4. \A j \in 0..MaxFiles : Range(lines[j]) \subseteq Range(new[j])
      <4>1. \A k1 \in 1..len : k1 \in 1..(len + 1)
        BY <1>3
      <4>2. Range(lines[0]) \subseteq Range(new[0])
        BY <1>3, <4>1 DEF Range
      <4> QED
        BY <1>2, <4>2
    <3> QED
      BY <3>3, <3>4
  <2> QED
    BY <2>1, <2>2
<1>8. DOMAIN new = 0..MaxFiles
  BY <1>2
<1>9. Contiguous(new, last + 1, missing)
  BY <1>6, <1>7, <1>8 DEF Contiguous
<1> QED
  BY <1>5, <1>9 DEF new

\* Moving the files, all or those above the move that fails, keeps their order and
\* loses the oldest at most.
LEMMA RotationKeeps ==
  ASSUME NEW lines, NEW last, NEW missing, NEW f \in 0..(MaxFiles + 1),
         Logged(lines, last), Contiguous(lines, last, missing)
  PROVE  Logged(Rotated(lines, f), last) /\ Contiguous(Rotated(lines, f), last, missing)
<1> DEFINE new == Rotated(lines, f)
           From(i) == IF i > f THEN i - 1 ELSE i
<1>1. /\ DOMAIN lines = 0..MaxFiles /\ last \in Nat /\ MaxFiles \in Nat /\ MaxFiles > 0
      /\ \A i \in 0..MaxFiles :
            /\ lines[i] \in Seq(Nat)
            /\ \A k \in DOMAIN lines[i] : lines[i][k] \in Nat /\ lines[i][k] <= last
  BY LinesAreNumbers DEF Logged
<1>2. new = [i \in 0..MaxFiles |-> IF i > f THEN lines[i - 1]
                                   ELSE IF i = f THEN <<>> ELSE lines[i]]
  BY DEF Rotated, KeptWhenStuck
<1>3. \A i \in 0..MaxFiles : i # f => From(i) \in 0..MaxFiles /\ new[i] = lines[From(i)]
  BY <1>1, <1>2
<1>4. \A i, j \in 0..MaxFiles : (i # f /\ j # f /\ i > j) => From(i) > From(j)
  BY <1>1
<1>5. ASSUME NEW j \in 0..MaxFiles, j # MaxFiles \/ f = MaxFiles + 1
      PROVE  \E i \in 0..MaxFiles : i # f /\ From(i) = j
  <2>1. CASE j >= f
    <3>1. j + 1 \in 0..MaxFiles /\ j + 1 # f /\ From(j + 1) = j
      BY <1>1, <1>5, <2>1
    <3> QED
      BY <3>1
  <2>2. CASE j < f
    <3>1. j # f /\ From(j) = j
      BY <2>2
    <3> QED
      BY <3>1
  <2> QED
    BY <1>1, <2>1, <2>2
<1>6. DOMAIN new = 0..MaxFiles /\ (f \in 0..MaxFiles => new[f] = <<>>)
  BY <1>1, <1>2
<1> HIDE DEF new, From
<1>7. \A i \in 0..MaxFiles : \A k \in DOMAIN new[i] :
         /\ i # f /\ From(i) \in 0..MaxFiles /\ new[i] = lines[From(i)]
         /\ k \in DOMAIN lines[From(i)]
  BY <1>3, <1>6
<1>8. Logged(new, last)
  <2>1. ASSUME NEW i \in 0..MaxFiles PROVE new[i] \in Seq(Nat)
    <3>1. CASE i = f
      BY <1>6, <3>1
    <3>2. CASE i # f
      BY <1>1, <1>3, <3>2
    <3> QED
      BY <3>1, <3>2
  <2>2. new \in [0..MaxFiles -> Seq(Nat)]
    BY <1>2, <2>1
  <2>3. \A i \in 0..MaxFiles : \A k \in DOMAIN new[i] : new[i][k] <= last
    BY <1>1, <1>7
  <2> QED
    BY <1>1, <2>2, <2>3 DEF Logged
<1>9. ASSUME NEW i \in 0..MaxFiles, NEW k \in DOMAIN new[i],
             NEW j \in 0..MaxFiles, NEW m \in DOMAIN new[j],
             i > j \/ (i = j /\ k < m)
      PROVE  new[i][k] < new[j][m]
  <2>1. From(i) > From(j) \/ (From(i) = From(j) /\ k < m)
    BY <1>4, <1>7, <1>9
  <2>2. /\ From(i) \in DOMAIN lines /\ From(j) \in DOMAIN lines
        /\ k \in DOMAIN lines[From(i)] /\ m \in DOMAIN lines[From(j)]
        /\ new[i] = lines[From(i)] /\ new[j] = lines[From(j)]
    BY <1>1, <1>7
  <2>3. lines[From(i)][k] < lines[From(j)][m]
    BY <1>1, <2>1, <2>2 DEF Contiguous
  <2> QED
    BY <2>2, <2>3
<1>10. ASSUME NEW i \in 0..MaxFiles, NEW k \in DOMAIN new[i],
              NEW n \in new[i][k]..last, n \notin missing
       PROVE  \E j \in 0..MaxFiles : n \in Range(new[j])
  <2>1. /\ i # f /\ From(i) \in 0..MaxFiles /\ new[i] = lines[From(i)]
        /\ k \in DOMAIN lines[From(i)]
    BY <1>7
  <2>2. PICK j \in 0..MaxFiles : n \in Range(lines[j])
    BY <1>1, <1>10, <2>1 DEF Contiguous
  <2>3. PICK m \in DOMAIN lines[j] : n = lines[j][m]
    BY <2>2 DEF Range
  <2>4. j # MaxFiles \/ f = MaxFiles + 1
    <3> SUFFICES ASSUME j = MaxFiles, f # MaxFiles + 1 PROVE FALSE
      OBVIOUS
    <3>1. From(i) < MaxFiles
      BY <1>1, <2>1 DEF From
    <3>2. lines[j][m] < lines[From(i)][k]
      BY <1>1, <2>1, <2>3, <3>1 DEF Contiguous
    <3>3. n >= lines[From(i)][k] /\ lines[From(i)][k] \in Nat /\ n \in Nat
      BY <1>1, <1>10, <2>1, <2>3
    <3> QED
      BY <2>3, <3>2, <3>3
  <2>5. PICK h \in 0..MaxFiles : h # f /\ From(h) = j
    BY <1>5, <2>4
  <2> QED
    BY <1>3, <2>2, <2>5
<1>11. Contiguous(new, last, missing)
  BY <1>6, <1>9, <1>10 DEF Contiguous
<1> QED
  BY <1>8, <1>11 DEF new

\* A decision that is logged goes to the end of the files, before or after a rotation.
LEMMA LogDecisionKeeps ==
  ASSUME LogInv, LogDecision
  PROVE  LogInv'
<1>1. Logged(files, decisions) /\ Contiguous(files, decisions, unwritten)
  BY DEF LogInv, LogIsContiguous
<1>2. CASE WriteFails
  BY <1>1, <1>2, NotWritten DEF WriteFails, LogInv, LogIsContiguous
<1>3. Logged(Appended, decisions + 1) /\ Contiguous(Appended, decisions + 1, unwritten)
  BY <1>1, Written DEF Appended
<1>4. CASE Write
  BY <1>3, <1>4 DEF Write, LogInv, LogIsContiguous
<1>5. ASSUME NEW f \in 0..(MaxFiles + 1), WriteAndRotate(f)
      PROVE  LogInv'
  BY <1>3, <1>5, RotationKeeps DEF WriteAndRotate, LogInv, LogIsContiguous
<1> QED
  BY <1>2, <1>4, <1>5 DEF LogDecision

\* Through moves that fail halfway, lines that are not written and restarts the log
\* stays in order, and what is missing was not written or is older than the rest.
THEOREM LogStaysContiguous == PolicySpec => []LogIsContiguous
<1>1. PolicyInit => LogInv
  <2> SUFFICES ASSUME PolicyInit PROVE LogInv
    OBVIOUS
  <2>1. files = [i \in 0..MaxFiles |-> <<>>] /\ decisions = 0
    BY DEF PolicyInit, LogInit
  <2>2. DOMAIN files = 0..MaxFiles /\ \A i \in 0..MaxFiles : DOMAIN files[i] = {}
    BY <2>1
  <2>3. files \in [0..MaxFiles -> Seq(Nat)]
    BY <2>1
  <2> QED
    BY <2>1, <2>2, <2>3 DEF LogInv, Logged, LogIsContiguous, Contiguous
<1>2. LogInv /\ [PolicyNext]_policyVars => LogInv'
  <2> SUFFICES ASSUME LogInv, [PolicyNext]_policyVars PROVE LogInv'
    OBVIOUS
  <2>1. CASE JudgeCall
    BY <2>1, LogDecisionKeeps DEF JudgeCall
  <2>2. CASE UNCHANGED <<files, decisions, unwritten>>
    BY <2>2 DEF LogInv, LogIsContiguous
  <2> QED
    BY <2>1, <2>2 DEF PolicyNext, Edit, Notice, Reload, SidecarRestarts, LogRestarts,
                      StartWatching, policyVars, logVars
<1>3. LogInv => LogIsContiguous
  BY DEF LogInv
<1> QED
  BY <1>1, <1>2, <1>3, PTL DEF PolicySpec
=============================================================================
