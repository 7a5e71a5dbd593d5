---------------------------- MODULE MessageFilter ----------------------------
(***************************************************************************)
(* What the sidecar promises between an MCP client and its server: lines   *)
(* are taken in the order they were sent, one by one, and each is          *)
(* delivered or refused as its ruling says, until the server exits.  After *)
(* that some may still be taken and refused, but none is delivered.        *)
(***************************************************************************)
EXTENDS Sequences

CONSTANTS
    Lines,   \* what a client may send
    Rulings  \* a set of [Lines -> SUBSET {"pass", "refuse"}]: for every line,
             \* whether it may pass, be refused, or either

VARIABLES
    ruling,     \* what applies to the lines of this session
    waiting,    \* sent, and not yet decided
    delivered,  \* in the order of delivery
    refused,    \* set of lines
    open        \* the server runs

vars == <<ruling, waiting, delivered, refused, open>>

Init ==
    /\ ruling \in Rulings
    /\ waiting = <<>> /\ delivered = <<>> /\ refused = {}
    /\ open = TRUE

Send(l) ==
    /\ open
    /\ waiting' = Append(waiting, l)
    /\ UNCHANGED <<ruling, delivered, refused, open>>

Rules(verdict) ==
    /\ waiting # <<>>
    /\ verdict \in ruling[Head(waiting)]
    /\ waiting' = Tail(waiting)

Deliver ==
    /\ open
    /\ Rules("pass")
    /\ delivered' = Append(delivered, Head(waiting))
    /\ UNCHANGED <<ruling, refused, open>>

Refuse ==
    /\ Rules("refuse")
    /\ refused' = refused \cup {Head(waiting)}
    /\ UNCHANGED <<ruling, delivered, open>>

Lose ==
    /\ ~open
    /\ Rules("pass")
    /\ UNCHANGED <<ruling, delivered, refused, open>>

Exit ==
    /\ open
    /\ open' = FALSE
    /\ UNCHANGED <<ruling, waiting, delivered, refused>>

Next == \/ \E l \in Lines : Send(l)
        \/ Deliver \/ Refuse \/ Lose \/ Exit

Spec == Init /\ [][Next]_vars

FairSpec == Spec /\ WF_vars(open /\ (Deliver \/ Refuse))
=============================================================================
