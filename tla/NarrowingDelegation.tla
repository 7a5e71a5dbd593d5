------------------------- MODULE NarrowingDelegation -------------------------
(***************************************************************************)
(* What delegation promises in Eigent, whoever implements it: authority    *)
(* is granted once and never changed; a grant that is made from another    *)
(* passes on nothing the other one may not, is one level further down, and *)
(* ends with it.  The registry keeps this promise with a table of agents,  *)
(* @eigent/core with nothing but the tokens it signs.                      *)
(***************************************************************************)
EXTENDS Integers

CONSTANTS
    Holders,  \* who may be granted something: agents, tokens
    Rights,   \* what may be granted: scope strings
    Nobody    \* what a grant is made from that is not made from another

VARIABLE grants  \* holder -> what was granted

\* `levels' is how many delegations are left below a grant (negative if its limit
\* was below its depth from the start); `lag' the time that passed between the
\* request for a grant and its date.
Grant == [from: Holders \cup {Nobody}, may: SUBSET Rights, passes: SUBSET Rights,
          levels: Int, until: Int, lag: Nat]

\* A grant against the one it is made from.
Narrower(g, source) ==
    /\ g.may \cup g.passes \subseteq source.passes
    /\ g.levels = source.levels - 1 /\ g.levels >= 0
    /\ g.until <= source.until + g.lag

Justified(g) ==
    \/ g.from = Nobody
    \/ g.from \in DOMAIN grants /\ Narrower(g, grants[g.from])

\* A holder is granted something for the first time.
Granting(h) ==
    /\ h \notin DOMAIN grants
    /\ grants' \in [DOMAIN grants \cup {h} -> Grant]
    /\ \A k \in DOMAIN grants : grants'[k] = grants[k]
    /\ Justified(grants'[h])

Init == grants \in [{} -> Grant]

Next == \E h \in Holders : Granting(h)

Spec == Init /\ [][Next]_grants
=============================================================================
