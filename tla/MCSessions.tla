----------------------------- MODULE MCSessions -----------------------------
(***************************************************************************)
(* Two logins whose callbacks may come twice and with each other's code,   *)
(* of one client with three requests in each stretch of two ticks.         *)
(***************************************************************************)
EXTENDS Sessions, TLC

CONSTANTS s1, s2

MCSlots == {s1, s2}
Symmetry == Permutations(MCSlots)
=============================================================================
