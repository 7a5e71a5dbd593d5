----------------------------- MODULE MCAuditLog -----------------------------
(***************************************************************************)
(* A small audit log for TLC.                                              *)
(***************************************************************************)
EXTENDS AuditReads, TLC

CONSTANTS h1, h2

MCHandlers == {h1, h2}
MCSymmetry == Permutations(MCHandlers)
=============================================================================
