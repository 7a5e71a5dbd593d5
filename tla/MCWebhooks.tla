----------------------------- MODULE MCWebhooks -----------------------------
(***************************************************************************)
(* Two overlapping runs and the bodies of edits for TLC.                   *)
(***************************************************************************)
EXTENDS WebhookConfigs

CONSTANTS d1, d2, r1, r2, h1, h2, default, acme, revoked

MCRuns == {r1, r2}
MCUpdates == {[events |-> {}, enabled |-> {on}] : on \in BOOLEAN}
=============================================================================
