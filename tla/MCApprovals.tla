----------------------------- MODULE MCApprovals -----------------------------
(***************************************************************************)
(* Two held calls, two approvals and a Slack channel for TLC.              *)
(***************************************************************************)
EXTENDS ApprovalNotifier

CONSTANTS c1, c2, p1, p2

MCCalls == {c1, c2}
MCApprovalIds == {p1, p2}
MCChannels == <<"slack">>
=============================================================================
