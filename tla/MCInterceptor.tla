---------------------------- MODULE MCInterceptor ----------------------------
(***************************************************************************)
(* A session of a few lines, with a tool for each way a call can be        *)
(* decided, and a server whose request has the id of a client's request.   *)
(***************************************************************************)
EXTENDS SidecarSession

CONSTANTS logged, gated, broken

\* A call of broken is outside the scope of the token, if that is valid, and
\* otherwise meets the rule that throws.
MCTools == {logged, gated, broken}
MCScope == {logged, gated}
MCPolicy == [t \in MCTools |->
    CASE t = logged -> "log"
      [] t = gated  -> "require_approval"
      [] t = broken -> "throws"]
MCTokens == {"valid", "none", "chainless", "unreadable"}
=============================================================================
