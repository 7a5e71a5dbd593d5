----------------------------- MODULE MCHttpProxy -----------------------------
(***************************************************************************)
(* Two requests at a time, ids that collide, two registry processes that   *)
(* may each insert a key, and tokens signed with either key or with none,  *)
(* also such as the handler throws at.                                     *)
(***************************************************************************)
EXTENDS HttpProxy

MCToken(signer, shape, exp, jti, scope) ==
    [signer |-> signer, shape |-> shape, iss |-> "other", exp |-> exp,
     jti |-> jti, scope |-> scope]

MCStaticToken == MCToken(1, "core", 2, FALSE, TRUE)
MCTokens == {MCStaticToken,
             MCToken(2, "chainless", 9, TRUE, TRUE),
             MCToken(0, "null", 9, FALSE, FALSE),
             MCToken(0, "malformed", 9, FALSE, FALSE)}
=============================================================================
