----------------------------- MODULE MCRlnDemo -----------------------------
(* The RLN demo with two checks per wait: enough for a wait to succeed     *)
(* after a failed check and to time out.                                   *)
EXTENDS RlnDemo

MCFundPolls == 2
MCMinePolls == 2
=============================================================================
