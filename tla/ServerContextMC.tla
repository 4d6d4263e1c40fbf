---------------------------- MODULE ServerContextMC ----------------------------
(***************************************************************************)
(* A context of six tokens, and prompts of no token, of one, of two, and   *)
(* of more than fit.                                                       *)
(***************************************************************************)
EXTENDS ServerContext

MCPrompts == {<<>>, <<"a">>, <<"b", "a">>, <<"b", "a", "b", "a", "a", "b", "a">>}
MCKeeps == {-1, 0}

===============================================================================
