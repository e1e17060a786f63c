---------------------------- MODULE MCHookLines ----------------------------
(* Values for the constants of HookLines. *)
EXTENDS HookLines

\* A character without and with the 0 that ends a literal, and only that 0.
ShortStrings == {<<65>>, <<65, 0>>, <<0>>}
=============================================================================
