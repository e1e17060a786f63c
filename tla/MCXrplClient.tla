---------------------------- MODULE MCXrplClient ----------------------------
(* Nothing distinguishes two requests. *)
EXTENDS XrplClient, TLC

RequestSymmetry == Permutations(Request)
=============================================================================
