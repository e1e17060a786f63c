----------------------------- MODULE MCHookEmit -----------------------------
(***************************************************************************)
(* Values for the constants of HookEmit: numbers and drops at the ends of  *)
(* their ranges, buffers of bytes that differ.                             *)
(***************************************************************************)
EXTENDS HookEmit

EndNumbers == {0, 1, Weight(4) - 1}
EndDrops == {0, 1, Weight(7), 2 * Weight(7) - 1, 64 * Weight(7) - 1}
TwoAccounts == {[k \in 1 .. 20 |-> k], [k \in 1 .. 20 |-> 21 - k]}
OneKey == {[k \in 1 .. 33 |-> k + 1]}
OneIssued == {[k \in 1 .. 48 |-> IF k = 1 THEN 212 ELSE k]}
TwoLedgers == {0, RADIX}

\* One fee is an error.
ThreeFees == {10, Weight(4), TOO_SMALL}
=============================================================================
