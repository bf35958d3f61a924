-------------------------- MODULE MCRequestLedger --------------------------
(***************************************************************************)
(* RequestLedger on small limits.  MaxInt64 is 7, so the sums wrap around  *)
(* within reach of the arguments, and one argument is MaxInt64 itself.     *)
(***************************************************************************)
EXTENDS RequestLedger

SmallAmounts == {-2, -1, 0, 1, 2, 3, MaxInt64}
=============================================================================
