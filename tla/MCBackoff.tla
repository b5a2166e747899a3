----------------------------- MODULE MCBackoff -----------------------------
(* Backoff.tla for TLC: past factor 34, where the product first wraps into *)
(* a negative number, 55, where it is zero, and 63, where the conversion   *)
(* from float64 overflows.                                                 *)
EXTENDS Backoff
=============================================================================
