----------------------------- MODULE MCAccount -----------------------------
(* One address, two phones that register and sign in, one payment, a grace    *)
(* period of one day and a clock that sees it end twice: dates are reached,   *)
(* passed and called off while a sweep is between its statements.             *)
EXTENDS Account
=============================================================================
