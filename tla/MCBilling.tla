----------------------------- MODULE MCBilling -----------------------------
(* Two payments over three days, a trial, a grace and months of a day: the    *)
(* second one meets the trial, the time of the first, its grace, its lapse.   *)
(* Two stores can be opened beside the first one, at once, or one after the   *)
(* other, on a plan of two or of one.                                         *)
EXTENDS Billing
=============================================================================
