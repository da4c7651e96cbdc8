-------------------------- MODULE MCSessionAccess --------------------------
(***************************************************************************)
(* The phone of a cashier on two servers; the servers are interchangeable. *)
(***************************************************************************)
EXTENDS SessionAccess, TLC

CONSTANT cashier

MCMemberOf == [s \in Sessions |-> cashier]

MCSymmetry == Permutations(Instances)
=============================================================================
