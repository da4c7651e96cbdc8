------------------------------ MODULE MCOutbox ------------------------------
(***************************************************************************)
(* The outbox of two stores: a product that is edited and sold, and one of *)
(* a store the plan does not include; and, with the names of one store     *)
(* only, two products of which one is refused for its name.                *)
(***************************************************************************)
EXTENDS Outbox, TLC

CONSTANTS p1, p2, s1, home, branch

\* The product with a sale is edited, the one of the other store only saved.
MCMaxVersion == p1 :> 3 @@ p2 :> 1

\* A product is given a name too long for the server: at its first save, or at
\* its second, which the third may put right.
MCTooLong == {<<p2, 1>>}
MCSecondTooLong == {<<p1, 2>>}

MCOf == s1 :> p1
MCOneSave == p1 :> 1 @@ p2 :> 1
MCOneStore == p1 :> home @@ p2 :> home
MCNoSales == <<>>
MCTwoStores == p1 :> home @@ s1 :> home @@ p2 :> branch
=============================================================================
