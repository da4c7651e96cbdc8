---------------------------- MODULE MCStockLedger ----------------------------
(***************************************************************************)
(* Small stores for StockLedger: two products, a sale of one or of both,   *)
(* a delivery and a count.                                                 *)
(***************************************************************************)
EXTENDS StockLedger, TLC

CONSTANTS p1, p2, m1, m2, owner, staff1, staff2

MCMovementRow ==
  m1 :> [product |-> p1, kind |-> "change", quantity |-> 3]
  @@ m2 :> [product |-> p1, kind |-> "count", quantity |-> 5]

\* One product and both, in different quantities.
Lines(a, b) == [total |-> (p1 :> a @@ p2 :> b), each |-> (p1 :> {a} @@ p2 :> {b})]
MCLineChoices == {Lines(1, 0), Lines(2, 1)}

\* Two lines that name one product, beside a single one.
MCTwoLines == {Lines(1, 0), [total |-> (p1 :> 3 @@ p2 :> 0), each |-> (p1 :> {1, 2} @@ p2 :> {0})]}
=============================================================================
