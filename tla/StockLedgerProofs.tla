-------------------------- MODULE StockLedgerProofs --------------------------
(***************************************************************************)
(* StockLedger keeps its ledger and implements StockBook, for every set of *)
(* sales, products, movements, actors and workers, provided no two first   *)
(* pushes of a sale overlap.                                               *)
(***************************************************************************)
EXTENDS StockLedger, TLAPS

(***************************************************************************)
(* The inductive invariant.                                                *)
(***************************************************************************)
\* A sale's row has one holder, and the transaction past its wait holds it.
RowLocks ==
  /\ \A v, w \in Workers, s \in Sales : HoldsSale(v, s) /\ HoldsSale(w, s) => v = w
  /\ \A w \in Workers : txn[w].kind \in {"sale", "void"} =>
       (txn[w].row <=> txn[w].at = "lines")

\* A product has one holder, and what a transaction still wants together with
\* what it holds covers the products its commit changes.
ProductLocks ==
  /\ \A v, w \in Workers, p \in Products : HoldsProduct(v, p) /\ HoldsProduct(w, p) => v = w
  /\ \A w \in Workers, p \in Products :
       /\ AtSale(w, "lines") /\ txn[w].lines.total[p] # 0 => p \in txn[w].want \cup txn[w].holds
       /\ AtSale(w, "lines") /\ txn[w].found /\ sale[txn[w].sale].lines.total[p] # 0 =>
            p \in txn[w].want \cup txn[w].holds
       /\ AtVoid(w, "lines") /\ sale[txn[w].sale].lines.total[p] # 0 =>
            p \in txn[w].want \cup txn[w].holds

\* What the SELECT saw is still so, and only one request works on a sale that
\* is not stored yet.
SeenHolds ==
  /\ \A w \in Workers :
       /\ AtSale(w, "select") => ~txn[w].found
       /\ AtSale(w, "insert") => ~txn[w].found /\ sale[txn[w].sale].status = "none"
       /\ AtSale(w, "lines") =>
            sale[txn[w].sale].status = (IF txn[w].found THEN "live" ELSE "none")
       /\ AtVoid(w, "lines") => sale[txn[w].sale].status = "live"
  /\ \A v, w \in Workers :
       /\ v # w /\ txn[v].kind = "sale" /\ txn[w].kind = "sale" /\ txn[v].sale = txn[w].sale
       => sale[txn[w].sale].status # "none"

\* A count still sees what it read.
CountHolds ==
  \A w \in Workers : AtMove(w, "insert") =>
    LET p == MovementRow[txn[w].move].product
    IN  txn[w].onHand = stock[p] /\ txn[w].holds = {p}

\* Before its row is inserted a product has no stock and nothing names it.
Unseen ==
  \A p \in Products : product[p] = "none" =>
    /\ stock[p] = 0 /\ ledger[p] = 0
    /\ \A s \in Sales : sale[s].lines.total[p] = 0
    /\ \A w \in Workers :
         /\ txn[w].kind = "sale" => txn[w].lines.total[p] = 0
         /\ AtMove(w, "insert") => MovementRow[txn[w].move].product # p

Locking == RowLocks /\ ProductLocks /\ SeenHolds /\ CountHolds

IInv == TypeOK /\ Locking /\ Unseen /\ SaleCountedOnce /\ StockMatchesLedger

(***************************************************************************)
(* Type correctness.                                                       *)
(***************************************************************************)
\* The kind of a request decides its fields.
LEMMA KindDecides ==
  ASSUME TypeOK, NEW w \in Workers
  PROVE  /\ txn[w].kind = "idle" => txn[w] = Idle
         /\ txn[w].kind = "sale" => txn[w] \in SaleTxn
         /\ txn[w].kind = "void" => txn[w] \in VoidTxn
         /\ txn[w].kind = "move" => txn[w] \in MoveTxn
BY DEF TypeOK, Idle, SaleTxn, VoidTxn, MoveTxn

\* A step that only changes what one worker does keeps every type.
LEMMA SetTxn ==
  ASSUME TypeOK, NEW w \in Workers,
         NEW t \in {Idle} \cup SaleTxn \cup VoidTxn \cup MoveTxn,
         txn' = [txn EXCEPT ![w] = t],
         UNCHANGED rows, received' \in Nat
  PROVE  TypeOK'
BY DEF TypeOK, rows

\* Lines are made of functions from products to numbers.
LEMMA LinesAreCounts ==
  /\ Nothing \in [Products -> Nat]
  /\ NoLines.total = Nothing
  /\ \A lines \in LineChoices \cup {NoLines} : lines.total \in [Products -> Nat]
  /\ \A lines : InLines(lines) \subseteq Products
BY LinesAssumption DEF Nothing, NoLines, IsLines, InLines

\* What is given back for some lines: nothing for a product they do not name,
\* and what they take of a product they name once.
LEMMA GivenBackFacts ==
  ASSUME NEW lines \in LineChoices \cup {NoLines}, NEW back \in GivenBack(lines)
  PROVE  /\ back \in [Products -> Nat]
         /\ \A p \in Products : lines.total[p] = 0 => back[p] = 0
         /\ \A p \in Products : NamedOnce(p) => back[p] = lines.total[p]
<1>1. IsLines(lines)
  <2>1. CASE lines \in LineChoices
    BY <2>1, LinesAssumption
  <2>2. CASE lines = NoLines
    <3>1. /\ lines.total = [p \in Products |-> 0]
          /\ lines.each = [p \in Products |-> {0}]
          /\ lines = [total |-> lines.total, each |-> lines.each]
      BY <2>2 DEF NoLines, Nothing
    <3>2. 0 \in Nat /\ {0} \subseteq 0..0
      OBVIOUS
    <3> QED BY <3>1, <3>2 DEF IsLines
  <2> QED BY <2>1, <2>2
<1>2. /\ back = [p \in Products |-> back[p]]
      /\ \A p \in Products : back[p] \in lines.each[p]
  BY DEF GivenBack
<1>3. ASSUME NEW p \in Products
      PROVE  /\ back[p] \in Nat /\ back[p] <= lines.total[p] /\ lines.total[p] \in Nat
  BY <1>1, <1>2 DEF IsLines
<1>4. ASSUME NEW p \in Products, NamedOnce(p) PROVE back[p] = lines.total[p]
  <2>1. CASE lines \in LineChoices
    BY <1>2, <1>4, <2>1 DEF NamedOnce
  <2>2. CASE lines = NoLines
    BY <1>3, <2>2, LinesAreCounts DEF Nothing
  <2> QED BY <2>1, <2>2
<1> QED BY <1>2, <1>3, <1>4

\* So are the lines a sale's row holds and the movements recorded against it.
LEMMA RowsAreCounts ==
  ASSUME TypeOK, NEW s \in Sales
  PROVE  /\ sale[s].lines \in LineChoices \cup {NoLines}
         /\ sale[s].lines.total \in [Products -> Nat]
         /\ saleRows[s] \in [Products -> Int]
<1>1. sale[s].lines \in LineChoices \cup {NoLines}
  BY DEF TypeOK
<1>2. sale[s].lines.total \in [Products -> Nat]
  BY ONLY <1>1, LinesAreCounts, Zenon
<1>3. saleRows[s] \in [Products -> Int]
  BY DEF TypeOK
<1> QED BY <1>1, <1>2, <1>3

\* The request of a committing sale.
LEMMA CommittingSale ==
  ASSUME TypeOK, NEW w \in Workers, CommitSale(w)
  PROVE  LET t == txn[w] IN
         /\ t \in SaleTxn /\ t.sale \in Sales
         /\ t.lines \in LineChoices /\ t.lines.total \in [Products -> Nat]
<1>1. txn[w] \in SaleTxn
  BY KindDecides DEF CommitSale, AtSale
<1>2. txn[w].sale \in Sales /\ txn[w].lines \in LineChoices
  BY <1>1 DEF SaleTxn
<1>3. txn[w].lines.total \in [Products -> Nat]
  BY <1>2, LinesAreCounts
<1> QED BY <1>1, <1>2, <1>3

\* What it does to the stock.
LEMMA SaleCommit ==
  ASSUME TypeOK, NEW w \in Workers, CommitSale(w)
  PROVE  LET t == txn[w] IN
         \E back \in [Products -> Nat] :
           /\ stock' = [p \in Products |-> stock[p] + back[p] - t.lines.total[p]]
           /\ ~t.found => back = Nothing
           /\ t.found => \A p \in Products :
                /\ sale[t.sale].lines.total[p] = 0 => back[p] = 0
                /\ NamedOnce(p) => back[p] = sale[t.sale].lines.total[p]
<1>2. txn[w].sale \in Sales
  BY CommittingSale
<1>3. PICK back \in Restored(txn[w]) :
        stock' = [p \in Products |-> stock[p] + back[p] - txn[w].lines.total[p]]
  BY DEF CommitSale
<1>4. CASE txn[w].found
  BY <1>2, <1>3, <1>4, RowsAreCounts, GivenBackFacts DEF Restored
<1>5. CASE ~txn[w].found
  BY <1>2, <1>3, <1>5, LinesAreCounts DEF Restored
<1> QED BY <1>4, <1>5

\* The request of a committing void.
LEMMA CommittingVoid ==
  ASSUME TypeOK, NEW w \in Workers, CommitVoid(w)
  PROVE  LET t == txn[w] IN
         t \in VoidTxn /\ t.sale \in Sales
<1>1. txn[w] \in VoidTxn
  BY KindDecides DEF CommitVoid, AtVoid
<1>2. txn[w].sale \in Sales
  BY <1>1 DEF VoidTxn
<1> QED BY <1>1, <1>2

\* What it does to the stock.
LEMMA VoidCommit ==
  ASSUME TypeOK, NEW w \in Workers, CommitVoid(w)
  PROVE  \E back \in [Products -> Nat] :
           /\ stock' = [p \in Products |-> stock[p] + back[p]]
           /\ \A p \in Products :
                /\ sale[txn[w].sale].lines.total[p] = 0 => back[p] = 0
                /\ NamedOnce(p) => back[p] = sale[txn[w].sale].lines.total[p]
<1>2. txn[w].sale \in Sales
  BY CommittingVoid
<1>3. PICK back \in GivenBack(sale[txn[w].sale].lines) :
        stock' = [p \in Products |-> stock[p] + back[p]]
  BY DEF CommitVoid
<1> QED BY <1>2, <1>3, RowsAreCounts, GivenBackFacts

LEMMA TypeInit == Init => TypeOK
BY OwnerAssumption DEF Init, TypeOK, Nothing, Idle

\* Each step of a transaction leaves it a transaction, idle or further on.
LEMMA TypeStep == TypeOK /\ [Next]_vars => TypeOK'
<1> SUFFICES ASSUME TypeOK, [Next]_vars PROVE TypeOK'
  OBVIOUS
<1>0. received \in Nat /\ received + 1 \in Nat
  BY DEF TypeOK
<1>1. ASSUME NEW w \in Workers, Receive(w) PROVE TypeOK'
  <2> DEFINE saleTxn(s, lines, by) ==
               [kind |-> "sale", at |-> "select", sale |-> s, lines |-> lines, by |-> by,
                found |-> FALSE, row |-> FALSE, want |-> {}, holds |-> {}]
             voidTxn(s) == [kind |-> "void", at |-> "update", sale |-> s, row |-> FALSE,
                            want |-> {}, holds |-> {}]
             moveTxn(m) == [kind |-> "move", at |-> "lock", move |-> m, onHand |-> 0,
                            holds |-> {}]
  <2>1. ASSUME NEW s \in Sales, NEW lines \in LineChoices, NEW by \in Actors,
               ReceiveSale(w, s, lines, by)
        PROVE  TypeOK'
    <3>1. saleTxn(s, lines, by) \in SaleTxn
      BY DEF SaleTxn
    <3> QED BY <1>0, <2>1, <3>1, SetTxn DEF ReceiveSale, Begin
  <2>2. ASSUME NEW s \in Sales, ReceiveVoid(w, s) PROVE TypeOK'
    <3>1. voidTxn(s) \in VoidTxn
      BY DEF VoidTxn
    <3> QED BY <1>0, <2>2, <3>1, SetTxn DEF ReceiveVoid, Begin
  <2>3. ASSUME NEW m \in Movements, ReceiveMove(w, m) PROVE TypeOK'
    <3>1. moveTxn(m) \in MoveTxn
      BY DEF MoveTxn
    <3> QED BY <1>0, <2>3, <3>1, SetTxn DEF ReceiveMove, Begin
  <2> QED BY <1>1, <2>1, <2>2, <2>3 DEF Receive
<1>2. ASSUME NEW w \in Workers, Proceed(w) PROVE TypeOK'
  <2>0. ASSUME NEW t \in SaleTxn \cup VoidTxn \cup MoveTxn, Step(w, t) PROVE TypeOK'
    BY <1>0, <2>0, SetTxn DEF Step
  <2>00. ASSUME End(w) PROVE TypeOK'
    BY <1>0, <2>00, SetTxn DEF End
  <2>1. CASE SelectMissing(w)
    <3>0. txn[w] \in SaleTxn
      BY <2>1, KindDecides DEF SelectMissing, AtSale
    <3>1. [txn[w] EXCEPT !.at = "insert"] \in SaleTxn
      BY <3>0 DEF SaleTxn
    <3> QED BY <2>0, <2>1, <3>1 DEF SelectMissing
  <2>2. CASE SelectRefused(w)
    BY <1>0, <2>00, <2>2 DEF SelectRefused
  <2>3. CASE SelectFound(w)
    <3> DEFINE new == [txn[w] EXCEPT !.at = "lines", !.found = TRUE, !.row = TRUE,
                         !.want = InLines(sale[txn[w].sale].lines) \cup InLines(txn[w].lines)]
    <3>0. txn[w] \in SaleTxn
      BY <2>3, KindDecides DEF SelectFound, AtSale
    <3>1. new \in SaleTxn
      BY <3>0, LinesAreCounts DEF SaleTxn
    <3> QED BY <2>0, <2>3, <3>1 DEF SelectFound
  <2>4. CASE InsertSale(w)
    <3>0. txn[w] \in SaleTxn
      BY <2>4, KindDecides DEF InsertSale, AtSale
    <3>1. [txn[w] EXCEPT !.at = "lines", !.row = TRUE, !.want = InLines(txn[w].lines)]
            \in SaleTxn
      BY <3>0, LinesAreCounts DEF SaleTxn
    <3> QED BY <2>0, <2>4, <3>1 DEF InsertSale
  <2>5. ASSUME NEW p \in Products, LockProduct(w, p) PROVE TypeOK'
    <3>0. txn[w] \in SaleTxn \cup VoidTxn
      BY <2>5, KindDecides DEF LockProduct
    <3>1. [txn[w] EXCEPT !.want = @ \ {p}, !.holds = @ \cup {p}] \in SaleTxn \cup VoidTxn
      BY <3>0 DEF SaleTxn, VoidTxn
    <3> QED BY <2>0, <2>5, <3>1 DEF LockProduct
  <2>6. CASE CommitSale(w)
    <3> DEFINE t == txn[w]
    <3>1. t \in SaleTxn
      BY <2>6, KindDecides DEF CommitSale, AtSale
    <3>2. /\ t.sale \in Sales
          /\ sale[t.sale].lines.total \in [Products -> Nat]
          /\ t.lines.total \in [Products -> Nat]
          /\ saleRows[t.sale] \in [Products -> Int]
      <4>1. t.sale \in Sales /\ t.lines \in LineChoices
        BY <3>1 DEF SaleTxn
      <4> QED BY <2>6, <4>1, CommittingSale, RowsAreCounts
    <3>3. Stored(sale[t.sale], t) \in [status : {"none", "live", "voided"}, by : Actors,
                                      lines : LineChoices \cup {NoLines}]
      BY <3>1, <3>2 DEF TypeOK, SaleTxn, Stored
    <3>4. sale' \in [Sales -> [status : {"none", "live", "voided"}, by : Actors,
                              lines : LineChoices \cup {NoLines}]]
      BY <2>6, <3>2, <3>3 DEF TypeOK, CommitSale
    <3>5. stock' \in [Products -> Int]
      BY <2>6, <3>2, SaleCommit DEF TypeOK
    <3>6. Retired(t) \in [Products -> Int]
      BY <3>2, LinesAreCounts DEF Retired
    <3>7. ledger' \in [Products -> Int] /\ saleRows' \in [Sales -> [Products -> Int]]
      <4> DEFINE retired == Retired(t)
                 taken == t.lines.total
      <4>1. /\ ledger' = [p \in Products |-> ledger[p] - retired[p] - taken[p]]
            /\ saleRows' = [saleRows EXCEPT ![t.sale] =
                 [p \in Products |-> saleRows[t.sale][p] - retired[p] - taken[p]]]
        BY <2>6 DEF CommitSale
      <4>2. retired \in [Products -> Int] /\ taken \in [Products -> Nat]
        BY <3>2, <3>6
      <4> HIDE DEF retired, taken
      <4> QED BY <3>2, <4>1, <4>2 DEF TypeOK
    <3> QED BY <2>6, <3>4, <3>5, <3>7 DEF TypeOK, CommitSale
  <2>7. CASE VoidNothing(w)
    <3>1. txn[w].sale \in Sales
      BY <2>7, KindDecides DEF VoidNothing, AtVoid, VoidTxn
    <3> QED BY <1>0, <2>00, <2>7, <3>1 DEF VoidNothing
  <2>8. CASE VoidFound(w)
    <3>1. [txn[w] EXCEPT !.at = "lines", !.row = TRUE,
             !.want = InLines(sale[txn[w].sale].lines)] \in VoidTxn
      BY <2>8, KindDecides, LinesAreCounts DEF VoidFound, AtVoid, VoidTxn
    <3> QED BY <2>0, <2>8, <3>1 DEF VoidFound
  <2>9. CASE CommitVoid(w)
    <3>1. txn[w].sale \in Sales
      BY <2>9, KindDecides DEF CommitVoid, AtVoid, VoidTxn
    <3>2. sale[txn[w].sale].lines.total \in [Products -> Nat]
          /\ saleRows[txn[w].sale] \in [Products -> Int] /\ Nothing \in [Products -> Int]
      BY <3>1, RowsAreCounts DEF Nothing
    <3>3. stock' \in [Products -> Int] /\ ledger' \in [Products -> Int]
          /\ saleRows' \in [Sales -> [Products -> Int]]
      <4>1. stock' \in [Products -> Int]
        BY <2>9, VoidCommit DEF TypeOK
      <4>2. ledger' \in [Products -> Int] /\ saleRows' \in [Sales -> [Products -> Int]]
        <5>1. /\ ledger' = [p \in Products |-> ledger[p] - saleRows[txn[w].sale][p]]
              /\ saleRows' = [saleRows EXCEPT ![txn[w].sale] = Nothing]
          BY <2>9 DEF CommitVoid
        <5> QED BY <3>1, <3>2, <5>1 DEF TypeOK
      <4> QED BY <4>1, <4>2
    <3>4. sale' \in [Sales -> [status : {"none", "live", "voided"}, by : Actors,
                              lines : LineChoices \cup {NoLines}]]
      BY <2>9, <3>1 DEF TypeOK, CommitVoid
    <3> QED BY <2>9, <3>1, <3>3, <3>4 DEF TypeOK, CommitVoid
  <2>10. CASE LockOnHand(w)
    <3> DEFINE p == MovementRow[txn[w].move].product
    <3>1. txn[w] \in MoveTxn
      BY <2>10, KindDecides DEF LockOnHand, AtMove
    <3>2. p \in Products /\ stock[p] \in Int
      BY <3>1, MovementAssumption DEF TypeOK, MoveTxn
    <3>3. [txn[w] EXCEPT !.at = "insert", !.onHand = stock[p], !.holds = {p}] \in MoveTxn
      BY <3>1, <3>2 DEF MoveTxn
    <3> QED BY <2>0, <2>10, <3>3 DEF LockOnHand
  <2>11. CASE MoveRefused(w)
    BY <1>0, <2>00, <2>11 DEF MoveRefused
  <2>12. CASE MoveRepeated(w)
    BY <1>0, <2>00, <2>12 DEF MoveRepeated
  <2>13. CASE CommitMove(w)
    <3> DEFINE m == MovementRow[txn[w].move]
    <3>1. txn[w] \in MoveTxn
      BY <2>13, KindDecides DEF CommitMove, AtMove
    <3>2. /\ txn[w].move \in Movements /\ m.product \in Products /\ m.quantity \in Int
          /\ txn[w].onHand \in Int
      BY <3>1, MovementAssumption DEF MoveTxn
    <3>3. stock' \in [Products -> Int] /\ ledger' \in [Products -> Int]
      BY <2>13, <3>2 DEF TypeOK, CommitMove, Delta
    <3> QED BY <2>13, <3>2, <3>3 DEF TypeOK, CommitMove
  <2>14. CASE BreakDeadlock(w)
    BY <1>0, <2>00, <2>14 DEF BreakDeadlock
  <2> QED BY <1>2, <2>1, <2>2, <2>3, <2>4, <2>5, <2>6, <2>7, <2>8, <2>9, <2>10, <2>11,
             <2>12, <2>13, <2>14 DEF Proceed
<1>3. ASSUME NEW w \in Workers, Abort(w) PROVE TypeOK'
  BY <1>0, <1>3, SetTxn DEF Abort, End
<1>4. ASSUME NEW p \in Products, NEW q \in Openings, SaveProduct(p, q) PROVE TypeOK'
  BY <1>4, OpeningAssumption DEF TypeOK, SaveProduct
<1>5. ASSUME NEW p \in Products, RemoveProduct(p) PROVE TypeOK'
  BY <1>5 DEF TypeOK, RemoveProduct
<1>6. CASE UNCHANGED vars
  BY <1>6 DEF TypeOK, vars
<1> QED BY <1>1, <1>2, <1>3, <1>4, <1>5, <1>6 DEF Next

\* The rows of the database and the requests in flight keep their types
\* through every interleaving.
THEOREM TypeCorrect == Spec => []TypeOK
<1>1. Init => TypeOK
  BY TypeInit
<1>2. TypeOK /\ [Next]_vars => TypeOK'
  BY TypeStep
<1> QED BY <1>1, <1>2, PTL DEF Spec

(***************************************************************************)
(* Locking.                                                                *)
(***************************************************************************)
LEMMA LockingInit == Init => Locking
BY DEF Init, Locking, RowLocks, ProductLocks, SeenHolds, CountHolds, HoldsSale, OnSale,
       HoldsProduct, AtSale, AtVoid, AtMove, Idle

LEMMA RowLocksStep ==
  ASSUME TypeOK, Locking, [Next]_vars
  PROVE  RowLocks'
<1> USE KindDecides DEF TypeOK, Locking, RowLocks, HoldsSale, OnSale, SaleFree, AtSale,
    AtVoid, AtMove, rows, Idle, SaleTxn, VoidTxn, MoveTxn
<1>1. ASSUME NEW w \in Workers, NEW s \in Sales, NEW lines \in LineChoices, NEW by \in Actors,
             ReceiveSale(w, s, lines, by)
      PROVE  RowLocks'
  BY <1>1 DEF ReceiveSale, Begin
<1>2. ASSUME NEW w \in Workers, NEW s \in Sales, ReceiveVoid(w, s) PROVE RowLocks'
  BY <1>2 DEF ReceiveVoid, Begin
<1>3. ASSUME NEW w \in Workers, NEW m \in Movements, ReceiveMove(w, m) PROVE RowLocks'
  BY <1>3 DEF ReceiveMove, Begin
<1>4. ASSUME NEW w \in Workers, SelectMissing(w) PROVE RowLocks'
  BY <1>4 DEF SelectMissing, Step, End
<1>5. ASSUME NEW w \in Workers, SelectRefused(w) PROVE RowLocks'
  BY <1>5 DEF SelectRefused, Step, End
<1>6. ASSUME NEW w \in Workers, SelectFound(w) PROVE RowLocks'
  BY <1>6 DEF SelectFound, Step, End
<1>7. ASSUME NEW w \in Workers, InsertSale(w) PROVE RowLocks'
  BY <1>7 DEF InsertSale, Step, End
<1>8. ASSUME NEW w \in Workers, CommitSale(w) PROVE RowLocks'
  BY <1>8 DEF CommitSale, Step, End
<1>9. ASSUME NEW w \in Workers, VoidNothing(w) PROVE RowLocks'
  BY <1>9 DEF VoidNothing, Step, End
<1>10. ASSUME NEW w \in Workers, VoidFound(w) PROVE RowLocks'
  BY <1>10 DEF VoidFound, Step, End
<1>11. ASSUME NEW w \in Workers, CommitVoid(w) PROVE RowLocks'
  BY <1>11 DEF CommitVoid, Step, End
<1>12. ASSUME NEW w \in Workers, LockOnHand(w) PROVE RowLocks'
  BY <1>12 DEF LockOnHand, Step, End
<1>13. ASSUME NEW w \in Workers, MoveRefused(w) PROVE RowLocks'
  BY <1>13 DEF MoveRefused, Step, End
<1>14. ASSUME NEW w \in Workers, MoveRepeated(w) PROVE RowLocks'
  BY <1>14 DEF MoveRepeated, Step, End
<1>15. ASSUME NEW w \in Workers, CommitMove(w) PROVE RowLocks'
  BY <1>15 DEF CommitMove, Step, End
<1>16. ASSUME NEW w \in Workers, BreakDeadlock(w) PROVE RowLocks'
  BY <1>16 DEF BreakDeadlock, Step, End
<1>17. ASSUME NEW w \in Workers, NEW p \in Products, LockProduct(w, p) PROVE RowLocks'
  BY <1>17 DEF LockProduct, Step, ProductFree
<1>18. ASSUME NEW w \in Workers, Abort(w) PROVE RowLocks'
  BY <1>18 DEF Abort, End
<1>19. ASSUME NEW p \in Products, NEW q \in Openings, SaveProduct(p, q) PROVE RowLocks'
  BY <1>19 DEF SaveProduct
<1>20. CASE UNCHANGED vars
  BY <1>20 DEF vars
<1>21. ASSUME NEW p \in Products, RemoveProduct(p) PROVE RowLocks'
  BY <1>21 DEF RemoveProduct
<1> QED BY <1>1, <1>2, <1>3, <1>4, <1>5, <1>6, <1>7, <1>8, <1>9, <1>10, <1>11, <1>12,
    <1>13, <1>14, <1>15, <1>16, <1>17, <1>18, <1>19, <1>20, <1>21 DEF Next, Receive, Proceed

\* A transaction that finds its sale wants the products of both sets of lines.
LEMMA SelectFoundKeepsProducts ==
  ASSUME TypeOK, ProductLocks, NEW w \in Workers, SelectFound(w)
  PROVE  ProductLocks'
<1> DEFINE new == [txn[w] EXCEPT !.at = "lines", !.found = TRUE, !.row = TRUE,
                     !.want = InLines(sale[txn[w].sale].lines) \cup InLines(txn[w].lines)]
<1>1. txn[w] \in SaleTxn /\ txn[w].kind = "sale"
  BY KindDecides DEF SelectFound, AtSale
<1>2. /\ new.kind = "sale" /\ new.at = "lines" /\ new.holds = txn[w].holds
      /\ new.sale = txn[w].sale /\ new.lines = txn[w].lines
      /\ new.want = InLines(sale[txn[w].sale].lines) \cup InLines(txn[w].lines)
  BY <1>1 DEF SaleTxn
<1>3. txn' = [txn EXCEPT ![w] = new] /\ UNCHANGED sale
  BY DEF SelectFound, Step, rows
<1> HIDE DEF new
<1>4. txn'[w] = new /\ \A v \in Workers : v # w => txn'[v] = txn[v]
  BY <1>3 DEF TypeOK
<1>5. ASSUME NEW p \in Products
      PROVE  /\ txn[w].lines.total[p] # 0 => p \in new.want
             /\ sale[txn[w].sale].lines.total[p] # 0 => p \in new.want
  <2>1. txn[w].sale \in Sales /\ txn[w].lines.total \in [Products -> Nat]
    BY <1>1, LinesAreCounts DEF SaleTxn
  <2>2. sale[txn[w].sale].lines.total \in [Products -> Nat]
    BY <2>1, RowsAreCounts
  <2> QED  BY <1>2, <2>1, <2>2 DEF InLines
<1>6. \A v \in Workers, p \in Products : HoldsProduct(v, p)' <=> HoldsProduct(v, p)
  BY <1>1, <1>2, <1>4 DEF HoldsProduct
<1>7. \A u, v \in Workers, p \in Products : HoldsProduct(u, p)' /\ HoldsProduct(v, p)' => u = v
  BY <1>6 DEF ProductLocks
<1>8. ASSUME NEW v \in Workers, NEW p \in Products
      PROVE  /\ AtSale(v, "lines")' /\ txn'[v].lines.total[p] # 0 =>
                  p \in txn'[v].want \cup txn'[v].holds
             /\ AtSale(v, "lines")' /\ txn'[v].found /\ sale'[txn'[v].sale].lines.total[p] # 0 =>
                  p \in txn'[v].want \cup txn'[v].holds
             /\ AtVoid(v, "lines")' /\ sale'[txn'[v].sale].lines.total[p] # 0 =>
                  p \in txn'[v].want \cup txn'[v].holds
  <2>1. CASE v = w
    BY <1>2, <1>3, <1>4, <1>5, <2>1
  <2>2. CASE v # w
    BY <1>3, <1>4, <2>2 DEF ProductLocks, AtSale, AtVoid
  <2> QED  BY <2>1, <2>2
<1> QED  BY <1>7, <1>8 DEF ProductLocks

LEMMA ProductLocksStep ==
  ASSUME TypeOK, Locking, [Next]_vars
  PROVE  ProductLocks'
<1> USE KindDecides, LinesAreCounts DEF TypeOK, Locking, ProductLocks, RowLocks,
    SeenHolds, CountHolds, HoldsSale, OnSale, HoldsProduct, SaleFree, ProductFree, AtSale,
    AtVoid, AtMove, InLines, rows, Idle, SaleTxn, VoidTxn, MoveTxn
<1>1. ASSUME NEW w \in Workers, NEW s \in Sales, NEW lines \in LineChoices, NEW by \in Actors,
             ReceiveSale(w, s, lines, by)
      PROVE  ProductLocks'
  BY <1>1 DEF ReceiveSale, Begin
<1>2. ASSUME NEW w \in Workers, NEW s \in Sales, ReceiveVoid(w, s) PROVE ProductLocks'
  BY <1>2 DEF ReceiveVoid, Begin
<1>3. ASSUME NEW w \in Workers, NEW m \in Movements, ReceiveMove(w, m) PROVE ProductLocks'
  BY <1>3 DEF ReceiveMove, Begin
<1>4. ASSUME NEW w \in Workers, SelectMissing(w) PROVE ProductLocks'
  BY <1>4 DEF SelectMissing, Step, End
<1>5. ASSUME NEW w \in Workers, SelectRefused(w) PROVE ProductLocks'
  BY <1>5 DEF SelectRefused, Step, End
<1>6. ASSUME NEW w \in Workers, SelectFound(w) PROVE ProductLocks'
  BY ONLY TypeOK, ProductLocks, Locking, <1>6, SelectFoundKeepsProducts
<1>7. ASSUME NEW w \in Workers, InsertSale(w) PROVE ProductLocks'
  BY <1>7 DEF InsertSale, Step, End
<1>8. ASSUME NEW w \in Workers, CommitSale(w) PROVE ProductLocks'
  BY <1>8 DEF CommitSale, Step, End
<1>9. ASSUME NEW w \in Workers, VoidNothing(w) PROVE ProductLocks'
  BY <1>9 DEF VoidNothing, Step, End
<1>10. ASSUME NEW w \in Workers, VoidFound(w) PROVE ProductLocks'
  <2>1. sale[txn[w].sale].lines.total \in [Products -> Nat]
    BY <1>10 DEF VoidFound
  <2>2. txn' = [txn EXCEPT ![w] = [txn[w] EXCEPT !.at = "lines", !.row = TRUE,
                                     !.want = InLines(sale[txn[w].sale].lines)]]
        /\ sale' = sale
    BY <1>10 DEF VoidFound, Step
  <2>3. txn[w] \in VoidTxn
    BY <1>10 DEF VoidFound
  <2>4. \A p \in Products : sale[txn[w].sale].lines.total[p] # 0 => p \in txn'[w].want
    BY <2>1, <2>2, <2>3
  <2>5. /\ txn'[w].kind = "void" /\ txn'[w].holds = txn[w].holds /\ txn'[w].sale = txn[w].sale
        /\ \A v \in Workers \ {w} : txn'[v] = txn[v]
    BY <2>2, <2>3
  <2> QED BY <2>2, <2>3, <2>4, <2>5
<1>11. ASSUME NEW w \in Workers, CommitVoid(w) PROVE ProductLocks'
  BY <1>11 DEF CommitVoid, Step, End
<1>12. ASSUME NEW w \in Workers, LockOnHand(w) PROVE ProductLocks'
  BY <1>12 DEF LockOnHand, Step, End
<1>13. ASSUME NEW w \in Workers, MoveRefused(w) PROVE ProductLocks'
  BY <1>13 DEF MoveRefused, Step, End
<1>14. ASSUME NEW w \in Workers, MoveRepeated(w) PROVE ProductLocks'
  BY <1>14 DEF MoveRepeated, Step, End
<1>15. ASSUME NEW w \in Workers, CommitMove(w) PROVE ProductLocks'
  BY <1>15 DEF CommitMove, Step, End
<1>16. ASSUME NEW w \in Workers, BreakDeadlock(w) PROVE ProductLocks'
  BY <1>16 DEF BreakDeadlock, Step, End
<1>17. ASSUME NEW w \in Workers, NEW p \in Products, LockProduct(w, p) PROVE ProductLocks'
  BY <1>17 DEF LockProduct, Step, ProductFree
<1>18. ASSUME NEW w \in Workers, Abort(w) PROVE ProductLocks'
  BY <1>18 DEF Abort, End
<1>19. ASSUME NEW p \in Products, NEW q \in Openings, SaveProduct(p, q) PROVE ProductLocks'
  BY <1>19 DEF SaveProduct
<1>20. CASE UNCHANGED vars
  BY <1>20 DEF vars
<1>21. ASSUME NEW p \in Products, RemoveProduct(p) PROVE ProductLocks'
  BY <1>21 DEF RemoveProduct
<1> QED BY <1>1, <1>2, <1>3, <1>4, <1>5, <1>6, <1>7, <1>8, <1>9, <1>10, <1>11, <1>12,
    <1>13, <1>14, <1>15, <1>16, <1>17, <1>18, <1>19, <1>20, <1>21 DEF Next, Receive, Proceed

LEMMA SeenHoldsStep ==
  ASSUME TypeOK, Locking, [Next]_vars, SerialFirstPush
  PROVE  SeenHolds'
<1> USE KindDecides DEF TypeOK, Locking, ProductLocks, RowLocks, SeenHolds, HoldsSale,
    OnSale, SaleFree, AtSale, AtVoid, AtMove, rows, Idle, SaleTxn, VoidTxn, MoveTxn,
    Stored
<1>1. ASSUME NEW w \in Workers, NEW s \in Sales, NEW lines \in LineChoices, NEW by \in Actors,
             ReceiveSale(w, s, lines, by)
      PROVE  SeenHolds'
  BY <1>1 DEF ReceiveSale, Begin
<1>2. ASSUME NEW w \in Workers, NEW s \in Sales, ReceiveVoid(w, s) PROVE SeenHolds'
  BY <1>2 DEF ReceiveVoid, Begin
<1>3. ASSUME NEW w \in Workers, NEW m \in Movements, ReceiveMove(w, m) PROVE SeenHolds'
  BY <1>3 DEF ReceiveMove, Begin
<1>4. ASSUME NEW w \in Workers, SelectMissing(w) PROVE SeenHolds'
  BY <1>4 DEF SelectMissing, Step, End
<1>5. ASSUME NEW w \in Workers, SelectRefused(w) PROVE SeenHolds'
  BY <1>5 DEF SelectRefused, Step, End
<1>6. ASSUME NEW w \in Workers, SelectFound(w) PROVE SeenHolds'
  BY <1>6 DEF SelectFound, Step, End, Final, MayReplace
<1>7. ASSUME NEW w \in Workers, InsertSale(w) PROVE SeenHolds'
  BY <1>7 DEF InsertSale, Step, End
<1>8. ASSUME NEW w \in Workers, CommitSale(w) PROVE SeenHolds'
  BY <1>8 DEF CommitSale, Step, End
<1>9. ASSUME NEW w \in Workers, VoidNothing(w) PROVE SeenHolds'
  BY <1>9 DEF VoidNothing, Step, End
<1>10. ASSUME NEW w \in Workers, VoidFound(w) PROVE SeenHolds'
  BY <1>10 DEF VoidFound, Step, End
<1>11. ASSUME NEW w \in Workers, CommitVoid(w) PROVE SeenHolds'
  BY <1>11 DEF CommitVoid, Step, End
<1>12. ASSUME NEW w \in Workers, LockOnHand(w) PROVE SeenHolds'
  BY <1>12 DEF LockOnHand, Step, End
<1>13. ASSUME NEW w \in Workers, MoveRefused(w) PROVE SeenHolds'
  BY <1>13 DEF MoveRefused, Step, End
<1>14. ASSUME NEW w \in Workers, MoveRepeated(w) PROVE SeenHolds'
  BY <1>14 DEF MoveRepeated, Step, End
<1>15. ASSUME NEW w \in Workers, CommitMove(w) PROVE SeenHolds'
  BY <1>15 DEF CommitMove, Step, End
<1>16. ASSUME NEW w \in Workers, BreakDeadlock(w) PROVE SeenHolds'
  BY <1>16 DEF BreakDeadlock, Step, End
<1>17. ASSUME NEW w \in Workers, NEW p \in Products, LockProduct(w, p) PROVE SeenHolds'
  BY <1>17 DEF LockProduct, Step, ProductFree
<1>18. ASSUME NEW w \in Workers, Abort(w) PROVE SeenHolds'
  BY <1>18 DEF Abort, End
<1>19. ASSUME NEW p \in Products, NEW q \in Openings, SaveProduct(p, q) PROVE SeenHolds'
  BY <1>19 DEF SaveProduct
<1>20. CASE UNCHANGED vars
  BY <1>20 DEF vars
<1>21. ASSUME NEW p \in Products, RemoveProduct(p) PROVE SeenHolds'
  BY <1>21 DEF RemoveProduct
<1> QED BY <1>1, <1>2, <1>3, <1>4, <1>5, <1>6, <1>7, <1>8, <1>9, <1>10, <1>11, <1>12,
    <1>13, <1>14, <1>15, <1>16, <1>17, <1>18, <1>19, <1>20, <1>21 DEF Next, Receive, Proceed

LEMMA CountHoldsStep ==
  ASSUME TypeOK, Locking, Unseen, [Next]_vars
  PROVE  CountHolds'
<1> USE KindDecides DEF TypeOK, Locking, ProductLocks, CountHolds, HoldsProduct, AtSale,
    AtVoid, AtMove, rows, Idle, SaleTxn, VoidTxn, MoveTxn
<1>1. ASSUME NEW w \in Workers, NEW s \in Sales, NEW lines \in LineChoices, NEW by \in Actors,
             ReceiveSale(w, s, lines, by)
      PROVE  CountHolds'
  BY <1>1 DEF ReceiveSale, Begin
<1>2. ASSUME NEW w \in Workers, NEW s \in Sales, ReceiveVoid(w, s) PROVE CountHolds'
  BY <1>2 DEF ReceiveVoid, Begin
<1>3. ASSUME NEW w \in Workers, NEW m \in Movements, ReceiveMove(w, m) PROVE CountHolds'
  BY <1>3 DEF ReceiveMove, Begin
<1>4. ASSUME NEW w \in Workers, SelectMissing(w) PROVE CountHolds'
  BY <1>4 DEF SelectMissing, Step, End
<1>5. ASSUME NEW w \in Workers, SelectRefused(w) PROVE CountHolds'
  BY <1>5 DEF SelectRefused, Step, End
<1>6. ASSUME NEW w \in Workers, SelectFound(w) PROVE CountHolds'
  BY <1>6 DEF SelectFound, Step, End
<1>7. ASSUME NEW w \in Workers, InsertSale(w) PROVE CountHolds'
  BY <1>7 DEF InsertSale, Step, End
<1>8. ASSUME NEW w \in Workers, CommitSale(w) PROVE CountHolds'
  <2>1. txn[w] \in SaleTxn /\ txn[w].sale \in Sales
    BY <1>8 DEF CommitSale
  <2>2. ASSUME NEW p \in Products, p \notin txn[w].holds PROVE stock'[p] = stock[p]
    <3>1. stock[p] \in Int /\ sale[txn[w].sale].lines.total \in [Products -> Nat]
      BY <2>1, RowsAreCounts
    <3>2. /\ txn[w].lines.total \in [Products -> Nat] /\ txn[w].lines.total[p] = 0
          /\ txn[w].found => sale[txn[w].sale].lines.total[p] = 0
      BY <1>8, <2>1, <2>2, LinesAreCounts DEF CommitSale
    <3>3. PICK back \in [Products -> Nat] :
            /\ stock' = [q \in Products |-> stock[q] + back[q] - txn[w].lines.total[q]]
            /\ ~txn[w].found => back = Nothing
            /\ txn[w].found => \A q \in Products :
                 sale[txn[w].sale].lines.total[q] = 0 => back[q] = 0
      BY <1>8, SaleCommit
    <3>4. back[p] = 0
      BY <3>2, <3>3 DEF Nothing
    <3> QED BY <3>1, <3>2, <3>3, <3>4
  <2>3. /\ \A v \in Workers : v # w => txn'[v] = txn[v]
        /\ txn'[w] = Idle
    BY <1>8 DEF CommitSale
  <2>4. ASSUME NEW v \in Workers, AtMove(v, "insert")'
        PROVE  LET p == MovementRow[txn[v].move].product
               IN  txn[v].onHand = stock'[p] /\ txn[v].holds = {p}
    <3> DEFINE p == MovementRow[txn[v].move].product
    <3>1. v # w /\ AtMove(v, "insert") /\ txn[v] \in MoveTxn
      BY <2>3, <2>4
    <3>2. txn[v].onHand = stock[p] /\ txn[v].holds = {p} /\ p \in Products
      BY <3>1, MovementAssumption
    <3>3. HoldsProduct(v, p) /\ ~HoldsProduct(w, p)
      BY <3>1, <3>2
    <3> QED BY <2>1, <2>2, <3>2, <3>3
  <2> QED BY <2>3, <2>4
<1>9. ASSUME NEW w \in Workers, VoidNothing(w) PROVE CountHolds'
  BY <1>9 DEF VoidNothing, Step, End
<1>10. ASSUME NEW w \in Workers, VoidFound(w) PROVE CountHolds'
  BY <1>10 DEF VoidFound, Step, End
<1>11. ASSUME NEW w \in Workers, CommitVoid(w) PROVE CountHolds'
  <2>1. txn[w] \in VoidTxn /\ txn[w].sale \in Sales
    BY <1>11 DEF CommitVoid
  <2>2. ASSUME NEW p \in Products, p \notin txn[w].holds PROVE stock'[p] = stock[p]
    <3>1. stock[p] \in Int /\ sale[txn[w].sale].lines.total \in [Products -> Nat]
      BY <2>1, RowsAreCounts
    <3>2. sale[txn[w].sale].lines.total[p] = 0
      BY <1>11, <2>1, <2>2 DEF CommitVoid
    <3>3. PICK back \in [Products -> Nat] :
            /\ stock' = [q \in Products |-> stock[q] + back[q]]
            /\ \A q \in Products : sale[txn[w].sale].lines.total[q] = 0 => back[q] = 0
      BY <1>11, VoidCommit
    <3> QED BY <3>1, <3>2, <3>3
  <2>3. /\ \A v \in Workers : v # w => txn'[v] = txn[v]
        /\ txn'[w] = Idle
    BY <1>11 DEF CommitVoid
  <2>4. ASSUME NEW v \in Workers, AtMove(v, "insert")'
        PROVE  LET p == MovementRow[txn[v].move].product
               IN  txn[v].onHand = stock'[p] /\ txn[v].holds = {p}
    <3> DEFINE p == MovementRow[txn[v].move].product
    <3>1. v # w /\ AtMove(v, "insert") /\ txn[v] \in MoveTxn
      BY <2>3, <2>4
    <3>2. txn[v].onHand = stock[p] /\ txn[v].holds = {p} /\ p \in Products
      BY <3>1, MovementAssumption
    <3>3. HoldsProduct(v, p) /\ ~HoldsProduct(w, p)
      BY <3>1, <3>2
    <3> QED BY <2>1, <2>2, <3>2, <3>3
  <2> QED BY <2>3, <2>4
<1>12. ASSUME NEW w \in Workers, LockOnHand(w) PROVE CountHolds'
  BY <1>12 DEF LockOnHand, Step, End
<1>13. ASSUME NEW w \in Workers, MoveRefused(w) PROVE CountHolds'
  BY <1>13 DEF MoveRefused, Step, End
<1>14. ASSUME NEW w \in Workers, MoveRepeated(w) PROVE CountHolds'
  BY <1>14 DEF MoveRepeated, Step, End
<1>15. ASSUME NEW w \in Workers, CommitMove(w) PROVE CountHolds'
  BY <1>15 DEF CommitMove, Step, End
<1>16. ASSUME NEW w \in Workers, BreakDeadlock(w) PROVE CountHolds'
  BY <1>16 DEF BreakDeadlock, Step, End
<1>17. ASSUME NEW w \in Workers, NEW p \in Products, LockProduct(w, p) PROVE CountHolds'
  BY <1>17 DEF LockProduct, Step, ProductFree
<1>18. ASSUME NEW w \in Workers, Abort(w) PROVE CountHolds'
  BY <1>18 DEF Abort, End
<1>19. ASSUME NEW p \in Products, NEW q \in Openings, SaveProduct(p, q) PROVE CountHolds'
  BY <1>19 DEF SaveProduct, Unseen
<1>20. CASE UNCHANGED vars
  BY <1>20 DEF vars
<1>21. ASSUME NEW p \in Products, RemoveProduct(p) PROVE CountHolds'
  BY <1>21 DEF RemoveProduct
<1> QED BY <1>1, <1>2, <1>3, <1>4, <1>5, <1>6, <1>7, <1>8, <1>9, <1>10, <1>11, <1>12,
    <1>13, <1>14, <1>15, <1>16, <1>17, <1>18, <1>19, <1>20, <1>21 DEF Next, Receive, Proceed

(***************************************************************************)
(* The ledger.                                                             *)
(***************************************************************************)
LEMMA LedgerInit == Init => Unseen /\ SaleCountedOnce /\ StockMatchesLedger
BY DEF Init, Unseen, SaleCountedOnce, StockMatchesLedger, Nothing, NoLines, Idle, AtMove

\* What the rows of the database do in a step: nothing, or one of three commits.
LEMMA RowsChangeAtCommit ==
  ASSUME [Next]_vars
  PROVE  \/ /\ UNCHANGED <<stock, opening, ledger, sale, saleRows, moved>>
            /\ \A p \in Products : TypeOK => (product'[p] = "none" <=> product[p] = "none")
         \/ \E p \in Products, q \in Openings : SaveProduct(p, q) /\ product[p] = "none"
         \/ \E w \in Workers : CommitSale(w) \/ CommitVoid(w) \/ CommitMove(w)
<1>1. ASSUME NEW w \in Workers, Receive(w)
      PROVE  UNCHANGED rows
  BY <1>1 DEF Receive, ReceiveSale, ReceiveVoid, ReceiveMove, Begin
<1>2. ASSUME NEW w \in Workers, Proceed(w)
      PROVE  UNCHANGED rows \/ CommitSale(w) \/ CommitVoid(w) \/ CommitMove(w)
  BY <1>2 DEF Proceed, SelectMissing, SelectRefused, SelectFound, InsertSale, LockProduct,
     VoidNothing, VoidFound, LockOnHand, MoveRefused, MoveRepeated, BreakDeadlock, Step, End
<1>3. ASSUME NEW w \in Workers, Abort(w)
      PROVE  UNCHANGED rows
  BY <1>3 DEF Abort, End
<1>4. ASSUME NEW p \in Products, NEW q \in Openings, SaveProduct(p, q), product[p] # "none"
      PROVE  /\ UNCHANGED <<stock, opening, ledger, sale, saleRows, moved>>
             /\ \A r \in Products : TypeOK => (product'[r] = "none" <=> product[r] = "none")
  BY <1>4 DEF SaveProduct, TypeOK
<1>5. ASSUME NEW p \in Products, RemoveProduct(p)
      PROVE  /\ UNCHANGED <<stock, opening, ledger, sale, saleRows, moved>>
             /\ \A r \in Products : TypeOK => (product'[r] = "none" <=> product[r] = "none")
  BY <1>5 DEF RemoveProduct, TypeOK
<1> QED  BY <1>1, <1>2, <1>3, <1>4, <1>5 DEF Next, rows, vars

\* The numbers a committing sale computes with.
LEMMA SaleFacts ==
  ASSUME TypeOK, Locking, NEW w \in Workers, CommitSale(w)
  PROVE  LET t == txn[w] IN
         /\ t \in SaleTxn /\ t.sale \in Sales
         /\ t.lines.total \in [Products -> Nat] /\ sale[t.sale].lines.total \in [Products -> Nat]
         /\ saleRows[t.sale] \in [Products -> Int]
         /\ sale[t.sale].status = (IF t.found THEN "live" ELSE "none")
<1>1. sale[txn[w].sale].status = (IF txn[w].found THEN "live" ELSE "none")
  BY DEF CommitSale, Locking, SeenHolds
<1> QED BY <1>1, CommittingSale, RowsAreCounts

LEMMA VoidFacts ==
  ASSUME TypeOK, Locking, NEW w \in Workers, CommitVoid(w)
  PROVE  LET t == txn[w] IN
         /\ t \in VoidTxn /\ t.sale \in Sales
         /\ sale[t.sale].lines.total \in [Products -> Nat]
         /\ saleRows[t.sale] \in [Products -> Int]
         /\ sale[t.sale].status = "live"
<1>1. sale[txn[w].sale].status = "live"
  BY DEF CommitVoid, Locking, SeenHolds
<1> QED BY <1>1, CommittingVoid, RowsAreCounts

LEMMA MoveFacts ==
  ASSUME TypeOK, Locking, NEW w \in Workers, CommitMove(w)
  PROVE  LET t == txn[w]
             m == MovementRow[t.move] IN
         /\ t \in MoveTxn /\ t.move \in Movements
         /\ m \in [product : Products, kind : {"change", "count"}, quantity : Int]
         /\ t.onHand = stock[m.product]
<1>1. txn[w] \in MoveTxn
  BY KindDecides DEF CommitMove, AtMove
<1>2. txn[w].onHand = stock[MovementRow[txn[w].move].product]
  BY DEF CommitMove, Locking, CountHolds
<1> QED BY <1>1, <1>2, MovementAssumption DEF MoveTxn

\* What a sale that is recorded again retires is what it took.
LEMMA RetiredFacts ==
  ASSUME TypeOK, Locking, SaleCountedOnce, NEW w \in Workers, CommitSale(w)
  PROVE  LET t == txn[w] IN
         /\ saleRows[t.sale] = Retired(t)
         /\ Retired(t) \in [Products -> Int]
         /\ t.found => \A p \in Products : Retired(t)[p] = -sale[t.sale].lines.total[p]
         /\ ~t.found => Retired(t) = Nothing
<1> DEFINE t == txn[w]
<1>1. CASE t.found
  BY <1>1, SaleFacts DEF Retired, SaleCountedOnce
<1>2. CASE ~t.found
  <2>1. \A p \in Products : saleRows[t.sale][p] = 0
    BY <1>2, SaleFacts DEF SaleCountedOnce
  <2>2. saleRows[t.sale] = Nothing
    BY <2>1, SaleFacts DEF Nothing
  <2> QED BY <1>2, <2>2, SaleFacts DEF Retired
<1> QED BY <1>1, <1>2

\* A request's lines and movements name only products that have a row.
LEMMA UnseenStep ==
  ASSUME TypeOK, Locking, Unseen, SaleCountedOnce, [Next]_vars
  PROVE  Unseen'
<1> USE DEF Unseen
<1>1. ASSUME NEW w \in Workers, CommitSale(w) PROVE Unseen'
  <2> DEFINE t == txn[w]
  <2>1. PICK back \in [Products -> Nat] :
          /\ stock' = [p \in Products |-> stock[p] + back[p] - t.lines.total[p]]
          /\ ~t.found => back = Nothing
          /\ t.found => \A p \in Products : sale[t.sale].lines.total[p] = 0 => back[p] = 0
    BY <1>1, SaleCommit
  <2>2. /\ product' = product /\ txn' = [txn EXCEPT ![w] = Idle]
        /\ ledger' = [p \in Products |-> ledger[p] - Retired(t)[p] - t.lines.total[p]]
        /\ sale' = [sale EXCEPT ![t.sale] = Stored(sale[t.sale], t)]
        /\ t.kind = "sale"
    BY <1>1 DEF CommitSale, AtSale
  <2>3. Stored(sale[t.sale], t).lines = t.lines
    BY <1>1, SaleFacts DEF Stored, TypeOK
  <2>4. ASSUME NEW p \in Products, product[p] = "none"
        PROVE  /\ stock'[p] = 0 /\ ledger'[p] = 0
               /\ \A s \in Sales : sale'[s].lines.total[p] = 0
    <3>1. t.lines.total[p] = 0 /\ stock[p] = 0 /\ ledger[p] = 0
          /\ \A s \in Sales : sale[s].lines.total[p] = 0
      BY <2>2, <2>4
    <3>2. back[p] = 0
      BY <1>1, <2>1, <3>1, SaleFacts DEF Nothing
    <3>3. Retired(t)[p] = 0
      BY <1>1, <3>1, SaleFacts, RetiredFacts DEF Nothing
    <3>4. \A s \in Sales : sale'[s].lines.total[p] = 0
      BY <2>2, <2>3, <3>1 DEF TypeOK
    <3> QED BY <2>1, <2>2, <3>1, <3>2, <3>3, <3>4
  <2>5. \A v \in Workers : txn'[v] = txn[v] \/ txn'[v] = Idle
    BY <2>2 DEF TypeOK
  <2> QED BY <2>2, <2>4, <2>5 DEF AtMove, Idle
<1>2. ASSUME NEW w \in Workers, CommitVoid(w) PROVE Unseen'
  <2> DEFINE t == txn[w]
  <2>1. PICK back \in [Products -> Nat] :
          /\ stock' = [p \in Products |-> stock[p] + back[p]]
          /\ \A p \in Products : sale[t.sale].lines.total[p] = 0 => back[p] = 0
    BY <1>2, VoidCommit
  <2>2. /\ product' = product /\ txn' = [txn EXCEPT ![w] = Idle]
        /\ ledger' = [p \in Products |-> ledger[p] - saleRows[t.sale][p]]
        /\ sale' = [sale EXCEPT ![t.sale].status = "voided"]
    BY <1>2 DEF CommitVoid
  <2>3. ASSUME NEW p \in Products, product[p] = "none"
        PROVE  /\ stock'[p] = 0 /\ ledger'[p] = 0
               /\ \A s \in Sales : sale'[s].lines.total[p] = 0
    <3>1. stock[p] = 0 /\ ledger[p] = 0 /\ \A s \in Sales : sale[s].lines.total[p] = 0
      BY <2>3
    <3>2. saleRows[t.sale][p] = 0 /\ back[p] = 0
      BY <1>2, <2>1, <3>1, VoidFacts DEF SaleCountedOnce
    <3>3. \A s \in Sales : sale'[s].lines.total[p] = 0
      BY <2>2, <3>1 DEF TypeOK
    <3> QED BY <2>1, <2>2, <3>1, <3>2, <3>3
  <2>5. \A v \in Workers : txn'[v] = txn[v] \/ txn'[v] = Idle
    BY <2>2 DEF TypeOK
  <2> QED BY <2>2, <2>3, <2>5 DEF AtMove, Idle
<1>3. ASSUME NEW w \in Workers, CommitMove(w) PROVE Unseen'
  BY <1>3, MoveFacts DEF CommitMove, AtMove, Idle, TypeOK
<1>4. ASSUME NEW p \in Products, NEW q \in Openings, SaveProduct(p, q) PROVE Unseen'
  BY <1>4 DEF SaveProduct, TypeOK, AtMove
<1>5. ASSUME NEW w \in Workers, NEW s \in Sales, NEW lines \in LineChoices, NEW by \in Actors,
             ReceiveSale(w, s, lines, by)
      PROVE  Unseen'
  <2>1. /\ UNCHANGED rows
        /\ \A p \in Products : lines.total[p] > 0 => product[p] = "live"
        /\ lines.total \in [Products -> Nat]
    BY <1>5, LinesAreCounts DEF ReceiveSale, Begin, Resolvable, InLines
  <2>2. \A p \in Products : product[p] = "none" => lines.total[p] = 0
    BY <2>1
  <2>3. /\ txn'[w].kind = "sale" /\ txn'[w].lines = lines
        /\ \A v \in Workers : v # w => txn'[v] = txn[v]
    BY <1>5 DEF ReceiveSale, Begin, TypeOK
  <2> QED BY <2>1, <2>2, <2>3 DEF rows, AtMove
<1>6. ASSUME NEW w \in Workers, LockOnHand(w) PROVE Unseen'
  <2>1. txn[w] \in MoveTxn /\ product[MovementRow[txn[w].move].product] = "live"
    BY <1>6, KindDecides DEF LockOnHand, AtMove
  <2>2. /\ txn'[w].kind = "move" /\ txn'[w].move = txn[w].move
        /\ \A v \in Workers : v # w => txn'[v] = txn[v]
        /\ UNCHANGED rows
    BY <1>6, <2>1 DEF LockOnHand, Step, TypeOK, MoveTxn
  <2> QED BY <2>1, <2>2 DEF rows, AtMove
<1>7. ASSUME UNCHANGED rows,
             NEW w \in Workers, NEW u,
             txn' = [txn EXCEPT ![w] = u],
             u.kind = "sale" => txn[w].kind = "sale" /\ u.lines = txn[w].lines,
             u.kind = "move" => u.at # "insert"
      PROVE  Unseen'
  <2>1. \A v \in Workers : txn'[v] = IF v = w THEN u ELSE txn[v]
    BY <1>7 DEF TypeOK
  <2> QED BY <1>7, <2>1 DEF rows, AtMove
<1>8. ASSUME NEW w \in Workers, Proceed(w) \/ Abort(w) PROVE Unseen'
  <2>0. ASSUME End(w) PROVE Unseen'
    BY <1>7, <2>0 DEF End, Idle, rows
  <2>1. CASE SelectMissing(w)
    <3>1. txn[w] \in SaleTxn
      BY <2>1, KindDecides DEF SelectMissing, AtSale
    <3> QED BY <1>7, <2>1, <3>1 DEF SelectMissing, Step, SaleTxn
  <2>2. CASE SelectFound(w)
    <3>1. txn[w] \in SaleTxn
      BY <2>2, KindDecides DEF SelectFound, AtSale
    <3> QED BY <1>7, <2>2, <3>1 DEF SelectFound, Step, SaleTxn
  <2>3. CASE InsertSale(w)
    <3>1. txn[w] \in SaleTxn
      BY <2>3, KindDecides DEF InsertSale, AtSale
    <3> QED BY <1>7, <2>3, <3>1 DEF InsertSale, Step, SaleTxn
  <2>4. ASSUME NEW p \in Products, LockProduct(w, p) PROVE Unseen'
    <3>1. txn[w] \in SaleTxn \cup VoidTxn
      BY <2>4, KindDecides DEF LockProduct
    <3> QED BY <1>7, <2>4, <3>1 DEF LockProduct, Step, SaleTxn, VoidTxn
  <2>5. CASE VoidFound(w)
    <3>1. txn[w] \in VoidTxn
      BY <2>5, KindDecides DEF VoidFound, AtVoid
    <3> QED BY <1>7, <2>5, <3>1 DEF VoidFound, Step, VoidTxn
  <2> QED BY <1>1, <1>2, <1>3, <1>6, <1>8, <2>0, <2>1, <2>2, <2>3, <2>4, <2>5
      DEF Proceed, SelectRefused, VoidNothing, MoveRefused, MoveRepeated, BreakDeadlock, Abort
<1>9. ASSUME NEW w \in Workers, NEW s \in Sales, ReceiveVoid(w, s) PROVE Unseen'
  BY <1>7, <1>9 DEF ReceiveVoid, Begin
<1>10. ASSUME NEW w \in Workers, NEW m \in Movements, ReceiveMove(w, m) PROVE Unseen'
  BY <1>7, <1>10 DEF ReceiveMove, Begin
<1>11. ASSUME NEW p \in Products, RemoveProduct(p) PROVE Unseen'
  BY <1>11 DEF RemoveProduct, TypeOK, AtMove
<1>12. CASE UNCHANGED vars
  BY <1>12 DEF vars, AtMove
<1> QED BY <1>4, <1>5, <1>8, <1>9, <1>10, <1>11, <1>12 DEF Next, Receive

LEMMA LedgerStep ==
  ASSUME TypeOK, Locking, Unseen, SaleCountedOnce, StockMatchesLedger, [Next]_vars
  PROVE  SaleCountedOnce' /\ StockMatchesLedger'
<1>1. CASE UNCHANGED <<stock, opening, ledger, sale, saleRows, moved>>
  BY <1>1 DEF SaleCountedOnce, StockMatchesLedger
<1>2. ASSUME NEW w \in Workers, CommitSale(w) PROVE SaleCountedOnce' /\ StockMatchesLedger'
  <2> DEFINE t == txn[w]
             taken == t.lines.total
             retired == Retired(t)
  <2>1. PICK back \in [Products -> Nat] :
          /\ stock' = [p \in Products |-> stock[p] + back[p] - taken[p]]
          /\ ~t.found => back = Nothing
          /\ t.found => \A p \in Products :
               NamedOnce(p) => back[p] = sale[t.sale].lines.total[p]
    BY <1>2, SaleCommit
  <2>2. /\ retired \in [Products -> Int] /\ taken \in [Products -> Nat]
        /\ ledger' = [p \in Products |-> ledger[p] - retired[p] - taken[p]]
        /\ opening' = opening
    BY <1>2, RetiredFacts, SaleFacts DEF CommitSale
  <2>3. ASSUME NEW p \in Products, NamedOnce(p) PROVE retired[p] = -back[p]
    BY <1>2, <2>1, <2>3, RetiredFacts DEF Nothing
  <2>4. StockMatchesLedger'
    <3>1. ASSUME NEW p \in Products, NamedOnce(p)
          PROVE  stock'[p] = opening'[p] + ledger'[p]
      <4>1. /\ stock[p] = opening[p] + ledger[p]
            /\ opening[p] \in Int /\ ledger[p] \in Int
        BY <3>1 DEF StockMatchesLedger, TypeOK
      <4>2. /\ stock'[p] = stock[p] + back[p] - taken[p]
            /\ ledger'[p] = ledger[p] - retired[p] - taken[p]
            /\ retired[p] = -back[p]
            /\ back[p] \in Nat /\ taken[p] \in Nat
        BY <2>1, <2>2, <2>3, <3>1
      <4> QED BY <2>2, <4>1, <4>2
    <3> QED BY <3>1 DEF StockMatchesLedger, NamedOnce
  <2>5. ASSUME NEW p \in Products PROVE saleRows'[t.sale][p] = -taken[p]
    <3>1. saleRows'[t.sale][p] = saleRows[t.sale][p] - retired[p] - taken[p]
      <4>1. saleRows' = [saleRows EXCEPT ![t.sale] =
               [q \in Products |-> saleRows[t.sale][q] - retired[q] - taken[q]]]
        BY <1>2 DEF CommitSale
      <4> QED BY <1>2, <4>1, SaleFacts DEF TypeOK
    <3>2. saleRows[t.sale][p] = retired[p] /\ retired[p] \in Int /\ taken[p] \in Nat
      BY <1>2, <2>2, RetiredFacts
    <3> QED BY <3>1, <3>2
  <2>6. sale'[t.sale].status = "live" /\ sale'[t.sale].lines = t.lines
    <3>1. sale' = [sale EXCEPT ![t.sale] = Stored(sale[t.sale], t)]
      BY <1>2 DEF CommitSale
    <3>2. sale'[t.sale] = Stored(sale[t.sale], t)
      BY <1>2, <3>1, SaleFacts DEF TypeOK
    <3>3. /\ Stored(sale[t.sale], t).status = "live"
          /\ Stored(sale[t.sale], t).lines = t.lines
      BY <1>2, SaleFacts DEF Stored, TypeOK
    <3> QED BY <3>2, <3>3
  <2>7. \A s \in Sales : s # t.sale => sale'[s] = sale[s] /\ saleRows'[s] = saleRows[s]
    BY <1>2 DEF CommitSale, TypeOK
  <2>8. SaleCountedOnce'
    BY <2>5, <2>6, <2>7 DEF SaleCountedOnce
  <2> QED BY <2>4, <2>8
<1>3. ASSUME NEW w \in Workers, CommitVoid(w) PROVE SaleCountedOnce' /\ StockMatchesLedger'
  <2> DEFINE s == txn[w].sale
  <2>1. PICK back \in [Products -> Nat] :
          /\ stock' = [p \in Products |-> stock[p] + back[p]]
          /\ \A p \in Products : NamedOnce(p) => back[p] = sale[s].lines.total[p]
    BY <1>3, VoidCommit
  <2>2. /\ ledger' = [p \in Products |-> ledger[p] - saleRows[s][p]]
        /\ opening' = opening
    BY <1>3 DEF CommitVoid
  <2>3. ASSUME NEW p \in Products, NamedOnce(p)
        PROVE  stock'[p] = opening'[p] + ledger'[p]
    <3>1. saleRows[s][p] = -back[p] /\ back[p] \in Nat
      BY <1>3, <2>1, <2>3, VoidFacts DEF SaleCountedOnce
    <3>2. /\ stock[p] = opening[p] + ledger[p]
          /\ opening[p] \in Int /\ ledger[p] \in Int
      BY <2>3 DEF StockMatchesLedger, TypeOK
    <3>3. stock'[p] = stock[p] + back[p] /\ ledger'[p] = ledger[p] - saleRows[s][p]
      BY <2>1, <2>2
    <3> QED BY <2>2, <3>1, <3>2, <3>3
  <2>4. StockMatchesLedger'
    BY <2>3 DEF StockMatchesLedger, NamedOnce
  <2>5. SaleCountedOnce'
    BY <1>3, VoidFacts DEF CommitVoid, SaleCountedOnce, TypeOK, Nothing
  <2> QED BY <2>4, <2>5
<1>4. ASSUME NEW w \in Workers, CommitMove(w) PROVE SaleCountedOnce' /\ StockMatchesLedger'
  <2>1. SaleCountedOnce'
    BY <1>4 DEF CommitMove, SaleCountedOnce
  <2>2. ASSUME NEW p \in Products, NamedOnce(p) PROVE stock'[p] = opening'[p] + ledger'[p]
    <3> DEFINE m == MovementRow[txn[w].move]
               delta == Delta(m, txn[w].onHand)
    <3>1. /\ stock' = [stock EXCEPT ![m.product] = stock[m.product] + delta]
          /\ ledger' = [ledger EXCEPT ![m.product] = ledger[m.product] + delta]
          /\ opening' = opening
      BY <1>4 DEF CommitMove
    <3>2. delta \in Int
      BY <1>4, MoveFacts DEF Delta, TypeOK
    <3>3. /\ stock[p] = opening[p] + ledger[p]
          /\ opening[p] \in Int /\ ledger[p] \in Int
      BY <2>2 DEF StockMatchesLedger, TypeOK
    <3> HIDE DEF delta
    <3>4. CASE p = m.product
      <4>1. stock'[p] = stock[p] + delta /\ ledger'[p] = ledger[p] + delta
        BY <3>1, <3>4 DEF TypeOK
      <4> QED BY <3>1, <3>2, <3>3, <4>1
    <3>5. CASE p # m.product
      <4>1. stock'[p] = stock[p] /\ ledger'[p] = ledger[p]
        BY <3>1, <3>5 DEF TypeOK
      <4> QED BY <3>1, <3>3, <4>1
    <3> QED BY <3>4, <3>5
  <2> QED BY <2>1, <2>2 DEF StockMatchesLedger, NamedOnce
<1>5. ASSUME NEW p \in Products, NEW q \in Openings, SaveProduct(p, q), product[p] = "none"
      PROVE  SaleCountedOnce' /\ StockMatchesLedger'
  <2>1. SaleCountedOnce'
    BY <1>5 DEF SaveProduct, SaleCountedOnce
  <2>2. /\ stock' = [stock EXCEPT ![p] = q] /\ opening' = [opening EXCEPT ![p] = q]
        /\ ledger' = ledger /\ ledger[p] = 0 /\ q \in Int
    BY <1>5, OpeningAssumption DEF SaveProduct, Unseen
  <2> QED BY <2>1, <2>2 DEF StockMatchesLedger, NamedOnce, TypeOK
<1> QED BY <1>1, <1>2, <1>3, <1>4, <1>5, RowsChangeAtCommit

LEMMA Inductive == SerialFirstPush => (Spec => []IInv)
<1> SUFFICES ASSUME SerialFirstPush PROVE Spec => []IInv
  OBVIOUS
<1>1. Init => IInv
  BY TypeInit, LockingInit, LedgerInit DEF IInv
<1>2. IInv /\ [Next]_vars => IInv'
  BY TypeStep, RowLocksStep, ProductLocksStep, SeenHoldsStep, CountHoldsStep, UnseenStep,
     LedgerStep
  DEF IInv, Locking
<1> QED BY <1>1, <1>2, PTL DEF Spec

\* However often a sale is pushed, repeated or voided, and whatever runs beside
\* it, the ledger holds its lines once, provided first pushes do not overlap.
THEOREM CountedOnce == SerialFirstPush => (Spec => []SaleCountedOnce)
<1>1. IInv => SaleCountedOnce
  BY DEF IInv
<1> QED BY <1>1, Inductive, PTL

\* Under the same condition the stock of a product that no sale names in two
\* lines is what it was opened with and the sum of its ledger.
THEOREM StockIsLedger == SerialFirstPush => (Spec => []StockMatchesLedger)
<1>1. IInv => StockMatchesLedger
  BY DEF IInv
<1> QED BY <1>1, Inductive, PTL

\* If, besides, no sale names a product in two lines, the transactions implement
\* the book: every opening, sale, void, delivery and count takes effect at one
\* instant, its commit.
THEOREM Refinement ==
  SerialFirstPush /\ (\A p \in Products : NamedOnce(p)) => (Spec => ImplementsBook)
<1> SUFFICES ASSUME SerialFirstPush, \A p \in Products : NamedOnce(p) PROVE Spec => Book!Spec
  BY DEF ImplementsBook
<1>1. Init => Book!Init
  BY DEF Init, Book!Init, Nothing, NoLines
<1>2. IInv /\ [Next]_vars => [Book!Next]_Book!vars
  <2> SUFFICES ASSUME IInv, [Next]_vars PROVE [Book!Next]_Book!vars
    OBVIOUS
  <2> USE DEF IInv
  <2> DEFINE opened == {p \in Products : product[p] # "none"}
             book == [s \in Sales |-> [status |-> sale[s].status,
                                       lines |-> sale[s].lines.total]]
  <2>1. CASE /\ UNCHANGED <<stock, opening, ledger, sale, saleRows, moved>>
             /\ \A p \in Products : TypeOK => (product'[p] = "none" <=> product[p] = "none")
    BY <2>1 DEF Book!vars
  <2>2. ASSUME NEW w \in Workers, CommitSale(w) PROVE Book!Next
    <3> DEFINE t == txn[w]
               taken == t.lines.total
    <3>1. t.sale \in Sales /\ t.lines \in LineChoices
      BY <2>2, CommittingSale
    <3>2. PICK s0 \in Sales, l0 \in {lines.total : lines \in LineChoices} :
            s0 = t.sale /\ l0 = taken
      BY <3>1
    <3>3. sale[s0].status # "voided"
      BY <2>2, <3>2, SaleFacts
    <3>4. sale' = [sale EXCEPT ![s0] = Stored(sale[s0], t)]
          /\ Stored(sale[s0], t).status = "live" /\ Stored(sale[s0], t).lines.total = l0
      <4>1. sale' = [sale EXCEPT ![s0] = Stored(sale[s0], t)]
        BY <2>2, <3>2 DEF CommitSale
      <4>2. /\ Stored(sale[s0], t).status = "live"
            /\ Stored(sale[s0], t).lines.total = l0
        BY <2>2, <3>2, SaleFacts DEF Stored, TypeOK
      <4> QED BY <4>1, <4>2
    <3>5. stock' = [p \in Products |-> stock[p] + Book!Taken(s0, p) - l0[p]]
      <4>1. PICK back \in [Products -> Nat] :
              /\ stock' = [p \in Products |-> stock[p] + back[p] - taken[p]]
              /\ ~t.found => back = Nothing
              /\ t.found => \A p \in Products :
                   NamedOnce(p) => back[p] = sale[t.sale].lines.total[p]
        BY <2>2, SaleCommit
      <4>2. ASSUME NEW p \in Products PROVE back[p] = Book!Taken(s0, p)
        <5>1. CASE t.found
          BY <2>2, <3>2, <4>1, <5>1, SaleFacts DEF Book!Taken
        <5>2. CASE ~t.found
          BY <2>2, <3>2, <4>1, <5>2, SaleFacts DEF Book!Taken, Nothing
        <5> QED BY <5>1, <5>2
      <4> QED BY <3>2, <4>1, <4>2
    <3>6. book' = [book EXCEPT ![s0] = [status |-> "live", lines |-> l0]]
      BY <3>4 DEF TypeOK
    <3>7. UNCHANGED <<moved, opened>>
      BY <2>2 DEF CommitSale
    <3>8. Book!Record(s0, l0)
      BY <3>3, <3>5, <3>6, <3>7 DEF Book!Record
    <3> QED BY <3>8 DEF Book!Next
  <2>3. ASSUME NEW w \in Workers, CommitVoid(w) PROVE Book!Next
    <3>1. PICK s0 \in Sales : s0 = txn[w].sale
      BY <2>3, VoidFacts
    <3>2. sale[s0].status = "live" /\ UNCHANGED <<moved, opened>>
      BY <2>3, <3>1, VoidFacts DEF CommitVoid
    <3>3. stock' = [p \in Products |-> stock[p] + Book!Taken(s0, p)]
      BY <2>3, <3>1, <3>2, VoidCommit DEF Book!Taken
    <3>4. book' = [book EXCEPT ![s0].status = "voided"]
      <4>1. sale' = [sale EXCEPT ![s0].status = "voided"]
        BY <2>3, <3>1 DEF CommitVoid
      <4> QED BY <4>1 DEF TypeOK
    <3>5. Book!Void(s0)
      BY <3>2, <3>3, <3>4 DEF Book!Void
    <3> QED BY <3>5 DEF Book!Next
  <2>4. ASSUME NEW w \in Workers, CommitMove(w) PROVE Book!Next
    <3> DEFINE m == MovementRow[txn[w].move]
    <3>1. /\ txn[w].move \in Movements /\ txn[w].move \notin moved
          /\ moved' = moved \cup {txn[w].move} /\ UNCHANGED <<sale, product>>
          /\ stock' = [stock EXCEPT ![m.product] =
                         @ + (IF m.kind = "count" THEN m.quantity - txn[w].onHand
                              ELSE m.quantity)]
      BY <2>4, MoveFacts DEF CommitMove, Delta
    <3>2. CASE m.kind = "change"
      BY <3>1, <3>2 DEF Book!Next, Book!Change
    <3>3. CASE m.kind = "count"
      <4>1. stock[m.product] \in Int /\ m.quantity \in Int /\ txn[w].onHand = stock[m.product]
        BY <2>4, MoveFacts DEF TypeOK
      <4>2. stock' = [stock EXCEPT ![m.product] = m.quantity]
        <5>1. stock[m.product] + (m.quantity - txn[w].onHand) = m.quantity
          BY <4>1
        <5> QED BY <3>1, <3>3, <5>1
      <4> QED BY <3>1, <3>3, <4>2 DEF Book!Next, Book!Count
    <3> QED BY <2>4, <3>2, <3>3, MoveFacts
  <2>5. ASSUME NEW p \in Products, NEW q \in Openings, SaveProduct(p, q), product[p] = "none"
        PROVE  Book!Next
    <3>1. p \notin opened /\ opened' = opened \cup {p}
      BY <2>5 DEF SaveProduct, TypeOK
    <3>2. stock' = [stock EXCEPT ![p] = q] /\ UNCHANGED <<sale, moved>>
      BY <2>5 DEF SaveProduct
    <3>3. Book!Open(p, q)
      BY <3>1, <3>2 DEF Book!Open
    <3> QED BY <3>3 DEF Book!Next
  <2> QED BY <2>1, <2>2, <2>3, <2>4, <2>5, RowsChangeAtCommit
<1>3. Spec => []IInv
  BY Inductive
<1> QED BY <1>1, <1>2, <1>3, PTL DEF Spec, Book!Spec

=============================================================================
