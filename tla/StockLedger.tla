----------------------------- MODULE StockLedger -----------------------------
(***************************************************************************)
(* The server's sales, stock movements and catalogue of one store, at the  *)
(* granularity of the SQL statements that lock rows.  Requests of several  *)
(* devices run in parallel, a request may be repeated or arrive late, and  *)
(* a transaction may fail at any point.                                    *)
(*                                                                         *)
(* PostgreSQL (READ COMMITTED) is external.  A statement that changes a    *)
(* row waits for the row's lock and keeps it until the transaction ends;   *)
(* an INSERT waits for another transaction that is inserting the same key; *)
(* SELECT ... FOR UPDATE of a key nobody has committed finds nothing and   *)
(* locks nothing.  Only the transaction that holds a row reads or changes  *)
(* it, so a transaction's changes are applied in one step, at its commit.  *)
(*                                                                         *)
(* stock_movements is abstracted to two sums of its live rows, by product  *)
(* and by the sale named in the note, and the ids of the other movements;  *)
(* the lines of a sale to what they take of a product together and one by  *)
(* one.                                                                    *)
(* Quick sale lines name no product and are left out, as are permissions   *)
(* and the audit, cache and realtime calls that follow a commit.           *)
(***************************************************************************)
EXTENDS Integers, FiniteSets

CONSTANTS
  Sales, Products, Movements,
  MovementRow,      \* MovementRow[m]: the immutable content of a movement
  LineChoices,      \* the lines a sale may be pushed with
  Openings,         \* the opening stocks a product may be pushed with
  Actors, Owner,    \* who pushes; Owner may replace anyone's sale
  Workers,          \* requests the server handles at the same time
  SerialFirstPush,  \* TRUE: no two requests for a sale that is not stored yet overlap
  MaxRequests       \* bound on the number of requests received

ASSUME OwnerAssumption == Owner \in Actors
\* A sale without lines that name a product.
Nothing == [p \in Products |-> 0]
NoLines == [total |-> Nothing, each |-> [p \in Products |-> {0}]]

\* total[p]: what the lines that name p take together; each[p]: what one of
\* them takes, and 0 where no line names p.
IsLines(lines) ==
  /\ lines = [total |-> lines.total, each |-> lines.each]
  /\ lines.total \in [Products -> Nat]
  /\ lines.each \in [Products -> (SUBSET Nat) \ {{}}]
  /\ \A p \in Products : lines.each[p] \subseteq 0..lines.total[p]

ASSUME LinesAssumption == \A lines \in LineChoices : IsLines(lines)
ASSUME OpeningAssumption == Openings \subseteq Int
ASSUME MovementAssumption ==
  MovementRow \in [Movements -> [product : Products, kind : {"change", "count"}, quantity : Int]]
ASSUME BoundAssumption == MaxRequests \in Nat /\ SerialFirstPush \in BOOLEAN

VARIABLES
  product,    \* product[p]: "none", "live" or "removed" (deleted_at)
  stock,      \* products.stock_quantity
  opening,    \* the stock the row of a product was inserted with
  ledger,     \* sum of the live stock_movements of a product
  sale,       \* rows of sales with their sale_items
  saleRows,   \* sum of the live stock_movements whose note is "sale <id>"
  moved,      \* ids of the other stock_movements
  txn,        \* txn[w]: the request worker w handles
  received    \* number of requests received so far

rows == <<product, stock, opening, ledger, sale, saleRows, moved>>
vars == <<product, stock, opening, ledger, sale, saleRows, moved, txn, received>>

InLines(lines) == {p \in Products : lines.total[p] > 0}

Idle == [kind |-> "idle"]

SaleTxn == [kind : {"sale"}, at : {"select", "insert", "lines"}, sale : Sales,
            lines : LineChoices, by : Actors, found : BOOLEAN, row : BOOLEAN,
            want : SUBSET Products, holds : SUBSET Products]
VoidTxn == [kind : {"void"}, at : {"update", "lines"}, sale : Sales, row : BOOLEAN,
            want : SUBSET Products, holds : SUBSET Products]
MoveTxn == [kind : {"move"}, at : {"lock", "insert"}, move : Movements, onHand : Int,
            holds : SUBSET Products]

TypeOK ==
  /\ product \in [Products -> {"none", "live", "removed"}]
  /\ stock \in [Products -> Int]
  /\ opening \in [Products -> Int]
  /\ ledger \in [Products -> Int]
  /\ sale \in [Sales -> [status : {"none", "live", "voided"}, by : Actors,
                         lines : LineChoices \cup {NoLines}]]
  /\ saleRows \in [Sales -> [Products -> Int]]
  /\ moved \subseteq Movements
  /\ txn \in [Workers -> {Idle} \cup SaleTxn \cup VoidTxn \cup MoveTxn]
  /\ received \in Nat

Init ==
  /\ product = [p \in Products |-> "none"]
  /\ stock = Nothing
  /\ opening = Nothing
  /\ ledger = Nothing
  /\ sale = [s \in Sales |-> [status |-> "none", by |-> Owner, lines |-> NoLines]]
  /\ saleRows = [s \in Sales |-> Nothing]
  /\ moved = {}
  /\ txn = [w \in Workers |-> Idle]
  /\ received = 0

(***************************************************************************)
(* Row locks, derived from what the transactions hold.                     *)
(***************************************************************************)
OnSale(w, s) == txn[w].kind \in {"sale", "void"} /\ txn[w].sale = s
HoldsSale(w, s) == OnSale(w, s) /\ txn[w].row
HoldsProduct(w, p) == txn[w].kind # "idle" /\ p \in txn[w].holds

SaleFree(w, s) == \A v \in Workers \ {w} : ~HoldsSale(v, s)
ProductFree(w, p) == \A v \in Workers \ {w} : ~HoldsProduct(v, p)

\* w is blocked on a row that v holds.
WaitsFor(w, v) ==
  \/ /\ txn[w].kind \in {"sale", "void"}
     /\ ~txn[w].row /\ HoldsSale(v, txn[w].sale)
  \/ /\ txn[w].kind \in {"sale", "void"} /\ txn[w].at = "lines"
     /\ \E p \in txn[w].want : HoldsProduct(v, p)
  \/ /\ txn[w].kind = "move" /\ txn[w].at = "lock"
     /\ HoldsProduct(v, MovementRow[txn[w].move].product)

Stuck(group) == group # {} /\ \A w \in group : \E v \in group \ {w} : WaitsFor(w, v)

\* w is on a cycle of waits: the smallest stuck group around it needs it.
InCycle(w) ==
  \E group \in SUBSET Workers :
    w \in group /\ Stuck(group) /\ \A rest \in SUBSET (group \ {w}) : ~Stuck(rest)

Begin(w, t) ==
  /\ txn[w] = Idle
  /\ received < MaxRequests
  /\ received' = received + 1
  /\ txn' = [txn EXCEPT ![w] = t]
  /\ UNCHANGED rows

\* The transaction ends without having changed a row.
End(w) == txn' = [txn EXCEPT ![w] = Idle] /\ UNCHANGED <<rows, received>>

Step(w, t) == txn' = [txn EXCEPT ![w] = t] /\ UNCHANGED <<rows, received>>

(***************************************************************************)
(* Recording a sale.                                                       *)
(***************************************************************************)
Resolvable(lines) == \A p \in InLines(lines) : product[p] = "live"

\* Every line must name a live product, which is checked before the
\* transaction begins; otherwise the sale is refused and nothing changes.
ReceiveSale(w, s, lines, by) ==
  /\ Resolvable(lines)
  /\ SerialFirstPush /\ sale[s].status = "none" =>
       \A v \in Workers \ {w} : ~(OnSale(v, s) /\ txn[v].kind = "sale")
  /\ Begin(w, [kind |-> "sale", at |-> "select", sale |-> s, lines |-> lines, by |-> by,
               found |-> FALSE, row |-> FALSE, want |-> {}, holds |-> {}])

AtSale(w, at) == txn[w].kind = "sale" /\ txn[w].at = at

\* SELECT ... FOR UPDATE finds no committed row.
SelectMissing(w) ==
  /\ AtSale(w, "select")
  /\ sale[txn[w].sale].status = "none"
  /\ Step(w, [txn[w] EXCEPT !.at = "insert"])

\* A voided sale is returned as stored, whoever pushes it.
Final(row) == row.status = "voided"

\* A sale someone else recorded is refused to staff.
MayReplace(row, by) == by = Owner \/ row.by = by

SelectRefused(w) ==
  /\ AtSale(w, "select")
  /\ SaleFree(w, txn[w].sale)
  /\ LET row == sale[txn[w].sale]
     IN  row.status # "none" /\ (Final(row) \/ ~MayReplace(row, txn[w].by))
  /\ End(w)

\* A live row is locked; the lines it has and the lines it gets decide which
\* products the following UPDATEs lock.
SelectFound(w) ==
  /\ AtSale(w, "select")
  /\ SaleFree(w, txn[w].sale)
  /\ LET row == sale[txn[w].sale]
     IN  /\ row.status # "none" /\ ~Final(row) /\ MayReplace(row, txn[w].by)
         /\ Step(w, [txn[w] EXCEPT !.at = "lines", !.found = TRUE, !.row = TRUE,
                                   !.want = InLines(row.lines) \cup InLines(txn[w].lines)])

\* INSERT ... ON CONFLICT DO UPDATE waits for any transaction on the same key.
InsertSale(w) ==
  /\ AtSale(w, "insert")
  /\ SaleFree(w, txn[w].sale)
  /\ Step(w, [txn[w] EXCEPT !.at = "lines", !.row = TRUE, !.want = InLines(txn[w].lines)])

\* An UPDATE of products takes the row's lock.  The statements come in the
\* order of the lines, and a restore in an order PostgreSQL chooses.
LockProduct(w, p) ==
  /\ txn[w].kind \in {"sale", "void"} /\ txn[w].at = "lines"
  /\ p \in txn[w].want
  /\ ProductFree(w, p)
  /\ Step(w, [txn[w] EXCEPT !.want = @ \ {p}, !.holds = @ \cup {p}])

\* The row after INSERT ... ON CONFLICT (id) DO UPDATE: neither deleted_at nor
\* recorded_by_staff_id is overwritten.
Stored(row, t) ==
  IF row.status = "none"
  THEN [status |-> "live", by |-> t.by, lines |-> t.lines]
  ELSE [row EXCEPT !.lines = t.lines]

\* UPDATE products ... FROM sale_items changes a row once: of several lines
\* that name a product PostgreSQL takes any one.
GivenBack(lines) ==
  {back \in [Products -> UNION {lines.each[p] : p \in Products}] :
     \A p \in Products : back[p] \in lines.each[p]}

\* restore_stock_for and retire_movements_for run only if the SELECT found the
\* row.
NotRestored(t) == {Nothing}
Restored(t) == IF t.found THEN GivenBack(sale[t.sale].lines) ELSE {Nothing}

NotRetired(t) == Nothing
Retired(t) == IF t.found THEN saleRows[t.sale] ELSE Nothing

\* Each of the new lines is deducted and entered in the ledger.
CommitSale(w) ==
  /\ AtSale(w, "lines")
  /\ txn[w].want = {}
  /\ LET t == txn[w]
         s == t.sale
         taken == t.lines.total
     IN  \E back \in Restored(t) :
           /\ sale' = [sale EXCEPT ![s] = Stored(@, t)]
           /\ stock' = [p \in Products |-> stock[p] + back[p] - taken[p]]
           /\ ledger' = [p \in Products |-> ledger[p] - Retired(t)[p] - taken[p]]
           /\ saleRows' = [saleRows EXCEPT ![s] =
                             [p \in Products |-> @[p] - Retired(t)[p] - taken[p]]]
  /\ txn' = [txn EXCEPT ![w] = Idle]
  /\ UNCHANGED <<product, opening, moved, received>>

(***************************************************************************)
(* Voiding a sale, by DELETE or by a pushed deletion.                      *)
(***************************************************************************)
ReceiveVoid(w, s) ==
  Begin(w, [kind |-> "void", at |-> "update", sale |-> s, row |-> FALSE,
            want |-> {}, holds |-> {}])

AtVoid(w, at) == txn[w].kind = "void" /\ txn[w].at = at

\* Only a voided sale counts as gone; for one that never came it waits.
VoidedOnly(w) ==
  /\ AtVoid(w, "update")
  /\ sale[txn[w].sale].status = "voided"
  /\ End(w)

\* No live row: the pushed deletion counts as done.
VoidNothing(w) ==
  /\ AtVoid(w, "update")
  /\ sale[txn[w].sale].status # "live"
  /\ End(w)

VoidFound(w) ==
  /\ AtVoid(w, "update")
  /\ SaleFree(w, txn[w].sale)
  /\ sale[txn[w].sale].status = "live"
  /\ Step(w, [txn[w] EXCEPT !.at = "lines", !.row = TRUE,
                            !.want = InLines(sale[txn[w].sale].lines)])

CommitVoid(w) ==
  /\ AtVoid(w, "lines")
  /\ txn[w].want = {}
  /\ LET s == txn[w].sale
     IN  \E back \in GivenBack(sale[s].lines) :
           /\ sale' = [sale EXCEPT ![s].status = "voided"]
           /\ stock' = [p \in Products |-> stock[p] + back[p]]
           /\ ledger' = [p \in Products |-> ledger[p] - saleRows[s][p]]
           /\ saleRows' = [saleRows EXCEPT ![s] = Nothing]
  /\ txn' = [txn EXCEPT ![w] = Idle]
  /\ UNCHANGED <<product, opening, moved, received>>

(***************************************************************************)
(* Deliveries, write-offs and counts.                                      *)
(***************************************************************************)
ReceiveMove(w, m) ==
  Begin(w, [kind |-> "move", at |-> "lock", move |-> m, onHand |-> 0, holds |-> {}])

AtMove(w, at) == txn[w].kind = "move" /\ txn[w].at = at

\* The same read without FOR UPDATE.
ReadOnHand(w) ==
  LET p == MovementRow[txn[w].move].product
  IN  /\ AtMove(w, "lock")
      /\ product[p] = "live"
      /\ Step(w, [txn[w] EXCEPT !.at = "insert", !.onHand = stock[p]])

\* SELECT ... FOR UPDATE of the product: locks it and reads what is on hand.
LockOnHand(w) ==
  LET p == MovementRow[txn[w].move].product
  IN  /\ AtMove(w, "lock")
      /\ product[p] = "live"
      /\ ProductFree(w, p)
      /\ Step(w, [txn[w] EXCEPT !.at = "insert", !.onHand = stock[p], !.holds = {p}])

\* The product is unknown or removed.
MoveRefused(w) ==
  /\ AtMove(w, "lock")
  /\ product[MovementRow[txn[w].move].product] # "live"
  /\ End(w)

\* ON CONFLICT (id) DO NOTHING: the movement had already been recorded.
MoveRepeated(w) ==
  /\ AtMove(w, "insert")
  /\ txn[w].move \in moved
  /\ End(w)

\* A count becomes the difference from what was on hand.
Delta(m, onHand) == IF m.kind = "count" THEN m.quantity - onHand ELSE m.quantity

CommitMove(w) ==
  /\ AtMove(w, "insert")
  /\ txn[w].move \notin moved
  /\ LET m == MovementRow[txn[w].move]
         delta == Delta(m, txn[w].onHand)
     IN  /\ stock' = [stock EXCEPT ![m.product] = @ + delta]
         /\ ledger' = [ledger EXCEPT ![m.product] = @ + delta]
  /\ moved' = moved \cup {txn[w].move}
  /\ txn' = [txn EXCEPT ![w] = Idle]
  /\ UNCHANGED <<product, opening, sale, saleRows, received>>

(***************************************************************************)
(* The catalogue: each is one statement on one row.                        *)
(***************************************************************************)
\* Inserts the product with its opening stock, which no movement records, or
\* changes it or revives it, and then its stock is left alone.
SaveProduct(p, q) ==
  /\ \A w \in Workers : ~HoldsProduct(w, p)
  /\ product' = [product EXCEPT ![p] = "live"]
  /\ IF product[p] = "none"
     THEN stock' = [stock EXCEPT ![p] = q] /\ opening' = [opening EXCEPT ![p] = q]
     ELSE UNCHANGED <<stock, opening>>
  /\ UNCHANGED <<ledger, sale, saleRows, moved, txn, received>>

\* A removed product keeps its row: sales and movements point to it.
DeleteProduct(p) ==
  /\ product[p] = "live"
  /\ \A w \in Workers : ~HoldsProduct(w, p)
  /\ product' = [q \in Products \ {p} |-> product[q]]
  /\ UNCHANGED <<stock, opening, ledger, sale, saleRows, moved, txn, received>>

RemoveProduct(p) ==
  /\ product[p] = "live"
  /\ \A w \in Workers : ~HoldsProduct(w, p)
  /\ product' = [product EXCEPT ![p] = "removed"]
  /\ UNCHANGED <<stock, opening, ledger, sale, saleRows, moved, txn, received>>

(***************************************************************************)
(* A transaction that does not reach its commit is rolled back.            *)
(***************************************************************************)
\* A statement fails, the connection drops or the server stops.
Abort(w) ==
  /\ txn[w] # Idle
  /\ End(w)

\* PostgreSQL ends one transaction of a cycle of waits.
BreakDeadlock(w) ==
  /\ InCycle(w)
  /\ End(w)

Proceed(w) ==
  \/ SelectMissing(w) \/ SelectRefused(w) \/ SelectFound(w) \/ InsertSale(w)
  \/ \E p \in Products : LockProduct(w, p)
  \/ CommitSale(w)
  \/ VoidNothing(w) \/ VoidFound(w) \/ CommitVoid(w)
  \/ LockOnHand(w) \/ MoveRefused(w) \/ MoveRepeated(w) \/ CommitMove(w)
  \/ BreakDeadlock(w)

Receive(w) ==
  \/ \E s \in Sales, lines \in LineChoices, by \in Actors : ReceiveSale(w, s, lines, by)
  \/ \E s \in Sales : ReceiveVoid(w, s)
  \/ \E m \in Movements : ReceiveMove(w, m)

Next ==
  \/ \E w \in Workers : Receive(w) \/ Proceed(w) \/ Abort(w)
  \/ \E p \in Products, q \in Openings : SaveProduct(p, q)
  \/ \E p \in Products : RemoveProduct(p)

Spec == Init /\ [][Next]_vars

\* The server keeps running the requests it has accepted.
FairSpec == Spec /\ \A w \in Workers : WF_vars(Proceed(w))

(***************************************************************************)
(* Properties.                                                             *)
(***************************************************************************)
\* However often a sale is pushed, the ledger holds its lines once while the
\* sale is live and not at all once it is voided (SaleRepository::record,
\* SaleRepository::void).
SaleCountedOnce ==
  \A s \in Sales, p \in Products :
    saleRows[s][p] = IF sale[s].status = "live" THEN -sale[s].lines.total[p] ELSE 0

\* No sale names p in two of its lines, as the phone's cart sees to.
NamedOnce(p) == \A lines \in LineChoices : lines.each[p] = {lines.total[p]}

\* The stock of a product that no sale names twice is what it was opened with
\* and the sum of its ledger, although a void gives back the sale's current
\* lines to the one and retires rows by their note in the other
\* (restore_stock_for, retire_movements_for), and although a product may be
\* removed and saved again with another opening stock.
StockMatchesLedger ==
  \A p \in Products : NamedOnce(p) => stock[p] = opening[p] + ledger[p]

\* "Voiding puts the stock back, so a mistaken entry does not leave the
\* inventory count wrong" (SaleRepository::void): of any product.
VoidingPutsBack == \A p \in Products : stock[p] = opening[p] + ledger[p]

\* Every request the server accepts is answered, although requests lock the
\* same products in different orders.
EveryRequestEnds == \A w \in Workers : txn[w] # Idle ~> txn[w] = Idle

\* The transactions implement the book in which each opening, sale, void,
\* movement and count happens at once and counts once.
Book == INSTANCE StockBook WITH
  LineChoices <- {lines.total : lines \in LineChoices},
  opened <- {p \in Products : product[p] # "none"},
  book <- [s \in Sales |-> [status |-> sale[s].status, lines |-> sale[s].lines.total]],
  applied <- moved,
  onHand <- stock

ImplementsBook == Book!Spec
=============================================================================
