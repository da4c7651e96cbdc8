------------------------------ MODULE StockBook ------------------------------
(***************************************************************************)
(* What the inventory of a store promises: a sale, a void, a delivery and  *)
(* a physical count each take effect once and at one instant, and the      *)
(* quantity on hand moves by exactly what the book says.  The detailed     *)
(* module StockLedger (row locks, statements, concurrent requests) is      *)
(* shown to implement this one.                                            *)
(***************************************************************************)
EXTENDS Integers

CONSTANTS
  Sales,        \* sale ids a device may push
  Products,     \* product ids
  Movements,    \* ids of deliveries, write-offs and counts
  MovementRow,  \* MovementRow[m]: what movement m says
  LineChoices,  \* the lines a sale may have
  Openings      \* the stocks a product may start with

VARIABLES
  opened,   \* the products the store has
  book,     \* book[s]: what the store's records say about sale s
  applied,  \* the movements that have taken effect
  onHand    \* onHand[p]: quantity on hand

vars == <<opened, book, applied, onHand>>

\* What sale s takes out of stock at this moment.
Taken(s, p) == IF book[s].status = "live" THEN book[s].lines[p] ELSE 0

Init ==
  /\ opened = {}
  /\ book = [s \in Sales |-> [status |-> "none", lines |-> [p \in Products |-> 0]]]
  /\ applied = {}
  /\ onHand = [p \in Products |-> 0]

\* A product starts with a stock, once.
Open(p, q) ==
  /\ p \notin opened
  /\ opened' = opened \cup {p}
  /\ onHand' = [onHand EXCEPT ![p] = q]
  /\ UNCHANGED <<book, applied>>

\* Recording a sale again replaces what it took before.
Record(s, lines) ==
  /\ book[s].status # "voided"
  /\ book' = [book EXCEPT ![s] = [status |-> "live", lines |-> lines]]
  /\ onHand' = [p \in Products |-> onHand[p] + Taken(s, p) - lines[p]]
  /\ UNCHANGED <<opened, applied>>

Void(s) ==
  /\ book[s].status = "live"
  /\ book' = [book EXCEPT ![s].status = "voided"]
  /\ onHand' = [p \in Products |-> onHand[p] + Taken(s, p)]
  /\ UNCHANGED <<opened, applied>>

\* A delivery or a write-off adds its quantity, once.
Change(m) ==
  /\ m \notin applied
  /\ MovementRow[m].kind = "change"
  /\ applied' = applied \cup {m}
  /\ onHand' = [onHand EXCEPT ![MovementRow[m].product] = @ + MovementRow[m].quantity]
  /\ UNCHANGED <<opened, book>>

\* A count leaves exactly what was counted.
Count(m) ==
  /\ m \notin applied
  /\ MovementRow[m].kind = "count"
  /\ applied' = applied \cup {m}
  /\ onHand' = [onHand EXCEPT ![MovementRow[m].product] = MovementRow[m].quantity]
  /\ UNCHANGED <<opened, book>>

Next ==
  \/ \E p \in Products, q \in Openings : Open(p, q)
  \/ \E s \in Sales, lines \in LineChoices : Record(s, lines)
  \/ \E s \in Sales : Void(s)
  \/ \E m \in Movements : Change(m) \/ Count(m)

Spec == Init /\ [][Next]_vars
=============================================================================
