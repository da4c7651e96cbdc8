--------------------------- MODULE PrepaidAccount ---------------------------
(* What the owner of an account is promised about money and time, with no     *)
(* dates, rows or transactions: trial days come first and are used up a day   *)
(* at a time; after them the account lives on credit, which is what was paid  *)
(* for and not used, in centavos times days; and every payment adds what it   *)
(* bought exactly once.  Billing implements this.                             *)
EXTENDS Integers

CONSTANTS Payments, MonthDays, Cost

VARIABLES trialLeft, plan, credit, settled

account == <<trialLeft, plan, credit, settled>>

AtLeast(a, b) == IF a >= b THEN a ELSE b

Init ==
    /\ trialLeft \in Nat
    /\ plan \in DOMAIN Cost
    /\ credit = 0
    /\ settled = {}

(* Changing plans converts the credit to the new plan's days; the odd         *)
(* fraction of one such day is all that may go.                               *)
Settle(p) ==
    /\ p \notin settled
    /\ settled' = settled \cup {p}
    /\ plan' \in DOMAIN Cost
    /\ \E months \in {1, 12} :
          credit + months * MonthDays * Cost[plan'] - credit' \in 0..(Cost[plan'] - 1)
    /\ UNCHANGED trialLeft

NewDay ==
    /\ trialLeft' = AtLeast(trialLeft - 1, 0)
    /\ credit' = IF trialLeft > 0 THEN credit ELSE AtLeast(credit - Cost[plan], 0)
    /\ UNCHANGED <<plan, settled>>

Next == NewDay \/ \E p \in Payments : Settle(p)

Spec == Init /\ [][Next]_account
=============================================================================
