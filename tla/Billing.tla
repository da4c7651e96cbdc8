------------------------------ MODULE Billing ------------------------------
(* One owner's subscription: how the stored row is read on a given day        *)
(* (plan.rs), how a payment is opened, paid at the gateway, reported and      *)
(* confirmed in a transaction (billing_service.rs, billing_repository.rs,     *)
(* payment_gateway.rs), and what the plan then lets the stores do             *)
(* (check_new_store, check_store_request), on servers that remember the       *)
(* subscription with the session for less than a day.                         *)
EXTENDS Integers, FiniteSets

CONSTANTS
    MaxPayments,   \* bound: payments the owner opens
    Workers,       \* requests served at the same time
    Instances,     \* servers
    TrialDays, GraceDays, MonthDays,
    ProStores,     \* stores of the larger plan: 5
    MaxDay,        \* bound: the last day of a behaviour
    MaxStores      \* bound: stores the owner ever opens

ASSUME BillingAssumption ==
    /\ TrialDays \in Nat /\ GraceDays \in Nat /\ MonthDays \in Nat \ {0}
    /\ ProStores \in Nat \ {0}
    /\ MaxPayments \in Nat /\ MaxDay \in Nat /\ MaxStores \in Nat \ {0}

VARIABLES
    mode,          \* "off", "test" or "paymongo", a setting of the server
    today,
    sub,           \* the row of subscriptions
    payment,       \* the rows of payments, and how far each checkout request got
    charged,       \* payments the gateway took the money for
    acked,         \* payments whose report was answered with success
    at,            \* per worker: its step, its payment, the subscription it read
    stores,        \* the rows of stores others see, by the order of created_at, id
    opened,        \* number of inserts of a store that were begun
    memory,        \* per instance: the subscription remembered with the session
    uncovered      \* days since neither trial nor payment covered the account

days == <<mode, today, uncovered>>
gateway == <<charged, acked>>
shop == <<stores, opened, memory>>
vars == <<days, gateway, shop, sub, payment, at>>

Payments == 1..MaxPayments
None == -1
Nothing == [plan |-> "none", trial |-> 0, paid |-> 0]
Plans == {"basic", "pro"}
MonthlyCentavos == [basic |-> 9900, pro |-> 19900]
PlanStoreLimit == [basic |-> 1, pro |-> ProStores]
OfferedMonths == {1, 12}
Later(a, b) == IF a >= b THEN a ELSE b

-----------------------------------------------------------------------------
(* plan.rs *)

Enforced == mode # "off"

(* Mutant: a lapsed account is graced from the end of its trial, paid or not. *)
StandingFromTrial(s, day) ==
    IF day < s.trial THEN [status |-> "trial", plan |-> "pro"]
    ELSE IF day < s.paid THEN [status |-> "active", plan |-> s.plan]
    ELSE IF day < s.trial + GraceDays THEN [status |-> "grace", plan |-> "pro"]
    ELSE [status |-> "paused", plan |-> "none"]

(* The status and the plan whose features apply; "none" while paused.  Every  *)
(* owner has a row with a trial: the registration, or the migration that      *)
(* introduced paying, inserted it.                                            *)
Standing(s, day) ==
    LET ended == IF s.paid # None THEN s.paid ELSE s.trial
        lapsed == IF s.paid # None THEN s.plan ELSE "pro"
    IN  IF ~Enforced THEN [status |-> "unlimited", plan |-> "pro"]
        ELSE IF day < s.trial THEN [status |-> "trial", plan |-> "pro"]
        ELSE IF day < s.paid THEN [status |-> "active", plan |-> s.plan]
        ELSE IF day < ended + GraceDays THEN [status |-> "grace", plan |-> lapsed]
        ELSE [status |-> "paused", plan |-> "none"]

CanUpload(standing) == standing.plan # "none"
AllowsStaff(standing) == standing.plan = "pro"

StoreLimit(standing) ==
    CASE standing.status = "unlimited" -> MaxStores + 1
      [] ~CanUpload(standing) -> 0
      [] OTHER -> PlanStoreLimit[standing.plan]

(* The trial runs, or paid time is left. *)
Covered(s, day) == day < Later(s.trial, s.paid)

(* Mutant: paid time starts today, trial or not. *)
PaidFromToday(s, p, months, day) == day + months * MonthDays

(* A month is MonthDays days; the conversion rounds down to a whole day as    *)
(* the code's rounds down to a whole second.                                  *)
PaidThroughAfter(s, p, months, day) ==
    LET paidFrom == Later(s.trial, day)
        remaining == Later(s.paid - paidFrom, 0)
        converted == IF s.plan = p THEN remaining
                     ELSE (remaining * MonthlyCentavos[s.plan]) \div MonthlyCentavos[p]
    IN  paidFrom + converted + months * MonthDays

(* What an instance knows: what it remembers, or what it reads now.           *)
Known(i) == IF memory[i] = Nothing THEN sub ELSE memory[i]
Resolve(i) == memory' = [memory EXCEPT ![i] = Known(i)]

(* Mutant: the newest stores are the ones that take entries. *)
NewestStores(store, limit) ==
    store \in stores /\ Cardinality({other \in stores : other > store}) < limit

(* The oldest stores take entries and the rest wait. *)
IsWithinFirst(store, limit) ==
    store \in stores /\ Cardinality({other \in stores : other < store}) < limit

-----------------------------------------------------------------------------
(* A checkout: the payment is inserted, the gateway is asked for a page, the  *)
(* page's reference is stored, and only then is the address handed out.  The  *)
(* request may end after any of these steps.                                  *)

OpenPayment(p) ==
    /\ Enforced
    /\ payment[p].step = "none" /\ \A q \in 1..(p - 1) : payment[q].step # "none"
    /\ \E plan \in Plans, months \in OfferedMonths :
          payment' = [payment EXCEPT ![p] =
              [@ EXCEPT !.step = "opened", !.plan = plan, !.months = months]]
    /\ UNCHANGED <<days, gateway, shop, sub, at>>

(* Mutant: the address is handed out before the reference is stored. *)
AnswerEarly(p) ==
    /\ payment[p].step = "opened"
    /\ payment' = [payment EXCEPT ![p].step = "handed"]
    /\ UNCHANGED <<days, gateway, shop, sub, at>>

CreateCheckout(p) ==
    /\ payment[p].step = "opened"
    /\ payment' = [payment EXCEPT ![p].step = "created"]
    /\ UNCHANGED <<days, gateway, shop, sub, at>>

SetReference(p) ==
    /\ payment[p].step = "created"
    /\ payment' = [payment EXCEPT ![p].reference = TRUE, ![p].step = "handed"]
    /\ UNCHANGED <<days, gateway, shop, sub, at>>

(* The owner pays on the gateway's page. *)
PayAtGateway(p) ==
    /\ mode = "paymongo"
    /\ payment[p].step = "handed"
    /\ p \notin charged
    /\ charged' = charged \cup {p}
    /\ UNCHANGED <<days, shop, sub, payment, acked, at>>

-----------------------------------------------------------------------------
(* A confirmation: one transaction that marks the payment, locks the          *)
(* subscription, and writes both when it commits.                             *)

Idle == [step |-> "idle", job |-> 0, seen |-> Nothing]
Marking(w, p) == at[w].step \in {"marked", "locked"} /\ at[w].job = p

(* The UPDATE waits for a transaction that holds the row, then takes only a   *)
(* pending payment with that reference; otherwise the answer is success and   *)
(* nothing changes.                                                           *)
MarkPaid(w, p) ==
    /\ at[w] = Idle
    /\ \A v \in Workers : ~Marking(v, p)
    /\ IF payment[p].reference /\ payment[p].status = "pending"
       THEN /\ at' = [at EXCEPT ![w].step = "marked", ![w].job = p]
            /\ UNCHANGED acked
       ELSE acked' = acked \cup {p} /\ UNCHANGED at
    /\ UNCHANGED <<days, shop, sub, payment, charged>>

(* What reaches the webhook: reports of the gateway, about payments it took   *)
(* and about other events, again after they were answered too; and anything   *)
(* else, without the gateway's signature.                                     *)
Reports == [payment : Payments, type : {"paid", "other"}, genuine : BOOLEAN]
Sent(r) == r.genuine /\ r.type = "paid" => r.payment \in charged

(* Mutant: every signed event counts as paid. *)
VerifySignatureOnly(r) == r.genuine

(* Only the gateway can sign with the webhook's secret. *)
SignatureMatches(r) == r.genuine

VerifyWebhook(r) == SignatureMatches(r) /\ r.type = "paid"

(* An event that is refused or ignored changes nothing. *)
Webhook(w, r) ==
    /\ mode = "paymongo" /\ payment[r.payment].step = "handed"
    /\ Sent(r)
    /\ VerifyWebhook(r)
    /\ MarkPaid(w, r.payment)

PaidReport(p) == [payment |-> p, type |-> "paid", genuine |-> TRUE]

(* The button of the test gateway's page. *)
PayTestCheckout(w, p) ==
    /\ mode = "test"
    /\ payment[p].reference /\ payment[p].status = "pending"
    /\ MarkPaid(w, p)

(* Mutant: the subscription is read without FOR UPDATE. *)
ReadUnlocked(w) ==
    /\ at[w].step = "marked"
    /\ at' = [at EXCEPT ![w].step = "locked", ![w].seen = sub]
    /\ UNCHANGED <<days, gateway, shop, sub, payment>>

LockSubscription(w) ==
    /\ at[w].step = "marked"
    /\ \A v \in Workers : at[v].step # "locked"
    /\ at' = [at EXCEPT ![w].step = "locked", ![w].seen = sub]
    /\ UNCHANGED <<days, gateway, shop, sub, payment>>

(* The upsert, the commit, and what confirm() does next: the instance that    *)
(* served the report forgets its sessions, unless the request is dropped      *)
(* before that.  The other instances go on with what they remember.           *)
Commit(w) ==
    LET p == at[w].job
        until == PaidThroughAfter(at[w].seen, payment[p].plan, payment[p].months, today)
    IN  /\ at[w].step = "locked"
        /\ sub' = [sub EXCEPT !.plan = payment[p].plan, !.paid = until]
        /\ payment' = [payment EXCEPT ![p].status = "paid"]
        /\ at' = [at EXCEPT ![w] = Idle]
        /\ acked' = acked \cup {p}
        /\ memory' \in {memory} \cup {[memory EXCEPT ![i] = Nothing] : i \in Instances}
        /\ uncovered' = 0
        /\ UNCHANGED <<mode, today, charged, stores, opened>>

(* The server stops or the database goes away: the transaction is undone and  *)
(* a report gets no success.                                                  *)
Abort(w) ==
    /\ at[w].step # "idle"
    /\ at' = [at EXCEPT ![w] = Idle]
    /\ UNCHANGED <<days, gateway, shop, sub, payment>>

-----------------------------------------------------------------------------
(* What the plan lets the stores do. *)

(* check_new_store counts; create_store inserts after it, in another query.   *)
CheckNewStore(w, i) ==
    /\ at[w] = Idle
    /\ opened + Cardinality({v \in Workers : at[v].step = "opening"}) < MaxStores
    /\ CanUpload(Standing(Known(i), today))
    /\ Cardinality(stores) < StoreLimit(Standing(Known(i), today))
    /\ at' = [at EXCEPT ![w].step = "opening"]
    /\ Resolve(i)
    /\ UNCHANGED <<days, gateway, sub, payment, stores, opened>>

(* created_at is now(), the moment the statement's transaction begins: a      *)
(* store gets its place among the others before they see it.                  *)
BeginInsert(w) ==
    /\ at[w].step = "opening"
    /\ opened < MaxStores
    /\ opened' = opened + 1
    /\ at' = [at EXCEPT ![w].step = "inserting", ![w].job = opened + 1]
    /\ UNCHANGED <<days, gateway, sub, payment, stores, memory>>

InsertStore(w) ==
    /\ at[w].step = "inserting"
    /\ stores' = stores \cup {at[w].job}
    /\ at' = [at EXCEPT ![w] = Idle]
    /\ UNCHANGED <<days, gateway, sub, payment, opened, memory>>

(* Reads are open to the owner whatever the plan; staff need a plan with      *)
(* staff, and entries a store within the plan's number.                       *)
CheckStoreRequest(standing, store, isOwner, isWrite) ==
    /\ isOwner \/ AllowsStaff(standing)
    /\ isWrite => CanUpload(standing) /\ IsWithinFirst(store, StoreLimit(standing))

(* Managing staff and renaming a store never wait on a payment. *)
TakesEntries(request) == request = "entry"

StoreRequest(i, store, isOwner, request) ==
    /\ store \in stores
    /\ CheckStoreRequest(Standing(Known(i), today), store, isOwner, TakesEntries(request))
    /\ Resolve(i)
    /\ UNCHANGED <<days, gateway, sub, payment, at, stores, opened>>

(* Requests and remembered sessions are far shorter than a day. *)
NewDay ==
    /\ today < MaxDay
    /\ \A w \in Workers : at[w] = Idle
    /\ today' = today + 1
    /\ memory' = [i \in Instances |-> Nothing]
    /\ uncovered' = IF Covered(sub, today + 1) THEN 0 ELSE uncovered + 1
    /\ UNCHANGED <<gateway, mode, sub, payment, at, stores, opened>>

-----------------------------------------------------------------------------
Init ==
    /\ mode \in {"off", "test", "paymongo"}
    /\ today = 0
    /\ sub = [plan |-> "pro", trial |-> TrialDays, paid |-> None]
    /\ payment = [p \in Payments |-> [step |-> "none", plan |-> "pro", months |-> 1,
                                      reference |-> FALSE, status |-> "pending"]]
    /\ charged = {} /\ acked = {}
    /\ at = [w \in Workers |-> Idle]
    /\ stores = {1} /\ opened = 1
    /\ memory = [i \in Instances |-> Nothing]
    /\ uncovered = IF Covered(sub, 0) THEN 0 ELSE 1

Checkout(p) == OpenPayment(p) \/ CreateCheckout(p) \/ SetReference(p)

Next ==
    \/ \E p \in Payments : Checkout(p) \/ PayAtGateway(p)
    \/ \E w \in Workers :
          \/ \E r \in Reports : Webhook(w, r)
          \/ \E p \in Payments : PayTestCheckout(w, p)
          \/ LockSubscription(w) \/ Commit(w) \/ Abort(w)
          \/ BeginInsert(w) \/ InsertStore(w)
          \/ \E i \in Instances : CheckNewStore(w, i)
    \/ \E i \in Instances, store \in 1..MaxStores, isOwner \in BOOLEAN,
          request \in {"read", "manage", "entry"} :
          StoreRequest(i, store, isOwner, request)
    \/ NewDay

(* The gateway repeats a report until it is answered; requests end; a         *)
(* confirmation that is tried again and again is not undone every time.       *)
Fairness ==
    /\ WF_at(\E w \in Workers : BeginInsert(w) \/ InsertStore(w))
    /\ \A p \in Payments :
          /\ SF_<<at, acked>>(p \notin acked /\ \E w \in Workers : Webhook(w, PaidReport(p)))
          /\ SF_at(\E w \in Workers : at[w].job = p /\ LockSubscription(w))
          /\ SF_at(\E w \in Workers : at[w].job = p /\ Commit(w))

Spec == Init /\ [][Next]_vars /\ Fairness

-----------------------------------------------------------------------------
Subscriptions == [plan : Plans, trial : Nat, paid : Nat \cup {None}]

(* Types; a subscription is never left paid through a day before its trial    *)
(* ends (plan.rs, paid_through_after).                                        *)
TypeOK ==
    /\ mode \in {"off", "test", "paymongo"}
    /\ today \in 0..MaxDay
    /\ sub \in Subscriptions /\ (sub.paid # None => sub.paid > sub.trial)
    /\ payment \in [Payments ->
          [step : {"none", "opened", "created", "handed"}, plan : Plans,
           months : OfferedMonths, reference : BOOLEAN, status : {"pending", "paid"}]]
    /\ charged \subseteq Payments /\ acked \subseteq Payments
    /\ at \in [Workers -> [step : {"idle", "marked", "locked", "opening", "inserting"},
                           job : Nat, seen : Subscriptions \cup {Nothing}]]
    /\ opened \in 1..MaxStores /\ stores \subseteq 1..opened
    /\ memory \in [Instances -> Subscriptions \cup {Nothing}]
    /\ uncovered \in Nat

(* The account the owner was promised, read off the row.  Every payment       *)
(* reported any number of times, by confirmations that run at once, are       *)
(* undone and are tried again, extends the subscription exactly once; time    *)
(* left on another plan is worth what it cost; trial days are never eaten     *)
(* (billing_repository.rs confirm, plan.rs paid_through_after).               *)
Promise == INSTANCE PrepaidAccount WITH
    Cost <- MonthlyCentavos,
    trialLeft <- Later(sub.trial - today, 0),
    plan <- sub.plan,
    credit <- Later(sub.paid - Later(sub.trial, today), 0) * MonthlyCentavos[sub.plan],
    settled <- {p \in Payments : payment[p].status = "paid"}
AccountAddsUp == Promise!Spec

(* Uploads pause exactly when the account has gone more than the grace days   *)
(* without trial or paid time, however trial, payments and changes of plan    *)
(* followed one another (plan.rs Standing::of).                               *)
GraceIsWhole ==
    Enforced => (CanUpload(Standing(sub, today)) <=> uncovered <= GraceDays)

(* Stores can be opened past the plan's number, by requests that counted      *)
(* before either inserted or that a server let in on a subscription it        *)
(* remembered; but no more than the plan's number ever take entries, and one  *)
(* that does is shut out by another's opening only when that one was begun    *)
(* before it and was still under way (billing_service.rs check_store_request, *)
(* billing_repository.rs is_within_first).                                    *)
Takes(i) ==
    {store \in stores : CheckStoreRequest(Standing(Known(i), today), store, TRUE, TRUE)}
OpeningShutsNoneOut ==
    [][\A i \in Instances :
         /\ Cardinality(Takes(i)) <= StoreLimit(Standing(Known(i), today))
         /\ stores' # stores =>
              \A store \in Takes(i) \ Takes(i)' :
                \E w \in Workers : at[w].step = "inserting" /\ at[w].job < store]_vars

(* What billing_repository.rs says of a smaller plan: "the oldest stores keep *)
(* taking entries and the rest wait".  No opening takes that from a store.    *)
OldestKeepTakingEntries ==
    [][\A i \in Instances : stores' # stores => Takes(i) \subseteq Takes(i)']_vars

(* Nothing is credited that the gateway did not take the money for, whatever  *)
(* reaches the webhook (payment_gateway.rs verify_webhook).                   *)
CreditedWasCharged ==
    mode = "paymongo" => \A p \in Payments : payment[p].status = "paid" => p \in charged

(* Money the gateway took is always credited in the end: no report is         *)
(* answered with success and dropped because it came before its reference     *)
(* was stored (billing_service.rs checkout, confirm).  What is charged stays  *)
(* charged, so that each payment is credited once all that were charged are.  *)
PaidIsCredited == []<>(\A p \in charged : payment[p].status = "paid")
=============================================================================
