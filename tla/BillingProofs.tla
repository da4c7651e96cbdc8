---------------------------- MODULE BillingProofs ----------------------------
(* Proofs about Billing: nothing is credited that was not charged, the grace  *)
(* period is whole, a store that takes entries is not shut out by another one *)
(* being opened, and the owner's account adds up as PrepaidAccount promises,  *)
(* for any number of payments, workers, servers, stores and days.             *)
(*                                                                            *)
(* Two facts carry the proofs. At most one confirmation holds the row of the  *)
(* subscription, and what it read is what is there when it commits. And the   *)
(* days without cover are counted from one day, the last that trial or paid   *)
(* time reached.                                                              *)
EXTENDS Billing, TLAPS, FiniteSetTheorems, WellFoundedInduction

Confirming(w) == at[w].step \in {"marked", "locked"}

(* A confirmation under way is of a pending payment that nobody else is       *)
(* confirming, and that the gateway took the money for.                       *)
Jobs ==
    /\ \A w \in Workers : Confirming(w) =>
          /\ at[w].job \in Payments
          /\ payment[at[w].job].status = "pending"
          /\ mode = "paymongo" => at[w].job \in charged
    /\ \A v, w \in Workers : v # w /\ Confirming(v) /\ Confirming(w) => at[v].job # at[w].job

(* One at a time holds the subscription, and it holds what was read.          *)
Locked ==
    /\ \A v, w \in Workers : at[v].step = "locked" /\ at[w].step = "locked" => v = w
    /\ \A w \in Workers : at[w].step = "locked" => at[w].seen = sub

Ended == IF sub.paid # None THEN sub.paid ELSE sub.trial

DaysCounted == uncovered = IF today < Ended THEN 0 ELSE today - Ended + 1

(* A store being inserted has its place already.                              *)
Begun == \A w \in Workers : at[w].step = "inserting" => at[w].job \in 1..opened

IInv == TypeOK /\ Jobs /\ Begun /\ Locked /\ DaysCounted /\ CreditedWasCharged

-----------------------------------------------------------------------------
(* plan.rs                                                                    *)

Proper(s) == s \in Subscriptions /\ (s.paid # None => s.paid > s.trial)

EndOf(s) == IF s.paid # None THEN s.paid ELSE s.trial

(* An upload is let through until the grace days after the end are over.      *)
LEMMA UploadsUntil ==
    ASSUME NEW s, Proper(s), NEW day \in Nat, Enforced
    PROVE  /\ EndOf(s) \in Nat
           /\ CanUpload(Standing(s, day)) <=> day < EndOf(s) + GraceDays
           /\ Covered(s, day) <=> day < EndOf(s)
<1>1. /\ s.plan \in {"basic", "pro"} /\ s.trial \in Nat
      /\ s.paid \in Nat \/ s.paid = -1
      /\ s.paid # -1 => s.paid > s.trial
  BY DEF Proper, Subscriptions, Plans, None
<1>2. GraceDays \in Nat
  BY BillingAssumption
<1>3. EndOf(s) \in Nat /\ EndOf(s) = Later(s.trial, s.paid) /\ s.trial <= EndOf(s) /\ s.paid <= EndOf(s)
  BY <1>1 DEF EndOf, Later, None
<1>4. CanUpload(Standing(s, day)) <=> day < EndOf(s) + GraceDays
  <2> DEFINE lapsed == IF s.paid # None THEN s.plan ELSE "pro"
  <2>1. lapsed # "none" /\ s.plan # "none"
    BY <1>1
  <2>2. Standing(s, day) =
          IF day < s.trial THEN [status |-> "trial", plan |-> "pro"]
          ELSE IF day < s.paid THEN [status |-> "active", plan |-> s.plan]
          ELSE IF day < EndOf(s) + GraceDays THEN [status |-> "grace", plan |-> lapsed]
          ELSE [status |-> "paused", plan |-> "none"]
    BY DEF Standing, EndOf
  <2> HIDE DEF lapsed
  <2>3. CASE day < s.trial
    BY <1>1, <1>2, <1>3, <2>2, <2>3 DEF CanUpload
  <2>4. CASE ~(day < s.trial) /\ day < s.paid
    BY <1>1, <1>2, <1>3, <2>1, <2>2, <2>4 DEF CanUpload
  <2>5. CASE ~(day < s.trial) /\ ~(day < s.paid)
    BY <1>1, <1>2, <1>3, <2>1, <2>2, <2>5 DEF CanUpload
  <2> QED  BY <2>3, <2>4, <2>5
<1> QED  BY <1>3, <1>4 DEF Covered

(* The number of stores a standing allows is a number.                        *)
LEMMA LimitIsNumber ==
    ASSUME NEW s \in Subscriptions, NEW day
    PROVE  StoreLimit(Standing(s, day)) \in Nat
<1>1. ProStores \in Nat /\ MaxStores \in Nat
  BY BillingAssumption
<1>2. /\ Standing(s, day).plan \in {"basic", "pro", "none"}
      /\ Standing(s, day).status = "unlimited" \/ Standing(s, day).status # "unlimited"
  BY DEF Subscriptions, Plans, Standing
<1> DEFINE st == Standing(s, day)
<1> HIDE DEF st
<1>3. PlanStoreLimit["basic"] \in Nat /\ PlanStoreLimit["pro"] \in Nat
  BY <1>1 DEF PlanStoreLimit
<1>4. ASSUME st.plan \in {"basic", "pro", "none"} PROVE StoreLimit(st) \in Nat
  BY <1>1, <1>3, <1>4 DEF StoreLimit, CanUpload
<1> QED  BY <1>2, <1>4 DEF st

(* The time bought is added to what is left, worth what it cost, and nothing  *)
(* of the trial is taken.                                                     *)
PaidFrom(s, day) == Later(s.trial, day)
Left(s, day) == Later(s.paid - PaidFrom(s, day), 0)

LEMMA TimeBought ==
    ASSUME NEW s, Proper(s), NEW p \in Plans, NEW months \in OfferedMonths, NEW day \in Nat,
           NEW until, until = PaidThroughAfter(s, p, months, day),
           NEW from, from = PaidFrom(s, day),
           NEW c, c = MonthlyCentavos[s.plan], NEW d, d = MonthlyCentavos[p],
           NEW left, left = Left(s, day), NEW bought, bought = months * MonthDays
    PROVE  /\ until \in Nat /\ until > s.trial /\ until > day
           /\ from \in Nat /\ left \in Nat /\ bought \in Nat
           /\ c \in {9900, 19900} /\ d \in {9900, 19900}
           /\ Later(until - from, 0) \in Nat
           /\ Later(until - from, 0) * d <= left * c + bought * d
           /\ Later(until - from, 0) * d > left * c + bought * d - d
<1> DEFINE converted == IF s.plan = p THEN left ELSE (left * c) \div d
<1>1. s.trial \in Nat /\ s.paid \in Int /\ s.plan \in Plans /\ s.paid >= -1
  BY DEF Proper, Subscriptions, None
<1>2. MonthDays \in Nat /\ MonthDays > 0
  BY BillingAssumption
<1>3. from \in Nat /\ from >= s.trial /\ from >= day /\ left \in Nat
  BY <1>1 DEF Later, PaidFrom, Left
<1>4. c \in {9900, 19900} /\ d \in {9900, 19900} /\ (s.plan = p => c = d)
  BY <1>1 DEF Plans, MonthlyCentavos
<1>5. bought \in Nat /\ bought > 0
  BY <1>2 DEF OfferedMonths
<1>6. until = from + converted + bought
  BY DEF PaidThroughAfter, PaidFrom, Left
<1>7. converted \in Nat /\ converted * d <= left * c /\ converted * d > left * c - d
  <2>1. CASE s.plan = p
    BY <1>3, <1>4, <2>1
  <2>2. CASE s.plan # p
    <3>1. CASE d = 9900 /\ c = 9900
      BY <1>3, <2>2, <3>1
    <3>2. CASE d = 9900 /\ c = 19900
      BY <1>3, <2>2, <3>2
    <3>3. CASE d = 19900 /\ c = 9900
      BY <1>3, <2>2, <3>3
    <3>4. CASE d = 19900 /\ c = 19900
      BY <1>3, <2>2, <3>4
    <3> QED  BY <1>4, <3>1, <3>2, <3>3, <3>4
  <2> QED  BY <2>1, <2>2
<1> HIDE DEF converted
<1>8. until \in Nat /\ until > s.trial /\ until > day /\ Later(until - from, 0) = converted + bought
  BY <1>1, <1>3, <1>5, <1>6, <1>7 DEF Later
<1>9. /\ (converted + bought) * d <= left * c + bought * d
      /\ (converted + bought) * d > left * c + bought * d - d
  <2>1. CASE d = 9900
    <3>1. c = 9900 \/ c = 19900
      BY <1>4
    <3> QED  BY <1>3, <1>5, <1>7, <2>1, <3>1
  <2>2. CASE d = 19900
    <3>1. c = 9900 \/ c = 19900
      BY <1>4
    <3> QED  BY <1>3, <1>5, <1>7, <2>2, <3>1
  <2> QED  BY <1>4, <2>1, <2>2
<1>10. Later(until - from, 0) \in Nat
  BY <1>3, <1>5, <1>7, <1>8
<1> QED  BY <1>3, <1>4, <1>5, <1>8, <1>9, <1>10

LEMMA PaidAhead ==
    ASSUME NEW s, Proper(s), NEW p \in Plans, NEW months \in OfferedMonths, NEW day \in Nat
    PROVE  /\ PaidThroughAfter(s, p, months, day) \in Nat
           /\ PaidThroughAfter(s, p, months, day) > s.trial
           /\ PaidThroughAfter(s, p, months, day) > day
<1> DEFINE from == PaidFrom(s, day)
           left == Left(s, day)
           bought == months * MonthDays
           converted == IF s.plan = p THEN left
                        ELSE (left * MonthlyCentavos[s.plan]) \div MonthlyCentavos[p]
<1>1. s.trial \in Nat /\ s.paid \in Int /\ s.plan \in Plans /\ s.paid >= -1
  BY DEF Proper, Subscriptions, None
<1>2. from \in Nat /\ from >= s.trial /\ from >= day /\ left \in Nat
  BY <1>1 DEF Later, PaidFrom, Left
<1>3. bought \in Nat /\ bought > 0
  BY BillingAssumption DEF OfferedMonths
<1>4. PaidThroughAfter(s, p, months, day) = from + converted + bought
  BY DEF PaidThroughAfter, PaidFrom, Left
<1> HIDE DEF from, left, bought
<1>5. MonthlyCentavos[s.plan] \in {9900, 19900} /\ MonthlyCentavos[p] \in {9900, 19900}
  BY <1>1 DEF Plans, MonthlyCentavos
<1>6. converted \in Nat
  BY <1>2, <1>5
<1> HIDE DEF converted
<1> QED  BY <1>1, <1>2, <1>3, <1>4, <1>6

-----------------------------------------------------------------------------
(* The steps.                                                                 *)

PaymentRows ==
    [Payments -> [step : {"none", "opened", "created", "handed"}, plan : Plans,
                  months : OfferedMonths, reference : BOOLEAN, status : {"pending", "paid"}]]

LEMMA InitHolds == Init => IInv
<1> SUFFICES ASSUME Init PROVE IInv
  OBVIOUS
<1> USE BillingAssumption
<1>1. sub \in Subscriptions /\ sub.paid = None /\ sub.trial = TrialDays
  BY DEF Init, Subscriptions, Plans, None
<1>2. Idle.step = "idle" /\ Idle.job = 0 /\ Idle.seen = Nothing
  BY DEF Idle
<1>3. uncovered \in Nat /\ DaysCounted
  BY <1>1 DEF Init, Covered, Later, DaysCounted, Ended, None
<1>4. payment \in [Payments ->
          [step : {"none", "opened", "created", "handed"}, plan : Plans,
           months : OfferedMonths, reference : BOOLEAN, status : {"pending", "paid"}]]
      /\ \A p \in Payments : payment[p].status = "pending"
  BY DEF Init, Plans, OfferedMonths
<1>5. at \in [Workers -> [step : {"idle", "marked", "locked", "opening", "inserting"},
                          job : Nat, seen : Subscriptions \cup {Nothing}]]
      /\ \A w \in Workers : at[w].step = "idle"
  BY <1>2 DEF Init, Idle
<1>6. TypeOK
  BY <1>1, <1>3, <1>4, <1>5 DEF Init, TypeOK
<1> QED  BY <1>3, <1>4, <1>5, <1>6 DEF IInv, Jobs, Begun, Locked, Confirming, CreditedWasCharged

(* A step of the checkout leaves every payment as paid or unpaid as it was.   *)
LEMMA CheckoutKeepsStatus ==
    ASSUME IInv, NEW p \in Payments, Checkout(p)
    PROVE  /\ payment' \in PaymentRows
           /\ \A q \in Payments : payment'[q].status = payment[q].status
<1>1. payment \in PaymentRows
  BY DEF IInv, TypeOK, PaymentRows
<1>2. ASSUME OpenPayment(p)
      PROVE  payment' \in PaymentRows /\ \A q \in Payments : payment'[q].status = payment[q].status
  <2>1. payment' \in PaymentRows
    BY <1>1, <1>2 DEF OpenPayment, PaymentRows
  <2>2. \A q \in Payments : payment'[q].status = payment[q].status
    BY <1>1, <1>2 DEF OpenPayment, PaymentRows
  <2> QED  BY <2>1, <2>2
<1>3. ASSUME CreateCheckout(p)
      PROVE  payment' \in PaymentRows /\ \A q \in Payments : payment'[q].status = payment[q].status
  BY <1>1, <1>3 DEF CreateCheckout, PaymentRows
<1>4. ASSUME SetReference(p)
      PROVE  payment' \in PaymentRows /\ \A q \in Payments : payment'[q].status = payment[q].status
  BY <1>1, <1>4 DEF SetReference, PaymentRows
<1> QED  BY <1>2, <1>3, <1>4 DEF Checkout

LEMMA CheckoutKeepsIInv ==
    ASSUME IInv, NEW p \in Payments, Checkout(p)
    PROVE  IInv'
<1>1. UNCHANGED <<days, gateway, shop, sub, at>>
  BY DEF Checkout, OpenPayment, CreateCheckout, SetReference
<1>2. UNCHANGED <<mode, today, uncovered, charged, acked, stores, opened, memory, sub, at>>
  BY <1>1 DEF days, gateway, shop
<1>4. payment' \in PaymentRows /\ \A q \in Payments : payment'[q].status = payment[q].status
  BY CheckoutKeepsStatus
<1>5. TypeOK'
  BY <1>2, <1>4 DEF IInv, TypeOK, PaymentRows
<1>6. Jobs'
  BY <1>2, <1>4 DEF IInv, Jobs, Confirming
<1>7. Begun' /\ Locked' /\ DaysCounted'
  BY <1>2 DEF IInv, Begun, Locked, DaysCounted, Ended
<1>8. CreditedWasCharged'
  BY <1>2, <1>4 DEF IInv, CreditedWasCharged
<1> QED  BY <1>5, <1>6, <1>7, <1>8 DEF IInv

LEMMA PayKeepsIInv ==
    ASSUME IInv, NEW p \in Payments, PayAtGateway(p)
    PROVE  IInv'
<1>1. /\ UNCHANGED <<mode, today, uncovered, acked, stores, opened, memory, sub, payment, at>>
      /\ charged' = charged \cup {p}
  BY DEF PayAtGateway, days, shop
<1>2. TypeOK'
  BY <1>1 DEF IInv, TypeOK
<1>3. Jobs' /\ Begun' /\ Locked' /\ DaysCounted' /\ CreditedWasCharged'
  BY <1>1 DEF IInv, Jobs, Begun, Confirming, Locked, DaysCounted, Ended, CreditedWasCharged
<1> QED  BY <1>2, <1>3 DEF IInv

(* What a worker's step leaves alone, and the worker's new state.             *)
WorkerStep(w, x) ==
    /\ at' = [at EXCEPT ![w] = x]
    /\ UNCHANGED <<mode, today, uncovered, charged, sub, payment>>
    /\ acked' \subseteq Payments
    /\ opened' \in opened..MaxStores /\ stores' \subseteq 1..opened'
    /\ memory' \in [Instances -> Subscriptions \cup {Nothing}]

WorkerState == [step : {"idle", "marked", "locked", "opening", "inserting"},
                job : Nat, seen : Subscriptions \cup {Nothing}]

LEMMA WorkerStepKeeps ==
    ASSUME IInv, NEW w \in Workers, NEW x \in WorkerState, WorkerStep(w, x),
           x.step \in {"marked", "locked"} =>
               /\ x.job \in Payments /\ payment[x.job].status = "pending"
               /\ mode = "paymongo" => x.job \in charged
               /\ \A v \in Workers : v # w /\ Confirming(v) => at[v].job # x.job,
           x.step = "inserting" => x.job \in 1..opened',
           x.step = "locked" => x.seen = sub /\ \A v \in Workers : at[v].step # "locked"
    PROVE  IInv'
<1>1. at \in [Workers -> WorkerState]
  BY DEF IInv, TypeOK, WorkerState
<1>2. at' \in [Workers -> WorkerState] /\ at'[w] = x /\ \A v \in Workers : v # w => at'[v] = at[v]
  BY <1>1 DEF WorkerStep
<1>7. opened \in 1..MaxStores /\ opened' \in 1..MaxStores /\ opened <= opened' /\ MaxStores \in Nat
  BY BillingAssumption DEF IInv, TypeOK, WorkerStep
<1>3. TypeOK'
  BY <1>2, <1>7 DEF IInv, TypeOK, WorkerStep, WorkerState
<1>8. Begun'
  BY <1>2, <1>7 DEF IInv, Begun
<1>4. Jobs'
  <2>1. ASSUME NEW v \in Workers, Confirming(v)'
        PROVE  /\ at'[v].job \in Payments
               /\ payment'[at'[v].job].status = "pending"
               /\ mode' = "paymongo" => at'[v].job \in charged'
    <3>1. CASE v = w
      BY <1>2, <2>1, <3>1 DEF WorkerStep, Confirming
    <3>2. CASE v # w
      BY <1>2, <2>1, <3>2 DEF WorkerStep, Confirming, IInv, Jobs
    <3> QED  BY <3>1, <3>2
  <2>2. ASSUME NEW u \in Workers, NEW v \in Workers, u # v, Confirming(u)', Confirming(v)'
        PROVE  at'[u].job # at'[v].job
    <3>1. CASE u = w
      BY <1>2, <2>2, <3>1 DEF Confirming
    <3>2. CASE v = w
      BY <1>2, <2>2, <3>2 DEF Confirming
    <3>3. CASE u # w /\ v # w
      BY <1>2, <2>2, <3>3 DEF Confirming, IInv, Jobs
    <3> QED  BY <3>1, <3>2, <3>3
  <2> QED  BY <2>1, <2>2 DEF Jobs
<1>5. Locked'
  BY <1>2 DEF IInv, Locked, WorkerStep
<1>6. DaysCounted' /\ CreditedWasCharged'
  BY DEF IInv, DaysCounted, Ended, CreditedWasCharged, WorkerStep
<1> QED  BY <1>3, <1>4, <1>5, <1>6, <1>8 DEF IInv

LEMMA StoresStay ==
    ASSUME IInv, UNCHANGED <<opened, stores>>
    PROVE  opened' \in opened..MaxStores /\ stores' \subseteq 1..opened'
<1>1. opened \in 1..MaxStores /\ MaxStores \in Nat /\ stores \subseteq 1..opened
  BY BillingAssumption DEF IInv, TypeOK
<1> QED  BY <1>1

LEMMA IdleFacts == Idle \in WorkerState /\ Idle.step = "idle"
BY DEF Idle, WorkerState

(* A report, or the test page's button, takes a payment nobody confirms.      *)
LEMMA MarkKeepsIInv ==
    ASSUME IInv, NEW w \in Workers, NEW p \in Payments, MarkPaid(w, p),
           mode = "paymongo" => p \in charged
    PROVE  IInv'
<1>1. /\ UNCHANGED <<mode, today, uncovered, charged, sub, payment, stores, opened, memory>>
      /\ at[w] = Idle /\ \A v \in Workers : ~Marking(v, p)
  BY DEF MarkPaid, days, shop
<1>2. CASE /\ payment[p].status = "pending"
           /\ at' = [at EXCEPT ![w].step = "marked", ![w].job = p]
           /\ UNCHANGED acked
  <2> DEFINE x == [Idle EXCEPT !.step = "marked", !.job = p]
  <2>1. x \in WorkerState /\ x.step = "marked" /\ x.job = p
    <3>1. p \in Nat
      BY BillingAssumption DEF Payments
    <3> QED  BY <3>1, IdleFacts DEF WorkerState
  <2>2. at' = [at EXCEPT ![w] = x]
    BY <1>1, <1>2 DEF IInv, TypeOK
  <2> HIDE DEF x
  <2>3. WorkerStep(w, x)
    BY <1>1, <1>2, <2>2, StoresStay DEF WorkerStep, IInv, TypeOK
  <2>4. \A v \in Workers : v # w /\ Confirming(v) => at[v].job # p
    BY <1>1 DEF Confirming, Marking
  <2> QED  BY <1>2, <2>1, <2>3, <2>4, WorkerStepKeeps
<1>3. CASE acked' = acked \cup {p} /\ UNCHANGED at
  <2>1. TypeOK'
    BY <1>1, <1>3 DEF IInv, TypeOK
  <2> QED  BY <1>1, <1>3, <2>1 DEF IInv, Jobs, Begun, Confirming, Locked, DaysCounted, Ended, CreditedWasCharged
<1> QED  BY <1>2, <1>3 DEF MarkPaid

LEMMA WebhookKeepsIInv ==
    ASSUME IInv, NEW w \in Workers, NEW r \in Reports, Webhook(w, r)
    PROVE  IInv'
<1>1. r.payment \in Payments /\ r.payment \in charged
  BY DEF Reports, Webhook, VerifyWebhook, SignatureMatches, Sent
<1> QED  BY <1>1, MarkKeepsIInv DEF Webhook

LEMMA TestPageKeepsIInv ==
    ASSUME IInv, NEW w \in Workers, NEW p \in Payments, PayTestCheckout(w, p)
    PROVE  IInv'
BY MarkKeepsIInv DEF PayTestCheckout

LEMMA LockKeepsIInv ==
    ASSUME IInv, NEW w \in Workers, LockSubscription(w)
    PROVE  IInv'
<1>1. /\ UNCHANGED <<mode, today, uncovered, charged, acked, stores, opened, memory, sub, payment>>
      /\ at[w].step = "marked" /\ \A v \in Workers : at[v].step # "locked"
      /\ at' = [at EXCEPT ![w].step = "locked", ![w].seen = sub]
  BY DEF LockSubscription, days, gateway, shop
<1> DEFINE x == [at[w] EXCEPT !.step = "locked", !.seen = sub]
<1>2. at[w] \in WorkerState /\ sub \in Subscriptions
  BY DEF IInv, TypeOK, WorkerState
<1>3. x \in WorkerState /\ x.step = "locked" /\ x.seen = sub /\ x.job = at[w].job
  BY <1>2 DEF WorkerState
<1>4. at' = [at EXCEPT ![w] = x]
  BY <1>1 DEF IInv, TypeOK
<1> HIDE DEF x
<1>5. WorkerStep(w, x)
  BY <1>1, <1>4, StoresStay DEF WorkerStep, IInv, TypeOK
<1>6. /\ x.job \in Payments /\ payment[x.job].status = "pending"
      /\ mode = "paymongo" => x.job \in charged
      /\ \A v \in Workers : v # w /\ Confirming(v) => at[v].job # x.job
  BY <1>1, <1>3 DEF Confirming, IInv, Jobs
<1> QED  BY <1>1, <1>3, <1>5, <1>6, WorkerStepKeeps

LEMMA AbortKeepsIInv ==
    ASSUME IInv, NEW w \in Workers, Abort(w)
    PROVE  IInv'
<1>1. WorkerStep(w, Idle)
  BY StoresStay DEF Abort, WorkerStep, days, gateway, shop, IInv, TypeOK
<1> QED  BY <1>1, IdleFacts, WorkerStepKeeps

LEMMA KnownIsSubscription ==
    ASSUME IInv, NEW i \in Instances
    PROVE  Known(i) \in Subscriptions
BY DEF IInv, TypeOK, Known

LEMMA ResolveTyped ==
    ASSUME IInv, NEW i \in Instances, Resolve(i)
    PROVE  memory' \in [Instances -> Subscriptions \cup {Nothing}]
BY KnownIsSubscription DEF IInv, TypeOK, Resolve

LEMMA CheckKeepsIInv ==
    ASSUME IInv, NEW w \in Workers, NEW i \in Instances, CheckNewStore(w, i)
    PROVE  IInv'
<1>1. /\ UNCHANGED <<mode, today, uncovered, charged, acked, stores, opened, sub, payment>>
      /\ at[w] = Idle /\ Resolve(i) /\ at' = [at EXCEPT ![w].step = "opening"]
  BY DEF CheckNewStore, days, gateway
<1> DEFINE x == [Idle EXCEPT !.step = "opening"]
<1>2. x \in WorkerState /\ x.step = "opening"
  BY IdleFacts DEF WorkerState
<1>3. at' = [at EXCEPT ![w] = x]
  BY <1>1 DEF IInv, TypeOK
<1> HIDE DEF x
<1>4. WorkerStep(w, x)
  BY <1>1, <1>3, ResolveTyped, StoresStay DEF WorkerStep, IInv, TypeOK
<1> QED  BY <1>2, <1>4, WorkerStepKeeps

LEMMA BeginKeepsIInv ==
    ASSUME IInv, NEW w \in Workers, BeginInsert(w)
    PROVE  IInv'
<1>1. /\ UNCHANGED <<mode, today, uncovered, charged, acked, stores, memory, sub, payment>>
      /\ at[w].step = "opening" /\ opened < MaxStores /\ opened' = opened + 1
      /\ at' = [at EXCEPT ![w].step = "inserting", ![w].job = opened + 1]
  BY DEF BeginInsert, days, gateway
<1> DEFINE x == [at[w] EXCEPT !.step = "inserting", !.job = opened + 1]
<1>2. /\ at[w] \in WorkerState /\ opened \in 1..MaxStores /\ MaxStores \in Nat
      /\ stores \subseteq 1..opened
  BY BillingAssumption DEF IInv, TypeOK, WorkerState
<1>3. x \in WorkerState /\ x.step = "inserting" /\ x.job = opened + 1
  <2>1. opened + 1 \in Nat /\ at[w] \in WorkerState
    BY <1>2
  <2> QED  BY <2>1 DEF WorkerState
<1>4. at' = [at EXCEPT ![w] = x]
  BY <1>1 DEF IInv, TypeOK
<1> HIDE DEF x
<1>5. opened' \in opened..MaxStores /\ stores' \subseteq 1..opened' /\ x.job \in 1..opened'
  BY <1>1, <1>2, <1>3
<1>6. acked' \subseteq Payments /\ memory' \in [Instances -> Subscriptions \cup {Nothing}]
  BY <1>1 DEF IInv, TypeOK
<1>7. WorkerStep(w, x)
  BY <1>1, <1>4, <1>5, <1>6 DEF WorkerStep
<1> QED  BY <1>3, <1>5, <1>7, WorkerStepKeeps

LEMMA InsertKeepsIInv ==
    ASSUME IInv, NEW w \in Workers, InsertStore(w)
    PROVE  IInv'
<1>1. opened \in 1..MaxStores /\ MaxStores \in Nat /\ opened' = opened
  BY BillingAssumption DEF IInv, TypeOK, InsertStore
<1>4. at[w].job \in 1..opened /\ stores' = stores \cup {at[w].job} /\ stores \subseteq 1..opened
  BY DEF IInv, TypeOK, Begun, InsertStore
<1>2. stores' \subseteq 1..opened /\ opened' \in opened..MaxStores
  <2>1. stores' \subseteq 1..opened
    BY <1>4
  <2>2. opened \in opened..MaxStores
    BY <1>1
  <2> QED  BY <1>1, <2>1, <2>2
<1>3. WorkerStep(w, Idle)
  BY <1>1, <1>2 DEF InsertStore, WorkerStep, days, gateway, IInv, TypeOK
<1> QED  BY <1>3, IdleFacts, WorkerStepKeeps

LEMMA RequestKeepsIInv ==
    ASSUME IInv, NEW i \in Instances, NEW store, NEW isOwner, NEW request,
           StoreRequest(i, store, isOwner, request)
    PROVE  IInv'
<1>1. /\ UNCHANGED <<mode, today, uncovered, charged, acked, sub, payment, at, stores, opened>>
      /\ Resolve(i)
  BY DEF StoreRequest, days, gateway
<1>2. TypeOK'
  BY <1>1, ResolveTyped DEF IInv, TypeOK
<1> QED  BY <1>1, <1>2 DEF IInv, Jobs, Begun, Confirming, Locked, DaysCounted, Ended, CreditedWasCharged

(* A commit credits the payment to the subscription that is there.            *)
LEMMA CommitFacts ==
    ASSUME IInv, NEW w \in Workers, Commit(w)
    PROVE  /\ at[w].job \in Payments /\ payment[at[w].job].status = "pending"
           /\ mode = "paymongo" => at[w].job \in charged
           /\ Proper(sub) /\ today \in Nat
           /\ payment[at[w].job].plan \in Plans /\ payment[at[w].job].months \in OfferedMonths
           /\ sub' = [sub EXCEPT !.plan = payment[at[w].job].plan,
                        !.paid = PaidThroughAfter(sub, payment[at[w].job].plan,
                                                  payment[at[w].job].months, today)]
           /\ payment' = [payment EXCEPT ![at[w].job].status = "paid"]
           /\ at' = [at EXCEPT ![w] = Idle] /\ at[w].step = "locked"
<1>1. at[w].step = "locked" /\ at[w].seen = sub
  BY DEF Commit, IInv, Locked
<1>2. /\ at[w].job \in Payments /\ payment[at[w].job].status = "pending"
      /\ mode = "paymongo" => at[w].job \in charged
  BY <1>1 DEF IInv, Jobs, Confirming
<1>3. Proper(sub) /\ today \in Nat
  BY BillingAssumption DEF IInv, TypeOK, Proper
<1>4. payment[at[w].job].plan \in Plans /\ payment[at[w].job].months \in OfferedMonths
  BY <1>2 DEF IInv, TypeOK
<1> QED  BY <1>1, <1>2, <1>3, <1>4 DEF Commit

LEMMA CommitKeepsIInv ==
    ASSUME IInv, NEW w \in Workers, Commit(w)
    PROVE  IInv'
<1> DEFINE p == at[w].job
           until == PaidThroughAfter(sub, payment[p].plan, payment[p].months, today)
<1>1. /\ p \in Payments /\ payment[p].status = "pending" /\ (mode = "paymongo" => p \in charged)
      /\ Proper(sub) /\ today \in Nat
      /\ sub' = [sub EXCEPT !.plan = payment[p].plan, !.paid = until]
      /\ payment' = [payment EXCEPT ![p].status = "paid"]
      /\ at' = [at EXCEPT ![w] = Idle] /\ at[w].step = "locked"
      /\ payment[p].plan \in Plans
  BY CommitFacts
<1>2. until \in Nat /\ until > sub.trial /\ until > today
  BY CommitFacts, PaidAhead
<1> HIDE DEF until
<1>3. /\ UNCHANGED <<mode, today, charged, stores, opened>> /\ acked' = acked \cup {p} /\ uncovered' = 0
      /\ memory' \in {memory} \cup {[memory EXCEPT ![i] = Nothing] : i \in Instances}
  BY DEF Commit
<1>4. sub \in Subscriptions
  BY <1>1 DEF Proper
<1>5. sub' \in Subscriptions /\ sub'.paid = until /\ sub'.trial = sub.trial /\ sub'.paid # None
  <2> DEFINE plan == payment[p].plan
  <2>1. sub' = [sub EXCEPT !.plan = plan, !.paid = until] /\ plan \in Plans
    BY <1>1
  <2> HIDE DEF plan
  <2>2. sub' = [plan |-> plan, trial |-> sub.trial, paid |-> until] /\ sub.trial \in Nat
    BY <1>4, <2>1 DEF Subscriptions
  <2> QED  BY <1>2, <2>1, <2>2 DEF Subscriptions, None
<1>6. at \in [Workers -> WorkerState]
  BY DEF IInv, TypeOK, WorkerState
<1>7. /\ at' \in [Workers -> WorkerState] /\ at'[w].step = "idle"
      /\ \A v \in Workers : v # w => at'[v] = at[v]
  BY <1>1, <1>6, IdleFacts
<1>8. \A q \in Payments : payment'[q].status = IF q = p THEN "paid" ELSE payment[q].status
  <2>1. DOMAIN payment = Payments /\ \A q \in Payments : payment[q].status = payment[q].status
    BY DEF IInv, TypeOK
  <2>2. payment[p] \in [step : {"none", "opened", "created", "handed"}, plan : Plans,
           months : OfferedMonths, reference : BOOLEAN, status : {"pending", "paid"}]
    BY <1>1 DEF IInv, TypeOK
  <2>3. payment' = [payment EXCEPT ![p] = [payment[p] EXCEPT !.status = "paid"]]
    BY <1>1
  <2> QED  BY <1>1, <2>1, <2>2, <2>3
<1>9. memory' \in [Instances -> Subscriptions \cup {Nothing}]
  BY <1>3 DEF IInv, TypeOK
<1>10. payment' \in [Payments ->
          [step : {"none", "opened", "created", "handed"}, plan : Plans,
           months : OfferedMonths, reference : BOOLEAN, status : {"pending", "paid"}]]
  BY <1>1 DEF IInv, TypeOK
<1>16. Begun'
  BY <1>3, <1>7 DEF IInv, Begun
<1>11. TypeOK'
  BY <1>1, <1>2, <1>3, <1>5, <1>7, <1>9, <1>10 DEF IInv, TypeOK, WorkerState
<1>12. Jobs'
  <2>1. \A v \in Workers : Confirming(v)' => v # w /\ Confirming(v) /\ at'[v] = at[v]
    BY <1>7 DEF Confirming
  <2>2. \A v \in Workers : v # w /\ Confirming(v) => at[v].job # p
    BY <1>1 DEF IInv, Jobs, Confirming
  <2> QED  BY <1>3, <1>8, <2>1, <2>2 DEF IInv, Jobs
<1>13. Locked'
  BY <1>1, <1>7 DEF IInv, Locked
<1>14. DaysCounted'
  BY <1>2, <1>3, <1>5 DEF DaysCounted, Ended
<1>15. CreditedWasCharged'
  BY <1>1, <1>3, <1>8 DEF IInv, CreditedWasCharged
<1> QED  BY <1>11, <1>12, <1>13, <1>14, <1>15, <1>16 DEF IInv

LEMMA NewDayKeepsIInv ==
    ASSUME IInv, NewDay
    PROVE  IInv'
<1>1. /\ UNCHANGED <<mode, charged, acked, sub, payment, at, stores, opened>>
      /\ today < MaxDay /\ today' = today + 1
      /\ memory' = [i \in Instances |-> Nothing]
      /\ uncovered' = IF Covered(sub, today + 1) THEN 0 ELSE uncovered + 1
  BY DEF NewDay, gateway
<1>2. today \in Nat /\ MaxDay \in Nat
  BY BillingAssumption DEF IInv, TypeOK
<1>3. /\ sub.trial \in Nat /\ (sub.paid \in Nat \/ sub.paid = -1)
      /\ sub.paid # -1 => sub.paid > sub.trial
  BY DEF IInv, TypeOK, Subscriptions, None
<1>4. Ended \in Nat /\ (Covered(sub, today + 1) <=> today + 1 < Ended)
  BY <1>2, <1>3 DEF Ended, Covered, Later, None
<1>5. Ended' = Ended
  BY <1>1 DEF Ended
<1>6. DaysCounted' /\ uncovered' \in Nat
  BY <1>1, <1>2, <1>4, <1>5 DEF IInv, DaysCounted
<1>7. TypeOK'
  BY <1>1, <1>2, <1>6 DEF IInv, TypeOK
<1> QED  BY <1>1, <1>6, <1>7 DEF IInv, Jobs, Begun, Confirming, Locked, CreditedWasCharged

(* Types, the discipline of the lock and the count of days hold in every      *)
(* reachable state.                                                           *)
THEOREM Inductive == Spec => []IInv
<1>1. IInv /\ [Next]_vars => IInv'
  <2> SUFFICES ASSUME IInv, [Next]_vars PROVE IInv'
    OBVIOUS
  <2>1. CASE UNCHANGED vars
    BY <2>1 DEF vars, days, gateway, shop, IInv, TypeOK, Jobs, Begun, Confirming, Locked, DaysCounted,
       Ended, CreditedWasCharged
  <2>2. CASE Next
    BY <2>2, CheckoutKeepsIInv, PayKeepsIInv, WebhookKeepsIInv, TestPageKeepsIInv, LockKeepsIInv,
       CommitKeepsIInv, AbortKeepsIInv, BeginKeepsIInv, InsertKeepsIInv, CheckKeepsIInv, RequestKeepsIInv,
       NewDayKeepsIInv DEF Next
  <2> QED  BY <2>1, <2>2
<1> QED  BY InitHolds, <1>1, PTL DEF Spec

(* The variables keep their types, and a subscription is never left paid      *)
(* through a day before its trial ends (plan.rs, paid_through_after).         *)
THEOREM TypeCorrect == Spec => []TypeOK
<1>1. IInv => TypeOK
  BY DEF IInv
<1> QED  BY <1>1, Inductive, PTL

(* Nothing is credited that the gateway did not take the money for, however   *)
(* many reports are confirmed at once (payment_gateway.rs verify_webhook).    *)
THEOREM OnlyChargedIsCredited == Spec => []CreditedWasCharged
<1>1. IInv => CreditedWasCharged
  BY DEF IInv
<1> QED  BY <1>1, Inductive, PTL

(* Uploads pause when the days without trial or paid time exceed the grace,   *)
(* not a day before and not a day after (plan.rs Standing::of).               *)
THEOREM GraceRunsFromTheEnd == Spec => []GraceIsWhole
<1>1. IInv => GraceIsWhole
  <2> SUFFICES ASSUME IInv, Enforced
               PROVE  CanUpload(Standing(sub, today)) <=> uncovered <= GraceDays
    BY DEF GraceIsWhole
  <2>1. Proper(sub) /\ today \in Nat /\ GraceDays \in Nat
    BY BillingAssumption DEF IInv, TypeOK, Proper
  <2>2. EndOf(sub) \in Nat /\ (CanUpload(Standing(sub, today)) <=> today < EndOf(sub) + GraceDays)
    BY <2>1, UploadsUntil
  <2>3. uncovered = IF today < EndOf(sub) THEN 0 ELSE today - EndOf(sub) + 1
    BY DEF IInv, DaysCounted, Ended, EndOf
  <2> QED  BY <2>1, <2>2, <2>3
<1> QED  BY <1>1, Inductive, PTL

-----------------------------------------------------------------------------
(* The stores that take entries. *)

(* Every set of numbers has a least one, and one that is bounded a greatest.  *)
LEMMA Least ==
    ASSUME NEW S, S \subseteq Nat, S # {}
    PROVE  \E d \in S : \A e \in S : d <= e
<1>1. PICK d \in S : \A e \in S : ~(<<e, d>> \in OpToRel(<, Nat))
  BY NatLessThanWellFounded, WFMin
<1>2. \A e \in S : ~(e < d)
  BY <1>1 DEF OpToRel
<1> QED  BY <1>2

LEMMA Greatest ==
    ASSUME NEW m \in Nat, NEW T \in SUBSET (1..m), T # {}
    PROVE  \E g \in T : \A t \in T : t <= g
<1> DEFINE D == {m - t : t \in T}
<1>1. D \subseteq Nat /\ D # {}
  <2>1. \A t \in T : m - t \in Nat
    OBVIOUS
  <2> QED  BY <2>1
<1> HIDE DEF D
<1>2. PICK d \in D : \A e \in D : d <= e
  BY <1>1, Least
<1>3. PICK g \in T : d = m - g
  BY DEF D
<1>4. ASSUME NEW t \in T PROVE t <= g
  <2>1. m - g <= m - t
    BY <1>2, <1>3 DEF D
  <2>2. t \in Int /\ g \in Int
    OBVIOUS
  <2> QED  BY <2>1, <2>2
<1> QED  BY <1>4

(* As many of a set of stores have fewer than n before them as n, at most.    *)
LEMMA FirstAreFew ==
    ASSUME NEW m \in Nat, NEW S \in SUBSET (1..m), NEW n \in Nat,
           NEW T \in SUBSET S,
           \A store \in T : Cardinality({other \in S : other < store}) < n
    PROVE  Cardinality(T) <= n
<1>1. IsFiniteSet(1..m)
  BY FS_Interval
<1>2. IsFiniteSet(S) /\ IsFiniteSet(T)
  BY <1>1, FS_Subset
<1>3. CASE T = {}
  BY <1>3, FS_EmptySet
<1>4. CASE T # {}
  <2>1. PICK g \in T : \A t \in T : t <= g
    BY <1>4, Greatest
  <2> DEFINE Before == {other \in S : other < g}
  <2>2. T \ {g} \subseteq Before
    BY <2>1
  <2>3. IsFiniteSet(Before) /\ Cardinality(Before) \in Nat /\ Cardinality(Before) < n
    BY <1>2, <2>1, FS_Subset, FS_CardinalityType
  <2> HIDE DEF Before
  <2>4. Cardinality(T \ {g}) <= Cardinality(Before)
    BY <2>2, <2>3, FS_Subset
  <2>5. Cardinality(T \ {g}) = Cardinality(T) - 1 /\ Cardinality(T) \in Nat
    BY <1>2, <2>1, FS_RemoveElement, FS_CardinalityType
  <2> QED  BY <2>3, <2>4, <2>5
<1> QED  BY <1>3, <1>4

LEMMA TakesFacts ==
    ASSUME IInv, NEW i \in Instances
    PROVE  Cardinality(Takes(i)) <= StoreLimit(Standing(Known(i), today))
<1> DEFINE n == StoreLimit(Standing(Known(i), today))
<1>1. n \in Nat
  BY KnownIsSubscription, LimitIsNumber
<1>2. opened \in Nat /\ stores \in SUBSET (1..opened)
  BY DEF IInv, TypeOK
<1>3. Takes(i) \in SUBSET stores
      /\ \A store \in Takes(i) : Cardinality({other \in stores : other < store}) < n
  BY DEF Takes, CheckStoreRequest, IsWithinFirst
<1> HIDE DEF n
<1>4. Cardinality(Takes(i)) <= n
  BY <1>1, <1>2, <1>3, FirstAreFew
<1> QED  BY <1>4 DEF n

(* Only an insert that commits adds to the stores.                            *)
LEMMA OnlyInsertsOpen ==
    ASSUME [Next]_vars, stores' # stores
    PROVE  \E w \in Workers : InsertStore(w)
<1>1. ~UNCHANGED vars
  BY DEF vars, shop
<1>2. \A p \in Payments : ~Checkout(p) /\ ~PayAtGateway(p)
  BY DEF Checkout, OpenPayment, CreateCheckout, SetReference, PayAtGateway, shop
<1>3. /\ \A w \in Workers, r \in Reports : ~Webhook(w, r)
      /\ \A w \in Workers, p \in Payments : ~PayTestCheckout(w, p)
  BY DEF Webhook, PayTestCheckout, MarkPaid, shop
<1>4. \A w \in Workers : ~LockSubscription(w) /\ ~Commit(w) /\ ~Abort(w) /\ ~BeginInsert(w)
  BY DEF LockSubscription, Commit, Abort, BeginInsert, shop
<1>5. \A w \in Workers, j \in Instances : ~CheckNewStore(w, j)
  BY DEF CheckNewStore
<1>6. \A j \in Instances, store \in 1..MaxStores, isOwner \in BOOLEAN,
        request \in {"read", "manage", "entry"} : ~StoreRequest(j, store, isOwner, request)
  BY DEF StoreRequest
<1>7. ~NewDay
  BY DEF NewDay
<1> QED  BY <1>1, <1>2, <1>3, <1>4, <1>5, <1>6, <1>7 DEF Next

(* No more stores take entries than the plan's number, and one that does is   *)
(* shut out by another's opening only when that one was begun before it and   *)
(* was still under way (billing_service.rs check_store_request).              *)
THEOREM OldestStoresStay == Spec => OpeningShutsNoneOut
<1>1. IInv /\ [Next]_vars =>
        [\A i \in Instances :
           /\ Cardinality(Takes(i)) <= StoreLimit(Standing(Known(i), today))
           /\ stores' # stores =>
                \A store \in Takes(i) \ Takes(i)' :
                  \E w \in Workers : at[w].step = "inserting" /\ at[w].job < store]_vars
  <2> SUFFICES ASSUME IInv, [Next]_vars, NEW i \in Instances
               PROVE  /\ Cardinality(Takes(i)) <= StoreLimit(Standing(Known(i), today))
                      /\ stores' # stores =>
                           \A store \in Takes(i) \ Takes(i)' :
                             \E w \in Workers : at[w].step = "inserting" /\ at[w].job < store
    OBVIOUS
  <2>1. ASSUME stores' # stores, NEW store \in Takes(i) \ Takes(i)'
        PROVE  \E w \in Workers : at[w].step = "inserting" /\ at[w].job < store
    <3>1. PICK w \in Workers : InsertStore(w)
      BY <2>1, OnlyInsertsOpen
    <3>2. /\ UNCHANGED <<memory, sub, today, mode>> /\ stores' = stores \cup {at[w].job}
          /\ at[w].step = "inserting"
      BY <3>1 DEF InsertStore, days
    <3>3. /\ Standing(Known(i), today)' = Standing(Known(i), today)
          /\ StoreLimit(Standing(Known(i), today))' = StoreLimit(Standing(Known(i), today))
      BY <3>2 DEF Standing, Known, Enforced, StoreLimit, CanUpload
    <3>4. ASSUME ~(at[w].job < store) PROVE FALSE
      <4>1. {other \in stores' : other < store} = {other \in stores : other < store}
        BY <3>2, <3>4
      <4>2. store \in stores'
        BY <3>2 DEF Takes
      <4> QED  BY <2>1, <3>3, <4>1, <4>2 DEF Takes, CheckStoreRequest, IsWithinFirst, CanUpload
    <3> QED  BY <3>2, <3>4
  <2> QED  BY <2>1, TakesFacts
<1> QED  BY <1>1, Inductive, PTL DEF Spec, OpeningShutsNoneOut

-----------------------------------------------------------------------------
(* The owner's account. *)

Settled == {p \in Payments : payment[p].status = "paid"}

(* Only a commit and the passing of a day touch what the account is read off. *)
LEMMA AccountApart ==
    ASSUME IInv, [Next]_vars, ~NewDay, \A w \in Workers : ~Commit(w)
    PROVE  UNCHANGED <<sub, today>> /\ Settled' = Settled
<1>1. ASSUME UNCHANGED <<sub, today, payment>>
      PROVE  UNCHANGED <<sub, today>> /\ Settled' = Settled
  BY <1>1 DEF Settled
<1>2. CASE UNCHANGED vars
  BY <1>1, <1>2 DEF vars, days
<1>3. ASSUME NEW p \in Payments, Checkout(p)
      PROVE  UNCHANGED <<sub, today>> /\ Settled' = Settled
  <2>1. \A q \in Payments : payment'[q].status = payment[q].status
    BY <1>3, CheckoutKeepsStatus
  <2>2. UNCHANGED <<sub, today>>
    BY <1>3 DEF Checkout, OpenPayment, CreateCheckout, SetReference, days
  <2> QED  BY <2>1, <2>2 DEF Settled
<1>4. ASSUME NEW p \in Payments, PayAtGateway(p)
      PROVE  UNCHANGED <<sub, today>> /\ Settled' = Settled
  BY <1>1, <1>4 DEF PayAtGateway, days
<1>5. ASSUME NEW w \in Workers, NEW p \in Payments, MarkPaid(w, p)
      PROVE  UNCHANGED <<sub, today>> /\ Settled' = Settled
  BY <1>1, <1>5 DEF MarkPaid, days
<1>6. ASSUME NEW w \in Workers, LockSubscription(w) \/ Abort(w) \/ BeginInsert(w) \/ InsertStore(w)
      PROVE  UNCHANGED <<sub, today>> /\ Settled' = Settled
  BY <1>1, <1>6 DEF LockSubscription, Abort, BeginInsert, InsertStore, days
<1>7. ASSUME NEW w \in Workers, NEW i \in Instances, CheckNewStore(w, i)
      PROVE  UNCHANGED <<sub, today>> /\ Settled' = Settled
  BY <1>1, <1>7 DEF CheckNewStore, days
<1>8. ASSUME NEW i \in Instances, NEW store, NEW isOwner, NEW request,
             StoreRequest(i, store, isOwner, request)
      PROVE  UNCHANGED <<sub, today>> /\ Settled' = Settled
  BY <1>1, <1>8 DEF StoreRequest, days
<1>9. ASSUME NEW w \in Workers, NEW r \in Reports, Webhook(w, r)
      PROVE  UNCHANGED <<sub, today>> /\ Settled' = Settled
  BY <1>5, <1>9 DEF Webhook, Reports
<1>10. ASSUME NEW w \in Workers, NEW p \in Payments, PayTestCheckout(w, p)
      PROVE  UNCHANGED <<sub, today>> /\ Settled' = Settled
  BY <1>5, <1>10 DEF PayTestCheckout
<1> QED  BY <1>2, <1>3, <1>4, <1>6, <1>7, <1>8, <1>9, <1>10 DEF Next

(* The credit read off the row.                                               *)
Credit(s, day) == Left(s, day) * MonthlyCentavos[s.plan]

LEMMA CommitSettles ==
    ASSUME IInv, NEW w \in Workers, Commit(w), NEW CONSTANT p, p = at[w].job
    PROVE  Promise!Settle(p)
<1> DEFINE plan == payment[p].plan
           months == payment[p].months
           until == PaidThroughAfter(sub, plan, months, today)
           from == PaidFrom(sub, today)
           c == MonthlyCentavos[sub.plan]
           d == MonthlyCentavos[plan]
           left == Left(sub, today)
           bought == months * MonthDays
<1>1. /\ p \in Payments /\ payment[p].status = "pending"
      /\ Proper(sub) /\ today \in Nat
      /\ sub' = [sub EXCEPT !.plan = plan, !.paid = until]
      /\ payment' = [payment EXCEPT ![p].status = "paid"]
      /\ plan \in Plans /\ months \in OfferedMonths
  BY CommitFacts
<1>2. today' = today
  BY DEF Commit
<1> HIDE DEF plan, months
<1>3. /\ left \in Nat /\ bought \in Nat
      /\ c \in {9900, 19900} /\ d \in {9900, 19900}
      /\ Later(until - from, 0) \in Nat
      /\ Later(until - from, 0) * d <= left * c + bought * d
      /\ Later(until - from, 0) * d > left * c + bought * d - d
  BY <1>1, TimeBought
<1>4. sub'.trial = sub.trial /\ sub'.plan = plan /\ sub'.paid = until
  BY <1>1 DEF Proper, Subscriptions
<1>5. Later(sub'.paid - Later(sub'.trial, today'), 0) * MonthlyCentavos[sub'.plan]
        = Later(until - from, 0) * d
  BY <1>2, <1>4, Zenon DEF PaidFrom
<1>6. Later(sub.paid - Later(sub.trial, today), 0) * MonthlyCentavos[sub.plan] = left * c
  BY Zenon DEF Left, PaidFrom
<1>7. Later(sub'.trial - today', 0) = Later(sub.trial - today, 0)
  BY <1>2, <1>4
<1>8. Settled' = Settled \cup {p} /\ p \notin Settled
  <2>1. payment \in PaymentRows
    BY DEF IInv, TypeOK, PaymentRows
  <2>2. \A q \in Payments : payment'[q].status = IF q = p THEN "paid" ELSE payment[q].status
    BY <1>1, <2>1 DEF PaymentRows
  <2> QED  BY <1>1, <2>2 DEF Settled
<1>9. sub'.plan \in DOMAIN MonthlyCentavos
  BY <1>1, <1>4 DEF Plans, MonthlyCentavos
<1>10. months \in {1, 12}
  BY <1>1 DEF OfferedMonths
<1>11. PICK new, old, fee :
          /\ new = Later(sub'.paid - Later(sub'.trial, today'), 0) * MonthlyCentavos[sub'.plan]
          /\ old = Later(sub.paid - Later(sub.trial, today), 0) * MonthlyCentavos[sub.plan]
          /\ fee = MonthlyCentavos[sub'.plan]
  OBVIOUS
<1>12. old + months * MonthDays * fee - new \in 0..(fee - 1)
  <2>1. new = Later(until - from, 0) * d /\ old = left * c /\ fee = d
    BY <1>4, <1>5, <1>6, <1>11, Zenon
  <2>2. bought = months * MonthDays
    OBVIOUS
  <2> HIDE DEF left, c, d, until, from, bought
  <2>3. /\ new \in Int /\ old \in Int /\ bought * d \in Int /\ d \in Int
        /\ new <= old + bought * d /\ new > old + bought * d - d
    BY <1>3, <2>1
  <2> DEFINE cost == bought * d
  <2> HIDE DEF cost
  <2>4. old + cost - new \in 0..(d - 1)
    BY <2>3 DEF cost
  <2> QED  BY <2>1, <2>2, <2>4, Zenon DEF cost
<1> HIDE DEF left, c, d, until, from, bought
<1>13. \E m \in {1, 12} : old + m * MonthDays * fee - new \in 0..(fee - 1)
  BY <1>10, <1>12, Zenon
<1> QED
  BY <1>7, <1>8, <1>9, <1>11, <1>13, Zenon DEF Promise!Settle, Settled

LEMMA NewDayIsNewDay ==
    ASSUME IInv, NewDay
    PROVE  Promise!NewDay
<1> DEFINE c == MonthlyCentavos[sub.plan]
<1>1. UNCHANGED <<sub, payment>> /\ today' = today + 1
  BY DEF NewDay
<1>2. sub.trial \in Nat /\ sub.paid \in Int /\ today \in Nat /\ sub.plan \in Plans
  BY BillingAssumption DEF IInv, TypeOK, Subscriptions, None
<1>3. c = 9900 \/ c = 19900
  BY <1>2 DEF Plans, MonthlyCentavos
<1> HIDE DEF c
<1>4. Later(sub.trial - (today + 1), 0) = Promise!AtLeast(Later(sub.trial - today, 0) - 1, 0)
  BY <1>2 DEF Later, Promise!AtLeast
<1>5. Later(sub.paid - Later(sub.trial, today + 1), 0) * c =
        IF Later(sub.trial - today, 0) > 0
        THEN Later(sub.paid - Later(sub.trial, today), 0) * c
        ELSE Promise!AtLeast(Later(sub.paid - Later(sub.trial, today), 0) * c - c, 0)
  <2>1. CASE today < sub.trial
    <3>1. Later(sub.trial, today + 1) = sub.trial /\ Later(sub.trial, today) = sub.trial
          /\ Later(sub.trial - today, 0) > 0
      BY <1>2, <2>1 DEF Later
    <3> QED  BY <3>1
  <2>2. CASE ~(today < sub.trial)
    <3>1. /\ Later(sub.trial, today + 1) = today + 1 /\ Later(sub.trial, today) = today
          /\ ~(Later(sub.trial - today, 0) > 0)
      BY <1>2, <2>2 DEF Later
    <3>2. Later(sub.paid - (today + 1), 0) * c
            = Promise!AtLeast(Later(sub.paid - today, 0) * c - c, 0)
      BY <1>2, <1>3 DEF Later, Promise!AtLeast
    <3> QED  BY <3>1, <3>2
  <2> QED  BY <2>1, <2>2
<1> QED  BY <1>1, <1>4, <1>5 DEF Promise!NewDay, c

(* Every payment extends the subscription exactly once, time left on another  *)
(* plan keeps its worth, and trial days are not eaten: the steps of Billing   *)
(* are steps of the account that the owner was promised                       *)
(* (billing_repository.rs confirm, plan.rs paid_through_after).               *)
THEOREM AccountIsKept == Spec => AccountAddsUp
<1> SUFFICES Spec => Promise!Spec
  BY DEF AccountAddsUp
<1>1. Init => Promise!Init
  <2> SUFFICES ASSUME Init PROVE Promise!Init
    OBVIOUS
  <2>1. /\ sub.plan = "pro" /\ sub.trial \in Nat /\ sub.paid = -1 /\ today = 0
        /\ \A p \in Payments : payment[p].status = "pending"
    BY BillingAssumption DEF Init, None
  <2>2. Later(sub.trial - today, 0) \in Nat /\ Later(sub.paid - Later(sub.trial, today), 0) = 0
    BY <2>1 DEF Later
  <2>3. sub.plan \in DOMAIN MonthlyCentavos
        /\ Later(sub.paid - Later(sub.trial, today), 0) * MonthlyCentavos[sub.plan] = 0
    BY <2>1, <2>2 DEF MonthlyCentavos
  <2> QED  BY <2>1, <2>2, <2>3 DEF Promise!Init
<1>2. IInv /\ [Next]_vars => [Promise!Next]_(Promise!account)
  <2> SUFFICES ASSUME IInv, [Next]_vars PROVE [Promise!Next]_(Promise!account)
    OBVIOUS
  <2>1. CASE NewDay
    BY <2>1, NewDayIsNewDay DEF Promise!Next
  <2>2. ASSUME NEW w \in Workers, Commit(w) PROVE Promise!Next
    <3>1. PICK p \in Payments : p = at[w].job
      BY <2>2, CommitFacts
    <3>2. Promise!Settle(p)
      BY <2>2, <3>1, CommitSettles
    <3> QED  BY <3>2 DEF Promise!Next
  <2>3. CASE ~NewDay /\ \A w \in Workers : ~Commit(w)
    BY <2>3, AccountApart DEF Promise!account, Settled
  <2> QED  BY <2>1, <2>2, <2>3
<1> QED  BY Inductive, <1>1, <1>2, PTL DEF Spec, Promise!Spec

=============================================================================
