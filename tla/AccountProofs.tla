---------------------------- MODULE AccountProofs ----------------------------
(* Proofs about Account: what an owner was told they agreed to is not asked   *)
(* again, no confirmed payment leaves the books, the account goes on the date *)
(* that was given and not before, and the counter of sign-ins expires, for    *)
(* any number of phones, payments, accounts and raises of a version.          *)
(*                                                                            *)
(* No agreement is recorded to a version that is not yet in force, so one to  *)
(* the version in force is the newest of its document. A sweep that copied    *)
(* found the account due and takes it, or finds it called off, and then the   *)
(* payments it did not copy are still there.                                  *)
EXTENDS Account, TLAPS

Steps == {"idle", "hashing", "agreeing", "opening", "first", "checking"}

PhoneState == [step : Steps, id : Nat, next : Nat]
OwnerRow == [id : Nat, deleteAfter : Nat, entered : BOOLEAN]
SweepState == [step : {"idle", "copied"}, at : Nat, copied : SUBSET Payments]
Counter == [count : Nat, ttl : BOOLEAN, lost : BOOLEAN]

Types ==
    /\ now \in Nat
    /\ version \in [DocumentSet -> Nat]
    /\ owner \in OwnerRow
    /\ made \in Nat
    /\ agreed \in Seq(DocumentSet \X Nat)
    /\ told \subseteq DocumentSet \X Nat
    /\ phone \in [Phones -> PhoneState]
    /\ promised \in Nat
    /\ sweep \in SweepState
    /\ payment \in [Payments -> {"none", "pending", "paid", "gone"}]
    /\ received \subseteq Payments /\ kept \subseteq Payments
    /\ attempts \in Counter

(* Agreements: of one document in the order of its versions, each at most     *)
(* once, none to a version to come.                                           *)
InOrder ==
    /\ \A i \in DOMAIN agreed : agreed[i][2] <= version[agreed[i][1]]
    /\ \A i, j \in DOMAIN agreed : i < j /\ agreed[i][1] = agreed[j][1] => agreed[i][2] < agreed[j][2]

(* What a phone was told is on record.                                        *)
ToldIsRecorded == \A t \in told : \E i \in DOMAIN agreed : agreed[i] = t

(* A registration that is under way for the account that is there has         *)
(* recorded the documents it is past, in versions that are in force still.    *)
PastIsRecorded ==
    \A p \in Phones : phone[p].step \in {"agreeing", "opening"} /\ owner.id = phone[p].id =>
        \A k \in DOMAIN Documents :
            k < phone[p].next \/ phone[p].step = "opening" =>
                \E i \in DOMAIN agreed : agreed[i] = <<Documents[k], version[Documents[k]]>>

RegisteringIds ==
    /\ \A p \in Phones : phone[p].step \in {"agreeing", "opening"} =>
           phone[p].next \in DOMAIN Documents /\ phone[p].id \in 1..made
    /\ owner.id <= made
    /\ owner.id = 0 => owner.deleteAfter = 0 /\ promised = 0 /\ ~owner.entered

(* The date that was given is the date on record.                             *)
DateKept == owner.deleteAfter = promised

(* A sweep acts at a moment that has come, and copied what it will delete.    *)
SweepSees ==
    sweep.step = "copied" =>
        /\ sweep.at <= now
        /\ Due(sweep.at) =>
             {k \in received : payment[k] = "paid"} \subseteq kept \cup sweep.copied

Agreements == InOrder /\ ToldIsRecorded /\ PastIsRecorded /\ RegisteringIds
Dates == DateKept /\ SweepSees /\ MoneyAccountedFor
IInv == Types /\ Agreements /\ Dates /\ CounterExpires

-----------------------------------------------------------------------------
(* The documents, and the records of the state.                               *)
LEMMA DocumentFacts ==
    /\ DOMAIN Documents = {1, 2} /\ Len(Documents) = 2
    /\ \A k \in DOMAIN Documents : Documents[k] \in DocumentSet
    /\ \A d \in DocumentSet : \E k \in DOMAIN Documents : d = Documents[k]
<1>1. DOMAIN Documents = 1..2 /\ Len(Documents) = 2
  BY DEF Documents
<1>2. DOMAIN Documents = {1, 2}
  BY <1>1
<1> QED  BY <1>1, <1>2 DEF DocumentSet

LEMMA InitialRecords ==
    /\ NoOwner \in OwnerRow /\ NoOwner.id = 0 /\ NoOwner.deleteAfter = 0 /\ ~NoOwner.entered
    /\ Idle \in PhoneState /\ Idle.step = "idle"
    /\ NoSweep \in SweepState /\ NoSweep.step = "idle"
    /\ NoKey \in Counter /\ NoKey.count = 0
BY DEF NoOwner, OwnerRow, Idle, PhoneState, Steps, NoSweep, SweepState, NoKey, Counter

(* An agreement is added at the end, or is there already.                     *)
LEMMA RecordedFacts ==
    ASSUME Types, InOrder, NEW d \in DocumentSet
    PROVE  /\ Recorded(d) \in Seq(DocumentSet \X Nat)
           /\ \E i \in DOMAIN Recorded(d) : Recorded(d)[i] = <<d, version[d]>>
           /\ \A i \in DOMAIN agreed : i \in DOMAIN Recorded(d) /\ Recorded(d)[i] = agreed[i]
           /\ \A i \in DOMAIN Recorded(d) : Recorded(d)[i][2] <= version[Recorded(d)[i][1]]
           /\ \A i, j \in DOMAIN Recorded(d) :
                i < j /\ Recorded(d)[i][1] = Recorded(d)[j][1]
                  => Recorded(d)[i][2] < Recorded(d)[j][2]
<1>1. /\ agreed \in Seq(DocumentSet \X Nat) /\ version[d] \in Nat
      /\ \A i \in DOMAIN agreed : agreed[i][1] \in DocumentSet /\ agreed[i][2] \in Nat
                                  /\ agreed[i] = <<agreed[i][1], agreed[i][2]>>
  BY DEF Types
<1>2. CASE \E i \in DOMAIN agreed : agreed[i] = <<d, version[d]>>
  <2>1. Recorded(d) = agreed
    BY <1>2 DEF Recorded
  <2> QED  BY <1>1, <1>2, <2>1 DEF InOrder
<1>3. CASE ~\E i \in DOMAIN agreed : agreed[i] = <<d, version[d]>>
  <2> DEFINE n == Len(agreed)
             s == Append(agreed, <<d, version[d]>>)
  <2>1. Recorded(d) = s
    BY <1>3 DEF Recorded
  <2>2. n \in Nat /\ DOMAIN agreed = 1..n
    BY <1>1
  <2>3. /\ s \in Seq(DocumentSet \X Nat) /\ DOMAIN s = 1..(n + 1) /\ s[n + 1] = <<d, version[d]>>
        /\ \A i \in 1..n : s[i] = agreed[i]
    BY <1>1
  <2> HIDE DEF s, n
  <2>4. \A i \in 1..n : agreed[i][1] = d => agreed[i][2] < version[d]
    <3> SUFFICES ASSUME NEW i \in 1..n, agreed[i][1] = d PROVE agreed[i][2] < version[d]
      OBVIOUS
    <3>1. agreed[i] = <<d, agreed[i][2]>> /\ agreed[i][2] \in Nat
      BY <1>1, <2>2
    <3>2. agreed[i][2] # version[d]
      BY <1>3, <2>2, <3>1
    <3>3. agreed[i][2] <= version[d]
      BY <2>2 DEF InOrder
    <3> QED  BY <1>1, <3>1, <3>2, <3>3
  <2>5. \A i \in 1..(n + 1) : i \in 1..n \/ i = n + 1
    BY <2>2
  <2>6. ASSUME NEW i \in 1..(n + 1)
        PROVE  s[i][2] <= version[s[i][1]]
    <3>1. CASE i \in 1..n
      BY <2>2, <2>3, <3>1 DEF InOrder
    <3>2. CASE i = n + 1
      <4>1. s[i][1] = d /\ s[i][2] = version[d]
        BY <2>3, <3>2
      <4> QED  BY <1>1, <4>1
    <3> QED  BY <2>5, <3>1, <3>2
  <2>7. ASSUME NEW i \in 1..(n + 1), NEW j \in 1..(n + 1), i < j, s[i][1] = s[j][1]
        PROVE  s[i][2] < s[j][2]
    <3>1. i \in 1..n
      BY <2>2, <2>7
    <3>2. CASE j \in 1..n
      BY <2>2, <2>3, <2>7, <3>1, <3>2 DEF InOrder
    <3>3. CASE j = n + 1
      BY <2>3, <2>4, <2>7, <3>1, <3>3
    <3> QED  BY <2>5, <3>2, <3>3
  <2>8. n + 1 \in 1..(n + 1) /\ \A i \in 1..n : i \in 1..(n + 1)
    BY <2>2
  <2> QED  BY <2>1, <2>2, <2>3, <2>6, <2>7, <2>8
<1> QED  BY <1>2, <1>3

-----------------------------------------------------------------------------
(* What a step leaves alone.                                                  *)
Registering(x) == x.step \in {"agreeing", "opening"}

LEMMA AgreementsApart ==
    ASSUME IInv, UNCHANGED <<version, agreed, told, made, promised>>,
           owner'.id = owner.id, owner'.deleteAfter = owner.deleteAfter,
           owner'.entered = owner.entered \/ owner.id # 0,
           \A p \in Phones : phone'[p] = phone[p] \/ ~Registering(phone'[p])
    PROVE  Agreements'
<1>1. InOrder' /\ ToldIsRecorded'
  BY DEF IInv, Agreements, InOrder, ToldIsRecorded
<1>2. PastIsRecorded'
  <2> SUFFICES ASSUME NEW p \in Phones, phone'[p].step \in {"agreeing", "opening"},
                      owner.id = phone'[p].id, NEW k \in DOMAIN Documents,
                      k < phone'[p].next \/ phone'[p].step = "opening"
               PROVE  \E i \in DOMAIN agreed : agreed[i] = <<Documents[k], version[Documents[k]]>>
    BY DEF PastIsRecorded
  <2>1. phone'[p] = phone[p]
    BY DEF Registering
  <2> QED  BY <2>1 DEF IInv, Agreements, PastIsRecorded
<1>3. RegisteringIds'
  BY DEF IInv, Agreements, RegisteringIds, Registering
<1> QED  BY <1>1, <1>2, <1>3 DEF Agreements

LEMMA DatesApart ==
    ASSUME IInv, UNCHANGED <<sweep, money, promised>>, owner'.deleteAfter = owner.deleteAfter,
           now' \in Nat, now <= now'
    PROVE  Dates'
<1>1. now \in Nat /\ sweep.at \in Nat
  BY DEF IInv, Types, SweepState
<1>2. SweepSees'
  BY <1>1 DEF IInv, Dates, SweepSees, Due, money
<1> QED  BY <1>2 DEF IInv, Dates, DateKept, MoneyAccountedFor, money

LEMMA CounterApart ==
    ASSUME IInv, UNCHANGED attempts,
           \A p \in Phones : phone[p].step = "first" => phone'[p].step = "first"
    PROVE  CounterExpires'
BY DEF IInv, CounterExpires

(* A request whose next step does not register.                               *)
PhoneStep(p, x) == x \in PhoneState /\ ~Registering(x) /\ phone' = [phone EXCEPT ![p] = x]

LEMMA PhoneStepFacts ==
    ASSUME Types, NEW p \in Phones, NEW x, PhoneStep(p, x)
    PROVE  /\ phone' \in [Phones -> PhoneState] /\ phone'[p] = x
           /\ \A q \in Phones : q # p => phone'[q] = phone[q]
           /\ \A q \in Phones : phone'[q] = phone[q] \/ ~Registering(phone'[q])
BY DEF Types, PhoneStep

LEMMA PhoneStepKeepsIInv ==
    ASSUME IInv, NEW p \in Phones, NEW x, PhoneStep(p, x),
           UNCHANGED <<now, version, people, sweep, money>>,
           attempts' \in Counter, CounterExpires'
    PROVE  IInv'
<1>1. Types
  BY DEF IInv
<1>2. /\ phone' \in [Phones -> PhoneState]
      /\ \A q \in Phones : phone'[q] = phone[q] \/ ~Registering(phone'[q])
  BY <1>1, PhoneStepFacts
<1>3. UNCHANGED <<now, version, owner, made, agreed, told, promised, sweep, payment, received, kept>>
  BY DEF people, money
<1>4. Types'
  BY <1>1, <1>2, <1>3 DEF Types
<1>5. now \in Nat /\ now' = now
  BY <1>1, <1>3 DEF Types
<1>6. Agreements' /\ Dates'
  BY <1>2, <1>3, <1>5, AgreementsApart, DatesApart DEF money
<1> QED  BY <1>4, <1>6 DEF IInv

(* The records a request of a phone may be in.                                *)
LEMMA PhoneStates ==
    ASSUME Types, NEW p \in Phones
    PROVE  /\ phone[p] \in PhoneState
           /\ \A step \in Steps :
                /\ [phone[p] EXCEPT !.step = step] \in PhoneState
                /\ [phone[p] EXCEPT !.step = step].step = step
                /\ [phone[p] EXCEPT !.step = step].id = phone[p].id
                /\ [phone[p] EXCEPT !.step = step].next = phone[p].next
BY DEF Types, PhoneState

LEMMA SignInKeepsIInv ==
    ASSUME IInv, NEW p \in Phones,
           \/ RegisterStart(p) \/ LoginCount(p) \/ LoginUncounted(p) \/ LoginExpire(p)
           \/ LoginExpireLost(p) \/ LoginRefused(p) \/ RequestFails(p)
    PROVE  IInv'
<1>1. Types /\ Idle \in PhoneState /\ Idle.step = "idle" /\ ~Registering(Idle)
  BY InitialRecords DEF IInv, Registering
<1>2. /\ phone[p] \in PhoneState /\ attempts \in Counter /\ attempts.count \in Nat
      /\ Limit \in Nat \ {0} /\ phone \in [Phones -> PhoneState]
  BY <1>1, AccountAssumption DEF Types, Counter
<1>3. UNCHANGED <<now, version, people, sweep, money>>
  BY DEF RegisterStart, LoginCount, LoginUncounted, LoginExpire, LoginExpireLost, LoginRefused,
     RequestFails
<1> DEFINE to(step) == [phone[p] EXCEPT !.step = step]
<1>4. \A step \in {"hashing", "checking", "first"} :
        to(step) \in PhoneState /\ to(step).step = step /\ ~Registering(to(step))
  <2> SUFFICES ASSUME NEW step \in {"hashing", "checking", "first"}
               PROVE  to(step) \in PhoneState /\ to(step).step = step /\ ~Registering(to(step))
    OBVIOUS
  <2>1. to(step) \in PhoneState /\ to(step).step = step
    <3>1. step \in Steps
      BY DEF Steps
    <3> QED  BY <1>1, <3>1, PhoneStates, Zenon
  <2> HIDE DEF to
  <2> QED  BY <2>1 DEF Registering
<1> HIDE DEF to
<1>5. CASE RegisterStart(p) \/ LoginUncounted(p)
  <2>1. PICK step \in {"hashing", "checking"} : phone' = [phone EXCEPT ![p] = to(step)]
    BY <1>2, <1>5 DEF RegisterStart, LoginUncounted, to
  <2>2. PhoneStep(p, to(step)) /\ phone[p].step = "idle" /\ attempts' = attempts
    BY <1>1, <1>4, <1>5, <2>1 DEF PhoneStep, RegisterStart, LoginUncounted
  <2>3. CounterExpires'
    BY <1>1, <2>2, PhoneStepFacts, CounterApart
  <2> QED  BY <1>2, <1>3, <2>2, <2>3, PhoneStepKeepsIInv
<1>6. CASE LoginRefused(p)
  <2>1. PhoneStep(p, Idle) /\ phone[p].step # "first" /\ attempts' = attempts
    BY <1>1, <1>6 DEF PhoneStep, LoginRefused
  <2>2. CounterExpires'
    BY <1>1, <2>1, PhoneStepFacts, CounterApart
  <2> QED  BY <1>2, <1>3, <2>1, <2>2, PhoneStepKeepsIInv
<1>7. CASE LoginCount(p)
  <2> DEFINE n == IF attempts.count > Limit THEN attempts.count ELSE attempts.count + 1
  <2>1. n \in Nat /\ n > 0 /\ (n = 1 => attempts.count = 0) /\ (attempts.count = 0 => n = 1)
    BY <1>2
  <2>2. attempts' = [attempts EXCEPT !.count = n] /\ Counted(p, n) /\ phone[p] = Idle
    BY <1>7 DEF LoginCount
  <2> HIDE DEF n
  <2>3. attempts' \in Counter /\ attempts'.ttl = attempts.ttl /\ attempts'.lost = attempts.lost
    BY <1>2, <2>1, <2>2 DEF Counter
  <2>4. PICK x : PhoneStep(p, x) /\ (n = 1 => x.step = "first")
    <3>1. CASE n = 1
      BY <1>4, <2>2, <3>1 DEF Counted, PhoneStep, to
    <3>2. CASE n # 1
      BY <1>1, <1>4, <2>2, <3>2 DEF Counted, PhoneStep, to
    <3> QED  BY <3>1, <3>2
  <2>5. CounterExpires'
    <3>1. CASE n = 1
      <4>1. phone'[p].step = "first"
        BY <1>1, <2>4, <3>1, PhoneStepFacts
      <4> QED  BY <4>1 DEF CounterExpires
    <3>2. CASE n # 1
      <4>1. attempts.count > 0
        BY <1>2, <2>1, <3>2
      <4>2. \A q \in Phones : phone[q].step = "first" => phone'[q].step = "first"
        BY <1>1, <2>2, <2>4, PhoneStepFacts
      <4>3. attempts.ttl \/ attempts.lost \/ \E q \in Phones : phone'[q].step = "first"
        BY <4>1, <4>2 DEF IInv, CounterExpires
      <4> QED  BY <2>3, <4>3 DEF CounterExpires
    <3> QED  BY <3>1, <3>2
  <2> QED  BY <1>3, <2>3, <2>4, <2>5, PhoneStepKeepsIInv
<1>8. CASE LoginExpire(p) \/ LoginExpireLost(p)
  <2> DEFINE there == attempts.count > 0
  <2>1. there \in BOOLEAN
    BY <1>2
  <2>2. /\ \/ attempts' = [attempts EXCEPT !.ttl = there]
           \/ attempts' = [attempts EXCEPT !.lost = there]
        /\ phone' = [phone EXCEPT ![p] = to("checking")]
    BY <1>2, <1>8 DEF LoginExpire, LoginExpireLost, to
  <2>3. attempts.count > 0 => there
    OBVIOUS
  <2> HIDE DEF there
  <2>4. attempts' \in Counter /\ attempts'.count = attempts.count
        /\ (attempts'.ttl = there \/ attempts'.lost = there)
    BY <1>2, <2>1, <2>2 DEF Counter
  <2>5. CounterExpires'
    BY <2>3, <2>4 DEF CounterExpires
  <2>6. PhoneStep(p, to("checking"))
    BY <1>4, <2>2 DEF PhoneStep
  <2> QED  BY <1>3, <2>4, <2>5, <2>6, PhoneStepKeepsIInv
<1>9. CASE RequestFails(p)
  <2> DEFINE missed == phone[p].step = "first" /\ attempts.count > 0
             lost == attempts.lost \/ missed
  <2>1. lost \in BOOLEAN
    BY <1>2 DEF Counter
  <2>2. attempts' = [attempts EXCEPT !.lost = lost] /\ PhoneStep(p, Idle)
    BY <1>1, <1>9 DEF RequestFails, PhoneStep
  <2>3. (attempts.lost => lost) /\ (phone[p].step = "first" /\ attempts.count > 0 => lost)
    OBVIOUS
  <2> HIDE DEF lost
  <2>4. attempts' \in Counter /\ attempts'.count = attempts.count /\ attempts'.ttl = attempts.ttl
        /\ attempts'.lost = lost
    BY <1>2, <2>1, <2>2 DEF Counter
  <2>5. \A q \in Phones : q # p => phone'[q] = phone[q]
    BY <1>1, <2>2, PhoneStepFacts
  <2>6. CounterExpires'
    BY <2>3, <2>4, <2>5 DEF IInv, CounterExpires
  <2> QED  BY <1>3, <2>2, <2>4, <2>6, PhoneStepKeepsIInv
<1> QED  BY <1>5, <1>6, <1>7, <1>8, <1>9

(* The account is made; it has agreed to nothing yet.                         *)
LEMMA RegisterCreateKeepsIInv ==
    ASSUME IInv, NEW p \in Phones, RegisterCreate(p)
    PROVE  IInv'
<1>1. Types /\ phone[p].step = "hashing" /\ attempts \in Counter
      /\ UNCHANGED <<now, version, sweep, money, attempts>>
  BY DEF IInv, Types, RegisterCreate
<1>2. CASE /\ phone' = [phone EXCEPT ![p] = Idle]
           /\ UNCHANGED people
  <2>1. PhoneStep(p, Idle)
    BY <1>2, InitialRecords DEF PhoneStep, Registering
  <2>2. CounterExpires'
    BY <1>1, <2>1, PhoneStepFacts, CounterApart
  <2> QED  BY <1>1, <1>2, <2>1, <2>2, PhoneStepKeepsIInv
<1>3. CASE /\ owner.id = 0
           /\ made' = made + 1
           /\ owner' = [NoOwner EXCEPT !.id = made + 1]
           /\ phone' = [phone EXCEPT ![p] = [step |-> "agreeing", id |-> made + 1, next |-> 1]]
           /\ UNCHANGED <<agreed, told, promised>>
  <2> DEFINE x == [step |-> "agreeing", id |-> made + 1, next |-> 1]
  <2>1. made \in Nat /\ made' = made + 1
    BY <1>1, <1>3 DEF Types
  <2>2. x \in PhoneState /\ x.step = "agreeing" /\ x.id = made + 1 /\ x.next = 1
    BY <2>1 DEF PhoneState, Steps
  <2>3. phone' = [phone EXCEPT ![p] = x]
    BY <1>3
  <2> HIDE DEF x
  <2>4. /\ phone' \in [Phones -> PhoneState] /\ phone'[p] = x
        /\ \A q \in Phones : q # p => phone'[q] = phone[q]
    BY <1>1, <2>2, <2>3 DEF Types
  <2>5. owner' \in OwnerRow /\ owner'.id = made + 1 /\ owner'.deleteAfter = 0
    <3>1. owner' = [id |-> made + 1, deleteAfter |-> 0, entered |-> FALSE]
      BY <1>3, Zenon DEF NoOwner
    <3> QED  BY <2>1, <3>1 DEF OwnerRow
  <2>6. owner.deleteAfter = 0 /\ promised = 0
    BY <1>3 DEF IInv, Agreements, RegisteringIds
  <2>7. Types'
    BY <1>1, <1>3, <2>1, <2>4, <2>5 DEF Types, money
  <2>8. InOrder' /\ ToldIsRecorded'
    BY <1>1, <1>3 DEF IInv, Agreements, InOrder, ToldIsRecorded
  <2>9. PastIsRecorded'
    <3> SUFFICES ASSUME NEW q \in Phones, phone'[q].step \in {"agreeing", "opening"},
                        owner'.id = phone'[q].id, NEW k \in DOMAIN Documents,
                        k < phone'[q].next \/ phone'[q].step = "opening"
                 PROVE  FALSE
      BY DEF PastIsRecorded
    <3>1. CASE q = p
      BY <2>2, <2>4, <3>1, DocumentFacts
    <3>2. CASE q # p
      <4>1. phone[q].id \in 1..made
        BY <2>4, <3>2 DEF IInv, Agreements, RegisteringIds
      <4>2. phone[q].id # made + 1
        BY <2>1, <4>1
      <4>3. phone'[q].id = phone[q].id
        BY <2>4, <3>2
      <4> QED  BY <2>5, <4>2, <4>3
    <3> QED  BY <3>1, <3>2
  <2>10. RegisteringIds'
    <3>1. \A q \in Phones : phone'[q].step \in {"agreeing", "opening"} =>
            phone'[q].next \in DOMAIN Documents /\ phone'[q].id \in 1..(made + 1)
      <4> SUFFICES ASSUME NEW q \in Phones, phone'[q].step \in {"agreeing", "opening"}
                   PROVE  phone'[q].next \in DOMAIN Documents /\ phone'[q].id \in 1..(made + 1)
        OBVIOUS
      <4>1. CASE q = p
        BY <2>1, <2>2, <2>4, <4>1, DocumentFacts
      <4>2. CASE q # p
        <5>1. phone[q].next \in DOMAIN Documents /\ phone[q].id \in 1..made
          BY <2>4, <4>2 DEF IInv, Agreements, RegisteringIds
        <5> QED  BY <2>1, <2>4, <4>2, <5>1
      <4> QED  BY <4>1, <4>2
    <3> QED  BY <2>1, <2>5, <3>1 DEF RegisteringIds
  <2>11. now \in Nat /\ now' \in Nat /\ now <= now'
    BY <1>1 DEF Types
  <2>12. Dates'
    BY <1>1, <1>3, <2>5, <2>6, <2>11, DatesApart
  <2>13. CounterExpires'
    BY <1>1, <2>4, CounterApart
  <2> QED  BY <2>7, <2>8, <2>9, <2>10, <2>12, <2>13 DEF IInv, Agreements
<1> QED  BY <1>2, <1>3 DEF RegisterCreate

(* A document is recorded in the version in force.                            *)
LEMMA RegisterAgreeKeepsIInv ==
    ASSUME IInv, NEW p \in Phones, RegisterAgree(p)
    PROVE  IInv'
<1> DEFINE i == phone[p].next
           d == Documents[i]
           x == IF i < Len(Documents) THEN [phone[p] EXCEPT !.next = i + 1]
                ELSE [phone[p] EXCEPT !.step = "opening"]
<1>1. /\ Types /\ InOrder /\ phone[p] \in PhoneState
      /\ phone[p].step = "agreeing" /\ owner.id = phone[p].id
      /\ i \in DOMAIN Documents /\ i \in {1, 2} /\ d \in DocumentSet /\ phone[p].id \in 1..made
      /\ \A q \in Phones : phone[q].step \in {"agreeing", "opening"} =>
           phone[q].next \in DOMAIN Documents /\ phone[q].id \in 1..made
  BY DocumentFacts DEF IInv, Types, Agreements, RegisterAgree, RegisteringIds
<1>2. agreed' = Recorded(d) /\ phone' = [phone EXCEPT ![p] = x]
      /\ UNCHANGED <<now, version, owner, made, told, promised, sweep, money, attempts>>
  BY DEF RegisterAgree
<1>3. /\ x \in PhoneState /\ x.id = phone[p].id /\ x.step \in {"agreeing", "opening"}
      /\ x.next \in DOMAIN Documents
      /\ \A k \in DOMAIN Documents : k < x.next \/ x.step = "opening" => k < i \/ k = i
  <2>1. CASE i = 1
    <3>1. x = [phone[p] EXCEPT !.next = 2]
      BY <2>1, DocumentFacts
    <3>2. x \in PhoneState /\ x.id = phone[p].id /\ x.step = "agreeing" /\ x.next = 2
      BY <1>1, <3>1 DEF PhoneState
    <3> QED  BY <2>1, <3>2, DocumentFacts
  <2>2. CASE i = 2
    <3>1. x = [phone[p] EXCEPT !.step = "opening"]
      BY <2>2, DocumentFacts
    <3>2. x \in PhoneState /\ x.id = phone[p].id /\ x.step = "opening" /\ x.next = 2
      BY <1>1, <2>2, <3>1 DEF PhoneState, Steps
    <3> QED  BY <2>2, <3>2, DocumentFacts
  <2> QED  BY <1>1, <2>1, <2>2
<1> HIDE DEF x
<1>4. /\ phone' \in [Phones -> PhoneState] /\ phone'[p] = x
      /\ \A q \in Phones : q # p => phone'[q] = phone[q]
  BY <1>1, <1>2, <1>3 DEF Types
<1>5. /\ agreed' \in Seq(DocumentSet \X Nat)
      /\ \E j \in DOMAIN agreed' : agreed'[j] = <<d, version[d]>>
      /\ \A j \in DOMAIN agreed : j \in DOMAIN agreed' /\ agreed'[j] = agreed[j]
      /\ InOrder'
  BY <1>1, <1>2, RecordedFacts DEF InOrder
<1>6. Types'
  BY <1>1, <1>2, <1>4, <1>5 DEF Types, money
<1>7. ToldIsRecorded'
  BY <1>2, <1>5 DEF IInv, Agreements, ToldIsRecorded
<1>8. PastIsRecorded'
  <2> SUFFICES ASSUME NEW q \in Phones, phone'[q].step \in {"agreeing", "opening"},
                      owner.id = phone'[q].id, NEW k \in DOMAIN Documents,
                      k < phone'[q].next \/ phone'[q].step = "opening"
               PROVE  \E j \in DOMAIN agreed' : agreed'[j] = <<Documents[k], version[Documents[k]]>>
    BY <1>2 DEF PastIsRecorded
  <2>1. CASE q = p /\ k = i
    BY <1>5, <2>1
  <2>2. CASE q = p /\ k # i
    <3>1. k < phone[p].next
      BY <1>3, <1>4, <2>2
    <3>2. \E j \in DOMAIN agreed : agreed[j] = <<Documents[k], version[Documents[k]]>>
      BY <1>1, <3>1 DEF IInv, Agreements, PastIsRecorded
    <3> QED  BY <1>5, <3>2
  <2>3. CASE q # p
    <3>1. \E j \in DOMAIN agreed : agreed[j] = <<Documents[k], version[Documents[k]]>>
      BY <1>4, <2>3 DEF IInv, Agreements, PastIsRecorded
    <3> QED  BY <1>5, <3>1
  <2> QED  BY <2>1, <2>2, <2>3
<1>9. RegisteringIds'
  BY <1>1, <1>2, <1>3, <1>4 DEF IInv, Agreements, RegisteringIds
<1>10. now \in Nat /\ now' \in Nat /\ now <= now'
  BY <1>1, <1>2 DEF Types
<1>11. Dates' /\ CounterExpires'
  BY <1>1, <1>2, <1>4, <1>10, DatesApart, CounterApart
<1> QED  BY <1>5, <1>6, <1>7, <1>8, <1>9, <1>11 DEF IInv, Agreements

(* A phone is told of all its agreements once they are recorded.              *)
LEMMA RegisterOpenKeepsIInv ==
    ASSUME IInv, NEW p \in Phones, RegisterOpen(p)
    PROVE  IInv'
<1>1. Types /\ phone[p].step = "opening" /\ owner.id = phone[p].id /\ owner.id # 0
      /\ owner \in OwnerRow
  BY DEF IInv, Types, Agreements, RegisterOpen, RegisteringIds
<1>2. /\ owner' = [owner EXCEPT !.entered = TRUE]
      /\ told' = told \cup {<<d, version[d]>> : d \in DocumentSet}
      /\ phone' = [phone EXCEPT ![p] = Idle]
      /\ UNCHANGED <<now, version, made, agreed, promised, sweep, money, attempts>>
  BY DEF RegisterOpen
<1>3. PhoneStep(p, Idle)
  BY <1>2, InitialRecords DEF PhoneStep, Registering
<1>4. /\ phone' \in [Phones -> PhoneState] /\ phone'[p] = Idle
      /\ \A q \in Phones : q # p => phone'[q] = phone[q]
      /\ \A q \in Phones : phone'[q] = phone[q] \/ ~Registering(phone'[q])
  BY <1>1, <1>3, PhoneStepFacts
<1>5. /\ owner' \in OwnerRow /\ owner'.id = owner.id /\ owner'.deleteAfter = owner.deleteAfter
      /\ owner'.entered
  BY <1>1, <1>2 DEF OwnerRow
<1>6. \A d \in DocumentSet : version[d] \in Nat
  BY <1>1 DEF Types
<1>7. told' \subseteq DocumentSet \X Nat
  BY <1>1, <1>2, <1>6 DEF Types
<1>8. Types'
  BY <1>1, <1>2, <1>4, <1>5, <1>7 DEF Types, money
<1>9. \A d \in DocumentSet : \E i \in DOMAIN agreed : agreed[i] = <<d, version[d]>>
  BY <1>1, DocumentFacts DEF IInv, Agreements, PastIsRecorded
<1>10. ToldIsRecorded'
  <2> SUFFICES ASSUME NEW t \in told' PROVE \E i \in DOMAIN agreed : agreed[i] = t
    BY <1>2 DEF ToldIsRecorded
  <2>1. CASE t \in told
    BY <2>1 DEF IInv, Agreements, ToldIsRecorded
  <2>2. CASE \E d \in DocumentSet : t = <<d, version[d]>>
    BY <1>9, <2>2
  <2> QED  BY <1>2, <2>1, <2>2
<1>11. InOrder' /\ RegisteringIds'
  BY <1>1, <1>2, <1>4, <1>5 DEF IInv, Agreements, InOrder, RegisteringIds, Registering
<1>12. PastIsRecorded'
  BY <1>2, <1>4, <1>5 DEF IInv, Agreements, PastIsRecorded, Registering
<1>13. now \in Nat /\ now' \in Nat /\ now <= now'
  BY <1>1, <1>2 DEF Types
<1>14. Dates'
  BY <1>2, <1>5, <1>13, DatesApart
<1>15. CounterExpires'
  BY <1>1, <1>2, <1>4, CounterApart
<1> QED  BY <1>8, <1>10, <1>11, <1>12, <1>14, <1>15 DEF IInv, Agreements

LEMMA LoginEnterKeepsIInv ==
    ASSUME IInv, NEW p \in Phones, LoginEnter(p)
    PROVE  IInv'
<1>1. Types /\ phone[p].step = "checking" /\ owner.id # 0 /\ owner \in OwnerRow
      /\ attempts \in Counter
  BY DEF IInv, Types, LoginEnter
<1>2. /\ owner' = [owner EXCEPT !.entered = TRUE] /\ attempts' \in {NoKey, attempts}
      /\ phone' = [phone EXCEPT ![p] = Idle]
      /\ UNCHANGED <<now, version, made, agreed, told, promised, sweep, money>>
  BY DEF LoginEnter
<1>3. PhoneStep(p, Idle)
  BY <1>2, InitialRecords DEF PhoneStep, Registering
<1>4. /\ phone' \in [Phones -> PhoneState] /\ phone'[p] = Idle
      /\ \A q \in Phones : q # p => phone'[q] = phone[q]
      /\ \A q \in Phones : phone'[q] = phone[q] \/ ~Registering(phone'[q])
  BY <1>1, <1>3, PhoneStepFacts
<1>5. /\ owner' \in OwnerRow /\ owner'.id = owner.id /\ owner'.deleteAfter = owner.deleteAfter
  BY <1>1, <1>2 DEF OwnerRow
<1>6. attempts' \in Counter
  BY <1>1, <1>2, InitialRecords
<1>7. Types'
  BY <1>1, <1>2, <1>4, <1>5, <1>6 DEF Types, money
<1>8. now \in Nat /\ now' \in Nat /\ now <= now'
  BY <1>1, <1>2 DEF Types
<1>9. Agreements'
  BY <1>1, <1>2, <1>4, <1>5, AgreementsApart
<1>10. Dates'
  BY <1>2, <1>5, <1>8, DatesApart
<1>11. CounterExpires'
  <2>1. CASE attempts' = NoKey
    BY <2>1, InitialRecords DEF CounterExpires
  <2>2. CASE attempts' = attempts
    BY <1>1, <1>4, <2>2, CounterApart
  <2> QED  BY <1>2, <2>1, <2>2
<1> QED  BY <1>7, <1>9, <1>10, <1>11 DEF IInv

LEMMA RecordConsentKeepsIInv ==
    ASSUME IInv, NEW d \in DocumentSet, RecordConsent(d)
    PROVE  IInv'
<1>1. Types /\ InOrder /\ version[d] \in Nat
  BY DEF IInv, Types, Agreements
<1>2. agreed' = Recorded(d) /\ told' = told \cup {<<d, version[d]>>}
      /\ UNCHANGED <<now, version, owner, made, promised, phone, sweep, money, attempts>>
  BY DEF RecordConsent
<1>3. /\ agreed' \in Seq(DocumentSet \X Nat)
      /\ \E j \in DOMAIN agreed' : agreed'[j] = <<d, version[d]>>
      /\ \A j \in DOMAIN agreed : j \in DOMAIN agreed' /\ agreed'[j] = agreed[j]
      /\ InOrder'
  BY <1>1, <1>2, RecordedFacts DEF InOrder
<1>4. told' \subseteq DocumentSet \X Nat
  BY <1>1, <1>2 DEF Types
<1>5. Types'
  BY <1>1, <1>2, <1>3, <1>4 DEF Types, money
<1>6. ToldIsRecorded'
  BY <1>2, <1>3 DEF IInv, Agreements, ToldIsRecorded
<1>7. PastIsRecorded'
  <2> SUFFICES ASSUME NEW q \in Phones, phone[q].step \in {"agreeing", "opening"},
                      owner.id = phone[q].id, NEW k \in DOMAIN Documents,
                      k < phone[q].next \/ phone[q].step = "opening"
               PROVE  \E j \in DOMAIN agreed' : agreed'[j] = <<Documents[k], version[Documents[k]]>>
    BY <1>2 DEF PastIsRecorded
  <2>1. \E j \in DOMAIN agreed : agreed[j] = <<Documents[k], version[Documents[k]]>>
    BY DEF IInv, Agreements, PastIsRecorded
  <2> QED  BY <1>3, <2>1
<1>8. RegisteringIds'
  BY <1>2 DEF IInv, Agreements, RegisteringIds
<1>9. now \in Nat /\ now' \in Nat /\ now <= now'
  BY <1>1, <1>2 DEF Types
<1>10. Dates' /\ CounterExpires'
  BY <1>1, <1>2, <1>9, DatesApart, CounterApart
<1> QED  BY <1>3, <1>5, <1>6, <1>7, <1>8, <1>10 DEF IInv, Agreements

(* The date is set once, and called off on both sides. A date set while a     *)
(* sweep is between its statements is to come for that sweep.                 *)
LEMMA DateKeepsIInv ==
    ASSUME IInv, RequestDeletion \/ CancelDeletion
    PROVE  IInv'
<1>1. /\ Types /\ owner \in OwnerRow /\ now \in Nat /\ Grace \in Nat \ {0} /\ promised \in Nat
      /\ owner.entered /\ owner.id # 0 /\ owner.deleteAfter = promised /\ sweep \in SweepState
  BY AccountAssumption DEF IInv, Types, Agreements, RegisteringIds, Dates, DateKept,
     RequestDeletion, CancelDeletion
<1>2. UNCHANGED <<now, version, made, agreed, told, phone, sweep, money, attempts>>
  BY DEF RequestDeletion, CancelDeletion
<1>3. /\ owner' \in OwnerRow /\ owner'.id = owner.id /\ owner'.entered = owner.entered
      /\ promised' \in Nat /\ owner'.deleteAfter = promised'
      /\ promised' \in {0, promised} \/ promised' = now + Grace
  <2>1. CASE RequestDeletion
    <3> DEFINE date == IF promised = 0 THEN now + Grace ELSE promised
    <3>1. promised' = date /\ owner' = [owner EXCEPT !.deleteAfter = date]
      BY <1>1, <2>1 DEF RequestDeletion, OwnerRow
    <3>2. date \in Nat /\ (date = promised \/ date = now + Grace)
      BY <1>1
    <3> HIDE DEF date
    <3> QED  BY <1>1, <3>1, <3>2 DEF OwnerRow
  <2>2. CASE CancelDeletion
    BY <1>1, <2>2 DEF CancelDeletion, OwnerRow
  <2> QED  BY <2>1, <2>2
<1>4. Types'
  BY <1>1, <1>2, <1>3 DEF Types, money
<1>5. Agreements'
  BY <1>1, <1>2, <1>3 DEF IInv, Agreements, InOrder, ToldIsRecorded, PastIsRecorded, RegisteringIds
<1>6. SweepSees'
  <2> SUFFICES ASSUME sweep.step = "copied", Due(sweep.at)'
               PROVE  Due(sweep.at)
    BY <1>2 DEF IInv, Dates, SweepSees, money
  <2>1. sweep.at \in Nat /\ sweep.at <= now
    BY <1>1 DEF IInv, Dates, SweepSees, SweepState
  <2>2. promised' # 0 /\ promised' <= sweep.at
    BY <1>2, <1>3 DEF Due
  <2>3. promised' = promised
    BY <1>1, <1>3, <2>1, <2>2
  <2> QED  BY <1>1, <2>2, <2>3 DEF Due
<1>7. DateKept' /\ MoneyAccountedFor' /\ CounterExpires'
  BY <1>2, <1>3 DEF IInv, Dates, DateKept, MoneyAccountedFor, CounterExpires, money
<1> QED  BY <1>4, <1>5, <1>6, <1>7 DEF IInv, Dates

LEMMA SweepKeepsIInv ==
    ASSUME IInv, SweepCopy \/ SweepFails
    PROVE  IInv'
<1>1. /\ Types /\ now \in Nat /\ UNCHANGED <<now, version, people, phone, money, attempts>>
  BY DEF IInv, Types, SweepCopy, SweepFails
<1>2. /\ sweep' \in SweepState
      /\ sweep'.step = "copied" =>
           /\ sweep'.at = now
           /\ Due(now) => sweep'.copied = {k \in Payments : payment[k] = "paid"}
  <2>1. CASE SweepCopy
    <3> DEFINE paid == {k \in Payments : payment[k] = "paid"}
    <3>1. sweep' = [step |-> "copied", at |-> now, copied |-> IF Due(now) THEN paid ELSE {}]
      BY <2>1 DEF SweepCopy
    <3> QED  BY <1>1, <3>1 DEF SweepState
  <2>2. CASE SweepFails
    BY <2>2, InitialRecords DEF SweepFails
  <2> QED  BY <2>1, <2>2
<1>3. UNCHANGED <<now, version, owner, made, agreed, told, promised, phone, payment, received, kept,
                  attempts>>
  BY <1>1 DEF people, money
<1>4. Types'
  BY <1>1, <1>2, <1>3 DEF Types
<1>5. SweepSees'
  <2> SUFFICES ASSUME sweep'.step = "copied", Due(now)
               PROVE  {k \in received : payment[k] = "paid"} \subseteq kept \cup sweep'.copied
    BY <1>1, <1>2, <1>3 DEF SweepSees, Due
  <2>1. received \subseteq Payments
    BY <1>1 DEF Types
  <2> QED  BY <1>2, <2>1
<1>6. DateKept' /\ MoneyAccountedFor' /\ CounterExpires' /\ Agreements'
  BY <1>3 DEF IInv, Dates, DateKept, MoneyAccountedFor, CounterExpires, Agreements, InOrder,
     ToldIsRecorded, PastIsRecorded, RegisteringIds
<1> QED  BY <1>4, <1>5, <1>6 DEF IInv, Dates

(* What is deleted was copied first.                                          *)
LEMMA SweepDeleteKeepsIInv ==
    ASSUME IInv, SweepDelete
    PROVE  IInv'
<1>1. /\ Types /\ sweep \in SweepState /\ sweep.step = "copied"
      /\ kept' = kept \cup sweep.copied /\ sweep' = NoSweep
      /\ UNCHANGED <<now, version, made, phone, received, attempts>>
  BY DEF IInv, Types, SweepDelete
<1>2. kept' \subseteq Payments /\ kept \subseteq kept'
  BY <1>1 DEF Types, SweepState
<1>3. CounterExpires' /\ SweepSees'
  BY <1>1, InitialRecords DEF IInv, CounterExpires, SweepSees
<1>4. CASE ~Due(sweep.at)
  <2>1. UNCHANGED <<owner, agreed, told, promised, payment>>
    BY <1>4 DEF SweepDelete, Spare
  <2>2. Types'
    BY <1>1, <1>2, <2>1, InitialRecords DEF Types
  <2>3. DateKept' /\ MoneyAccountedFor' /\ Agreements'
    BY <1>1, <1>2, <2>1 DEF IInv, Dates, DateKept, MoneyAccountedFor, Agreements, InOrder,
       ToldIsRecorded, PastIsRecorded, RegisteringIds
  <2> QED  BY <1>3, <2>2, <2>3 DEF IInv, Dates
<1>5. CASE Due(sweep.at)
  <2>1. /\ owner' = NoOwner /\ agreed' = <<>> /\ told' = {} /\ promised' = 0
        /\ payment' = [k \in Payments |-> IF payment[k] = "none" THEN "none" ELSE "gone"]
    BY <1>5 DEF SweepDelete, Erase
  <2>2. /\ payment' \in [Payments -> {"none", "pending", "paid", "gone"}]
        /\ agreed' \in Seq(DocumentSet \X Nat) /\ DOMAIN agreed' = {}
    BY <2>1
  <2>3. Types'
    BY <1>1, <1>2, <2>1, <2>2, InitialRecords DEF Types
  <2>4. InOrder' /\ ToldIsRecorded'
    BY <2>1, <2>2 DEF InOrder, ToldIsRecorded
  <2>5. RegisteringIds'
    BY <1>1, <2>1, InitialRecords DEF IInv, Agreements, RegisteringIds, Types
  <2>6. PastIsRecorded'
    <3>1. \A p \in Phones : phone'[p].step \in {"agreeing", "opening"} => phone'[p].id # 0
      BY <1>1 DEF IInv, Agreements, RegisteringIds
    <3> QED  BY <2>1, <3>1, InitialRecords DEF PastIsRecorded
  <2>7. DateKept'
    BY <2>1, InitialRecords DEF DateKept
  <2>8. MoneyAccountedFor'
    <3>1. {k \in received : payment[k] = "paid"} \subseteq kept'
      BY <1>1, <1>5 DEF IInv, Dates, SweepSees
    <3>2. received \subseteq kept \cup {k \in Payments : payment[k] = "paid"}
      BY DEF IInv, Dates, MoneyAccountedFor
    <3>3. received \subseteq kept'
      BY <1>2, <3>1, <3>2
    <3> QED  BY <1>1, <3>3 DEF MoneyAccountedFor
  <2> QED  BY <1>3, <2>3, <2>4, <2>5, <2>6, <2>7, <2>8 DEF IInv, Agreements, Dates
<1> QED  BY <1>4, <1>5

LEMMA PaymentKeepsIInv ==
    ASSUME IInv, NEW k \in Payments, Checkout(k) \/ Confirm(k)
    PROVE  IInv'
<1>1. /\ Types /\ UNCHANGED <<now, version, people, phone, sweep, kept, attempts>>
      /\ payment \in [Payments -> {"none", "pending", "paid", "gone"}] /\ received \subseteq Payments
  BY DEF IInv, Types, Checkout, Confirm
<1>2. UNCHANGED <<owner, made, agreed, told, promised>>
  BY <1>1 DEF people
<1>3. /\ payment' \in [Payments -> {"none", "pending", "paid", "gone"}]
      /\ \A j \in Payments : j # k => payment'[j] = payment[j]
      /\ payment[k] # "paid"
      /\ received' = received \/ (payment'[k] = "paid" /\ received' = received \cup {k})
      /\ sweep.step = "copied" => received' = received
  BY <1>1 DEF Checkout, Confirm
<1>4. Types'
  BY <1>1, <1>2, <1>3 DEF Types
<1>5. received \subseteq kept \cup {j \in Payments : payment[j] = "paid"}
  BY DEF IInv, Dates, MoneyAccountedFor
<1>6. MoneyAccountedFor'
  BY <1>1, <1>3, <1>5 DEF MoneyAccountedFor
<1>7. SweepSees'
  <2> SUFFICES ASSUME sweep.step = "copied", Due(sweep.at)
               PROVE  {j \in received : payment'[j] = "paid"} \subseteq kept \cup sweep.copied
    BY <1>1, <1>2, <1>3 DEF IInv, Dates, SweepSees, Due
  <2>1. {j \in received : payment[j] = "paid"} \subseteq kept \cup sweep.copied
    BY DEF IInv, Dates, SweepSees
  <2>2. k \in received => k \in kept
    BY <1>3, <1>5
  <2> QED  BY <1>1, <1>3, <2>1, <2>2
<1>8. DateKept' /\ CounterExpires' /\ Agreements'
  BY <1>1, <1>2 DEF IInv, Dates, DateKept, CounterExpires, Agreements, InOrder, ToldIsRecorded,
     PastIsRecorded, RegisteringIds
<1> QED  BY <1>4, <1>6, <1>7, <1>8 DEF IInv, Dates

(* A build that is newer only raises versions.                                *)
LEMMA RestartKeepsIInv ==
    ASSUME IInv, NEW raised \in SUBSET DocumentSet, Restart(raised)
    PROVE  IInv'
<1>1. Types /\ attempts \in Counter /\ version \in [DocumentSet -> Nat]
      /\ agreed \in Seq(DocumentSet \X Nat)
  BY DEF IInv, Types
<1> DEFINE missed == attempts.count > 0 /\ \E p \in Phones : phone[p].step = "first"
           lost == attempts.lost \/ missed
<1>2. /\ version' = [d \in DocumentSet |-> IF d \in raised THEN version[d] + 1 ELSE version[d]]
      /\ phone' = [p \in Phones |-> Idle] /\ sweep' = NoSweep
      /\ attempts' = [attempts EXCEPT !.lost = lost]
      /\ UNCHANGED <<now, people, money>>
  BY DEF Restart
<1>3. lost \in BOOLEAN
  BY <1>1 DEF Counter
<1>4. (attempts.lost => lost)
      /\ (attempts.count > 0 /\ (\E p \in Phones : phone[p].step = "first") => lost)
  OBVIOUS
<1> HIDE DEF lost
<1>5. attempts' \in Counter /\ attempts'.count = attempts.count /\ attempts'.ttl = attempts.ttl
      /\ attempts'.lost = lost
  BY <1>1, <1>2, <1>3 DEF Counter
<1>6. CounterExpires'
  BY <1>4, <1>5 DEF IInv, CounterExpires
<1>7. UNCHANGED <<owner, made, agreed, told, promised, payment, received, kept>>
  BY <1>2 DEF people, money
<1>8. version' \in [DocumentSet -> Nat] /\ \A d \in DocumentSet : version[d] <= version'[d]
  BY <1>1, <1>2
<1>9. phone' \in [Phones -> PhoneState] /\ \A p \in Phones : phone'[p].step = "idle"
  BY <1>2, InitialRecords
<1>10. Types'
  BY <1>1, <1>2, <1>5, <1>7, <1>8, <1>9, InitialRecords DEF Types
<1>11. InOrder'
  <2>1. \A i \in DOMAIN agreed : agreed[i][1] \in DocumentSet /\ agreed[i][2] \in Nat
    BY <1>1
  <2>2. \A i \in DOMAIN agreed : agreed[i][2] <= version'[agreed[i][1]]
    <3> SUFFICES ASSUME NEW i \in DOMAIN agreed PROVE agreed[i][2] <= version'[agreed[i][1]]
      OBVIOUS
    <3>1. agreed[i][2] <= version[agreed[i][1]]
      BY DEF IInv, Agreements, InOrder
    <3>2. version[agreed[i][1]] \in Nat /\ version'[agreed[i][1]] \in Nat
          /\ version[agreed[i][1]] <= version'[agreed[i][1]]
      BY <1>1, <1>8, <2>1
    <3> QED  BY <2>1, <3>1, <3>2
  <2> QED  BY <1>7, <2>2 DEF IInv, Agreements, InOrder
<1>12. ToldIsRecorded' /\ PastIsRecorded' /\ RegisteringIds'
  BY <1>7, <1>9 DEF IInv, Agreements, ToldIsRecorded, PastIsRecorded, RegisteringIds
<1>13. Dates'
  BY <1>2, <1>7, InitialRecords DEF IInv, Dates, DateKept, SweepSees, MoneyAccountedFor
<1> QED  BY <1>6, <1>10, <1>11, <1>12, <1>13 DEF IInv, Agreements

(* The clock and the end of a window.                                         *)
LEMMA TimeKeepsIInv ==
    ASSUME IInv, Tick \/ KeyExpires
    PROVE  IInv'
<1>1. /\ Types /\ now \in Nat /\ now' \in Nat /\ now <= now' /\ attempts' \in Counter
      /\ UNCHANGED <<version, people, phone, sweep, money>>
  BY InitialRecords DEF IInv, Types, Tick, KeyExpires
<1>2. UNCHANGED <<owner, made, agreed, told, promised, payment, received, kept>>
  BY <1>1 DEF people, money
<1>3. Types'
  BY <1>1, <1>2 DEF Types
<1>4. Agreements' /\ Dates'
  BY <1>1, <1>2, AgreementsApart, DatesApart
<1>5. CounterExpires'
  <2>1. CASE Tick
    BY <2>1 DEF Tick, IInv, CounterExpires
  <2>2. CASE KeyExpires
    BY <2>2, InitialRecords DEF KeyExpires, CounterExpires
  <2> QED  BY <2>1, <2>2
<1> QED  BY <1>3, <1>4, <1>5 DEF IInv

-----------------------------------------------------------------------------
LEMMA Initially == Init => IInv
<1> SUFFICES ASSUME Init PROVE IInv
  OBVIOUS
<1>1. /\ now = 0 /\ version = [d \in DocumentSet |-> 1] /\ owner = NoOwner /\ made = 0
      /\ agreed = <<>> /\ told = {} /\ phone = [p \in Phones |-> Idle] /\ promised = 0
      /\ sweep = NoSweep /\ payment = [k \in Payments |-> "none"] /\ received = {} /\ kept = {}
      /\ attempts = NoKey
  BY DEF Init
<1>2. agreed \in Seq(DocumentSet \X Nat) /\ DOMAIN agreed = {}
  BY <1>1
<1>3. version \in [DocumentSet -> Nat] /\ phone \in [Phones -> PhoneState]
      /\ payment \in [Payments -> {"none", "pending", "paid", "gone"}]
  BY <1>1, InitialRecords
<1>4. Types
  BY <1>1, <1>2, <1>3, InitialRecords DEF Types
<1>5. Agreements
  BY <1>1, <1>2, InitialRecords DEF Agreements, InOrder, ToldIsRecorded, PastIsRecorded,
     RegisteringIds
<1>6. Dates /\ CounterExpires
  BY <1>1, InitialRecords DEF Dates, DateKept, SweepSees, MoneyAccountedFor, CounterExpires
<1> QED  BY <1>4, <1>5, <1>6 DEF IInv

LEMMA Step == IInv /\ [Next]_vars => IInv'
<1> SUFFICES ASSUME IInv, [Next]_vars PROVE IInv'
  OBVIOUS
<1>1. ASSUME NEW p \in Phones,
             \/ RegisterStart(p) \/ RegisterCreate(p) \/ RegisterAgree(p) \/ RegisterOpen(p)
             \/ LoginCount(p) \/ LoginUncounted(p) \/ LoginExpire(p) \/ LoginExpireLost(p)
             \/ LoginRefused(p) \/ LoginEnter(p) \/ RequestFails(p)
      PROVE  IInv'
  BY <1>1, SignInKeepsIInv, RegisterCreateKeepsIInv, RegisterAgreeKeepsIInv,
     RegisterOpenKeepsIInv, LoginEnterKeepsIInv
<1>2. CASE \E d \in DocumentSet : RecordConsent(d)
  BY <1>2, RecordConsentKeepsIInv
<1>3. CASE RequestDeletion \/ CancelDeletion
  BY <1>3, DateKeepsIInv
<1>4. CASE SweepCopy \/ SweepDelete \/ SweepFails
  BY <1>4, SweepKeepsIInv, SweepDeleteKeepsIInv
<1>5. CASE \E k \in Payments : Checkout(k) \/ Confirm(k)
  BY <1>5, PaymentKeepsIInv
<1>6. CASE \E raised \in SUBSET DocumentSet : Restart(raised)
  BY <1>6, RestartKeepsIInv
<1>7. CASE Tick \/ KeyExpires
  BY <1>7, TimeKeepsIInv
<1>8. CASE UNCHANGED vars
  BY <1>8 DEF vars, people, money, IInv, Types, Agreements, Dates, DateKept, SweepSees, Due,
     MoneyAccountedFor, CounterExpires, InOrder, ToldIsRecorded, PastIsRecorded, RegisteringIds
<1> QED  BY <1>1, <1>2, <1>3, <1>4, <1>5, <1>6, <1>7, <1>8 DEF Next

-----------------------------------------------------------------------------
(* The theorems.                                                              *)
THEOREM Inductive == Spec => []IInv
BY Initially, Step, PTL DEF Spec

(* Registration records one document after the other while versions may be    *)
(* raised and accounts deleted in between; what a phone was told it agreed to *)
(* in the version in force is not asked for again (privacy_service.rs state). *)
THEOREM AgreedIsNotAskedAgain == Spec => []AgreeingSettles
<1>1. IInv => AgreeingSettles
  <2> SUFFICES ASSUME IInv, NEW d \in Outstanding, <<d, version[d]>> \in told
               PROVE  FALSE
    BY DEF AgreeingSettles
  <2>1. d \in DocumentSet /\ <<d, version[d]>> \notin GivenBy
    BY DEF Outstanding
  <2>2. PICK i \in DOMAIN agreed : agreed[i] = <<d, version[d]>>
    BY DEF IInv, Agreements, ToldIsRecorded
  <2>3. /\ agreed \in Seq(DocumentSet \X Nat) /\ version[d] \in Nat
        /\ \A j \in DOMAIN agreed : agreed[j][2] \in Nat /\ j \in Int
    BY <2>1 DEF IInv, Types
  <2>4. ASSUME NEW j \in Given(d) PROVE j <= i
    <3>1. j \in DOMAIN agreed /\ agreed[j][1] = d
      BY DEF Given
    <3>2. agreed[j][2] <= version[d]
      BY <3>1 DEF IInv, Agreements, InOrder
    <3>3. i < j => version[d] < agreed[j][2]
      BY <2>2, <3>1 DEF IInv, Agreements, InOrder
    <3> QED  BY <2>3, <3>1, <3>2, <3>3
  <2>5. agreed[i] \in GivenBy
    BY <2>2, <2>4 DEF GivenBy
  <2> QED  BY <2>1, <2>2, <2>5
<1> QED  BY <1>1, Inductive, PTL

(* Whenever a sweep copies, deletes or fails, and whoever calls the deletion  *)
(* off in between, a payment received outside a sweep's two statements is in  *)
(* the books (retention.rs purge_accounts).                                   *)
THEOREM PaymentsStayInTheBooks == Spec => []MoneyAccountedFor
<1>1. IInv => MoneyAccountedFor
  BY DEF IInv, Dates
<1> QED  BY <1>1, Inductive, PTL

(* The count of sign-ins has an expiry, or the request that is to set it is   *)
(* under way, or it was lost (rate_limiter.rs check).                         *)
THEOREM WindowCloses == Spec => []CounterExpires
<1>1. IInv => CounterExpires
  BY DEF IInv
<1> QED  BY <1>1, Inductive, PTL

(* A sweep that commits takes the account whose date had come when it began,  *)
(* however often its owner asked (consent_repository.rs request_deletion).    *)
THEOREM DateIsKept == Spec => SweepKeepsTheDate
<1>1. IInv => [SweepDelete /\ promised # 0 /\ promised <= sweep.at => owner'.id = 0]_vars
  <2> SUFFICES ASSUME IInv, SweepDelete, promised # 0, promised <= sweep.at PROVE owner'.id = 0
    OBVIOUS
  <2>1. Due(sweep.at)
    BY DEF IInv, Dates, DateKept, Due
  <2> QED  BY <2>1, InitialRecords DEF SweepDelete, Erase
<1> QED  BY <1>1, Inductive, PTL DEF SweepKeepsTheDate

(* An account is deleted only on or after the date its owner was given and    *)
(* has not called off (retention.rs purge_accounts).                          *)
THEOREM NotBeforeTheDate == Spec => NeverBeforeTheDate
<1>1. IInv /\ [Next]_vars =>
        [owner.id # 0 /\ owner'.id # owner.id => promised # 0 /\ promised <= now]_vars
  <2> SUFFICES ASSUME IInv, Next, owner.id # 0, owner'.id # owner.id
               PROVE  promised # 0 /\ promised <= now
    OBVIOUS
  <2>1. owner \in OwnerRow /\ sweep \in SweepState /\ now \in Nat /\ promised \in Nat
    BY DEF IInv, Types
  <2>2. CASE SweepDelete
    <3>1. Due(sweep.at) /\ sweep.at \in Nat /\ sweep.at <= now
      BY <2>1, <2>2 DEF SweepDelete, Spare, IInv, Dates, SweepSees, SweepState
    <3>2. promised # 0 /\ promised <= sweep.at
      BY <3>1 DEF IInv, Dates, DateKept, Due
    <3> QED  BY <2>1, <3>1, <3>2
  <2>3. ASSUME NEW p \in Phones,
               \/ RegisterStart(p) \/ RegisterCreate(p) \/ RegisterAgree(p) \/ RegisterOpen(p)
               \/ LoginCount(p) \/ LoginUncounted(p) \/ LoginExpire(p) \/ LoginExpireLost(p)
               \/ LoginRefused(p) \/ LoginEnter(p) \/ RequestFails(p)
        PROVE  owner'.id = owner.id
    <3>1. CASE RegisterCreate(p)
      BY <3>1 DEF RegisterCreate, people
    <3>2. CASE RegisterOpen(p) \/ LoginEnter(p)
      BY <2>1, <3>2 DEF RegisterOpen, LoginEnter, OwnerRow
    <3>3. CASE ~RegisterCreate(p) /\ ~RegisterOpen(p) /\ ~LoginEnter(p)
      BY <2>3, <3>3 DEF RegisterStart, RegisterAgree, LoginCount, LoginUncounted, LoginExpire,
         LoginExpireLost, LoginRefused, RequestFails, people
    <3> QED  BY <3>1, <3>2, <3>3
  <2>4. RequestDeletion \/ CancelDeletion => owner'.id = owner.id
    BY <2>1 DEF RequestDeletion, CancelDeletion, OwnerRow
  <2>5. KeyExpires \/ SweepCopy \/ SweepFails \/ Tick => owner' = owner
    BY DEF KeyExpires, SweepCopy, SweepFails, Tick, people
  <2>6. /\ \A d \in DocumentSet : RecordConsent(d) => owner' = owner
        /\ \A k \in Payments : Checkout(k) \/ Confirm(k) => owner' = owner
        /\ \A raised \in SUBSET DocumentSet : Restart(raised) => owner' = owner
    BY DEF RecordConsent, Checkout, Confirm, Restart, people
  <2> QED  BY <2>2, <2>3, <2>4, <2>5, <2>6 DEF Next
<1> QED  BY <1>1, Inductive, PTL DEF Spec, NeverBeforeTheDate
=============================================================================
