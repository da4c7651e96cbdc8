------------------------------ MODULE Account ------------------------------
(* The account of one email address from registration to deletion: the agree- *)
(* ments recorded for it, the payments it made, the grace period before it is *)
(* deleted, the sweep that deletes it, and the counter that slows down        *)
(* sign-ins (auth_service.rs register and login, rate_limiter.rs, features/   *)
(* privacy). Requests interleave query by query and fail between two queries. *)
EXTENDS Integers, Sequences, FiniteSets

CONSTANTS
    Phones,        \* phones on which somebody registers or signs in
    Payments,      \* payments the account may start
    Grace,         \* days between asking for deletion and deletion
    Limit,         \* sign-ins tried per window
    MaxAccounts,   \* bound: accounts ever made with this address
    MaxRaises,     \* bound: how often a document's version is raised
    MaxTime        \* bound: the clock

ASSUME AccountAssumption ==
    /\ Grace \in Nat \ {0} /\ Limit \in Nat \ {0}
    /\ MaxAccounts \in Nat /\ MaxRaises \in Nat /\ MaxTime \in Nat

VARIABLES
    now,
    version,       \* per document: the version in force, fixed by the build
    owner,         \* the row of owners: id (0: none), delete_after (0: NULL), and
                   \*   whether a phone has signed in to it
    made,          \* ids used so far
    agreed,        \* the account's rows of consent_records, oldest first
    told,          \* agreements a phone was told are recorded
    phone,         \* per phone: the step of its request, its account, its document
    promised,      \* the date the owner was given for the deletion (0: none)
    sweep,         \* the sweep's transaction: step, its now(), what it copied
    payment,       \* per payment: "none", "pending", "paid" or "gone"
    received,      \* payments confirmed while no sweep was deleting the account
    kept,          \* the ids in accounting_records
    attempts       \* the limiter's key: its count, whether it expires, and
                   \*   whether an EXPIRE for it was lost

people == <<owner, made, agreed, told, promised>>
money == <<payment, received, kept>>
vars == <<now, version, people, phone, sweep, money, attempts>>

(* LegalDocument::ALL *)
Documents == <<"privacy_notice", "terms">>
DocumentSet == {Documents[i] : i \in DOMAIN Documents}

NoOwner == [id |-> 0, deleteAfter |-> 0, entered |-> FALSE]
Idle == [step |-> "idle", id |-> 0, next |-> 1]
NoKey == [count |-> 0, ttl |-> FALSE, lost |-> FALSE]
NoSweep == [step |-> "idle", at |-> 0, copied |-> {}]

Due(t) == owner.deleteAfter # 0 /\ owner.deleteAfter <= t

-----------------------------------------------------------------------------
(* Consent *)

(* Agreeing twice to the same version inserts nothing. *)
Recorded(d) ==
    IF \E i \in DOMAIN agreed : agreed[i] = <<d, version[d]>>
    THEN agreed ELSE Append(agreed, <<d, version[d]>>)

Given(d) == {i \in DOMAIN agreed : agreed[i][1] = d}

(* Mutant: the oldest agreement is taken for each document. *)
OldestGiven == {agreed[i] : i \in {i \in DOMAIN agreed :
                                      \A j \in Given(agreed[i][1]) : i <= j}}

(* given_by: the newest agreement on record for each document. *)
GivenBy == {agreed[i] : i \in {i \in DOMAIN agreed :
                                  \A j \in Given(agreed[i][1]) : j <= i}}

Outstanding == {d \in DocumentSet : <<d, version[d]>> \notin GivenBy}

(* The owner agrees on the privacy screen; a version that is not in force is  *)
(* refused.                                                                   *)
RecordConsent(d) ==
    /\ owner.entered
    /\ agreed' = Recorded(d)
    /\ told' = told \cup {<<d, version[d]>>}
    /\ UNCHANGED <<now, version, owner, made, promised, phone, sweep, money, attempts>>

-----------------------------------------------------------------------------
(* Registration *)

(* The versions sent are those in force and nobody uses the address yet; the  *)
(* password is hashed before the account is created.                          *)
RegisterStart(p) ==
    /\ phone[p] = Idle
    /\ owner.id = 0
    /\ phone' = [phone EXCEPT ![p].step = "hashing"]
    /\ UNCHANGED <<now, version, people, sweep, money, attempts>>

(* Owner, store and trial in one transaction; the address is unique. *)
RegisterCreate(p) ==
    /\ phone[p].step = "hashing"
    /\ \/ /\ owner.id # 0
          /\ phone' = [phone EXCEPT ![p] = Idle]
          /\ UNCHANGED people
       \/ /\ owner.id = 0 /\ made < MaxAccounts
          /\ made' = made + 1
          /\ owner' = [NoOwner EXCEPT !.id = made + 1]
          /\ phone' = [phone EXCEPT ![p] = [step |-> "agreeing", id |-> made + 1, next |-> 1]]
          /\ UNCHANGED <<agreed, told, promised>>
    /\ UNCHANGED <<now, version, sweep, money, attempts>>

(* record_registration_consent: one statement per document. *)
RegisterAgree(p) ==
    LET i == phone[p].next
    IN  /\ phone[p].step = "agreeing" /\ owner.id = phone[p].id
        /\ agreed' = Recorded(Documents[i])
        /\ phone' = [phone EXCEPT ![p] = IF i < Len(Documents) THEN [@ EXCEPT !.next = i + 1]
                                         ELSE [@ EXCEPT !.step = "opening"]]
        /\ UNCHANGED <<now, version, owner, made, told, promised, sweep, money, attempts>>

(* The session is opened and the phone gets its answer. *)
RegisterOpen(p) ==
    /\ phone[p].step = "opening" /\ owner.id = phone[p].id
    /\ owner' = [owner EXCEPT !.entered = TRUE]
    /\ told' = told \cup {<<d, version[d]>> : d \in DocumentSet}
    /\ phone' = [phone EXCEPT ![p] = Idle]
    /\ UNCHANGED <<now, version, made, agreed, promised, sweep, money, attempts>>

-----------------------------------------------------------------------------
(* Signing in *)

(* The verdict on INCR's answer n: the first attempt of a window still has to *)
(* set its expiry, an attempt over the limit is refused.                      *)
Counted(p, n) ==
    phone' = [phone EXCEPT ![p] =
        IF n = 1 THEN [@ EXCEPT !.step = "first"]
        ELSE IF n > Limit THEN Idle ELSE [@ EXCEPT !.step = "checking"]]

(* Counting stops one above the limit, where every further answer is alike.   *)
LoginCount(p) ==
    LET n == IF attempts.count > Limit THEN attempts.count ELSE attempts.count + 1
    IN  /\ phone[p] = Idle
        /\ attempts' = [attempts EXCEPT !.count = n]
        /\ Counted(p, n)
        /\ UNCHANGED <<now, version, people, sweep, money>>

(* No connection to Redis, or INCR failed. *)
LoginUncounted(p) ==
    /\ phone[p] = Idle
    /\ phone' = [phone EXCEPT ![p].step = "checking"]
    /\ UNCHANGED <<now, version, people, sweep, money, attempts>>

(* Mutant: the count is read again and the expiry set if it is still one. *)
ExpireIfStillFirst(p) ==
    /\ phone[p].step = "first"
    /\ attempts' = [attempts EXCEPT !.ttl = @ \/ attempts.count = 1]
    /\ phone' = [phone EXCEPT ![p].step = "checking"]
    /\ UNCHANGED <<now, version, people, sweep, money>>

LoginExpire(p) ==
    /\ phone[p].step = "first"
    /\ attempts' = [attempts EXCEPT !.ttl = attempts.count > 0]
    /\ phone' = [phone EXCEPT ![p].step = "checking"]
    /\ UNCHANGED <<now, version, people, sweep, money>>

(* EXPIRE's answer is not looked at. *)
LoginExpireLost(p) ==
    /\ phone[p].step = "first"
    /\ attempts' = [attempts EXCEPT !.lost = attempts.count > 0]
    /\ phone' = [phone EXCEPT ![p].step = "checking"]
    /\ UNCHANGED <<now, version, people, sweep, money>>

(* A wrong password, or no such account: the attempt stays counted. *)
LoginRefused(p) ==
    /\ phone[p].step = "checking"
    /\ phone' = [phone EXCEPT ![p] = Idle]
    /\ UNCHANGED <<now, version, people, sweep, money, attempts>>

(* The right password: the key is deleted, if Redis answers, and a session    *)
(* opened.                                                                    *)
LoginEnter(p) ==
    /\ phone[p].step = "checking" /\ owner.id # 0
    /\ attempts' \in {NoKey, attempts}
    /\ owner' = [owner EXCEPT !.entered = TRUE]
    /\ phone' = [phone EXCEPT ![p] = Idle]
    /\ UNCHANGED <<now, version, made, agreed, told, promised, sweep, money>>

KeyExpires ==
    /\ attempts.ttl
    /\ attempts' = NoKey
    /\ UNCHANGED <<now, version, people, phone, sweep, money>>

(* A request ends early: what its statements committed stays. *)
RequestFails(p) ==
    /\ phone[p] # Idle
    /\ phone' = [phone EXCEPT ![p] = Idle]
    /\ attempts' = [attempts EXCEPT !.lost = @ \/ (phone[p].step = "first" /\ attempts.count > 0)]
    /\ UNCHANGED <<now, version, people, sweep, money>>

-----------------------------------------------------------------------------
(* Deletion *)

(* Mutant: asking again starts the grace period again. *)
RestartGrace ==
    /\ owner.entered /\ now + Grace <= MaxTime
    /\ owner' = [owner EXCEPT !.deleteAfter = now + Grace]
    /\ promised' = IF promised = 0 THEN now + Grace ELSE promised
    /\ UNCHANGED <<now, version, made, agreed, told, phone, sweep, money, attempts>>

RequestDeletion ==
    /\ owner.entered /\ now + Grace <= MaxTime
    /\ owner' = [owner EXCEPT !.deleteAfter = IF @ = 0 THEN now + Grace ELSE @]
    /\ promised' = IF promised = 0 THEN now + Grace ELSE promised
    /\ UNCHANGED <<now, version, made, agreed, told, phone, sweep, money, attempts>>

CancelDeletion ==
    /\ owner.entered
    /\ owner' = [owner EXCEPT !.deleteAfter = 0]
    /\ promised' = 0
    /\ UNCHANGED <<now, version, made, agreed, told, phone, sweep, money, attempts>>

(* Mutant: payments are copied for accounts whose date has passed, and not    *)
(* for those whose date is this moment.                                       *)
CopyThePast ==
    /\ sweep.step = "idle"
    /\ sweep' = [step |-> "copied", at |-> now,
                 copied |-> IF owner.deleteAfter # 0 /\ owner.deleteAfter < now
                            THEN {k \in Payments : payment[k] = "paid"} ELSE {}]
    /\ UNCHANGED <<now, version, people, phone, money, attempts>>

(* purge_accounts: the paid payments of accounts that are due are copied...   *)
SweepCopy ==
    /\ sweep.step = "idle"
    /\ sweep' = [step |-> "copied", at |-> now,
                 copied |-> IF Due(now) THEN {k \in Payments : payment[k] = "paid"} ELSE {}]
    /\ UNCHANGED <<now, version, people, phone, money, attempts>>

Erase ==
    /\ owner' = NoOwner /\ agreed' = <<>> /\ told' = {} /\ promised' = 0
    /\ payment' = [k \in Payments |-> IF payment[k] = "none" THEN "none" ELSE "gone"]

Spare == UNCHANGED <<owner, agreed, told, promised, payment>>

(* Mutant: the accounts chosen when the payments were copied are deleted. *)
DeleteChosen ==
    /\ sweep.step = "copied"
    /\ IF Due(sweep.at) \/ sweep.copied # {} THEN Erase ELSE Spare
    /\ kept' = kept \cup sweep.copied
    /\ sweep' = NoSweep
    /\ UNCHANGED <<now, version, made, phone, received, attempts>>

(* ... and the accounts that are due now are deleted, with their rows in      *)
(* every other table. now() is the start of the transaction in both.          *)
SweepDelete ==
    /\ sweep.step = "copied"
    /\ IF Due(sweep.at) THEN Erase ELSE Spare
    /\ kept' = kept \cup sweep.copied
    /\ sweep' = NoSweep
    /\ UNCHANGED <<now, version, made, phone, received, attempts>>

(* Mutant: the first sweep that fails is the last. *)
SweepStops ==
    /\ sweep.step = "copied"
    /\ sweep' = [NoSweep EXCEPT !.step = "stopped"]
    /\ UNCHANGED <<now, version, people, phone, money, attempts>>

(* The sweeper logs the error and sweeps again at its next tick. *)
SweepFails ==
    /\ sweep.step = "copied"
    /\ sweep' = NoSweep
    /\ UNCHANGED <<now, version, people, phone, money, attempts>>

-----------------------------------------------------------------------------
(* Payments, the clock, a new build *)

Checkout(k) ==
    /\ owner.entered /\ payment[k] = "none"
    /\ payment' = [payment EXCEPT ![k] = "pending"]
    /\ UNCHANGED <<now, version, people, phone, sweep, received, kept, attempts>>

(* A confirmation that finds no row does nothing. *)
Confirm(k) ==
    /\ payment[k] = "pending"
    /\ payment' = [payment EXCEPT ![k] = "paid"]
    /\ received' = IF sweep.step = "copied" THEN received ELSE received \cup {k}
    /\ UNCHANGED <<now, version, people, phone, sweep, kept, attempts>>

(* The server restarts, with a build that may raise a document's version;     *)
(* what it was serving ends.                                                  *)
Restart(raised) ==
    /\ version["terms"] + version["privacy_notice"] + Cardinality(raised) <= 2 + MaxRaises
    /\ version' = [d \in DocumentSet |-> IF d \in raised THEN version[d] + 1 ELSE version[d]]
    /\ phone' = [p \in Phones |-> Idle]
    /\ sweep' = NoSweep
    /\ attempts' = [attempts EXCEPT !.lost =
          @ \/ (attempts.count > 0 /\ \E p \in Phones : phone[p].step = "first")]
    /\ UNCHANGED <<now, people, money>>

Tick ==
    /\ now < MaxTime
    /\ now' = now + 1
    /\ UNCHANGED <<version, people, phone, sweep, money, attempts>>

-----------------------------------------------------------------------------
Init ==
    /\ now = 0
    /\ version = [d \in DocumentSet |-> 1]
    /\ owner = NoOwner
    /\ made = 0
    /\ agreed = <<>>
    /\ told = {}
    /\ phone = [p \in Phones |-> Idle]
    /\ promised = 0
    /\ sweep = NoSweep
    /\ payment = [k \in Payments |-> "none"]
    /\ received = {}
    /\ kept = {}
    /\ attempts = NoKey

Next ==
    \/ \E p \in Phones :
          \/ RegisterStart(p) \/ RegisterCreate(p) \/ RegisterAgree(p) \/ RegisterOpen(p)
          \/ LoginCount(p) \/ LoginUncounted(p) \/ LoginExpire(p) \/ LoginExpireLost(p)
          \/ LoginRefused(p) \/ LoginEnter(p) \/ RequestFails(p)
    \/ KeyExpires
    \/ \E d \in DocumentSet : RecordConsent(d)
    \/ RequestDeletion \/ CancelDeletion
    \/ SweepCopy \/ SweepDelete \/ SweepFails
    \/ \E k \in Payments : Checkout(k) \/ Confirm(k)
    \/ \E raised \in SUBSET DocumentSet : Restart(raised)
    \/ Tick

(* The clock runs, the sweeper's ticker goes on, and not every sweep fails.   *)
Spec == Init /\ [][Next]_vars /\ WF_vars(Tick) /\ WF_vars(SweepCopy) /\ SF_vars(SweepDelete)

-----------------------------------------------------------------------------
(* What the owner was told they agreed to is never asked of them again while  *)
(* it is the version in force, though registration records its agreements one *)
(* by one and the other document's version may change in between              *)
(* (privacy_service.rs state).                                                *)
AgreeingSettles == \A d \in Outstanding : <<d, version[d]>> \notin told

(* A payment that was confirmed is in the books: its row is there, or it was  *)
(* copied before the sweep deleted the account ("a business has to be able to *)
(* account for money it received", retention.rs purge_accounts). Left out are *)
(* payments confirmed while a sweep is between its two statements.            *)
MoneyAccountedFor == received \subseteq kept \cup {k \in Payments : payment[k] = "paid"}

(* A sweep that commits leaves no account whose date has passed, however      *)
(* often its owner asked again ("Asking twice does not move the date further  *)
(* away", consent_repository.rs request_deletion).                            *)
SweepKeepsTheDate ==
    [][SweepDelete /\ promised # 0 /\ promised <= sweep.at => owner'.id = 0]_vars

(* An account goes only if its owner asked for it, has not called it off, and *)
(* the date they were given has come; calling it off while the sweep is under *)
(* way counts (retention.rs purge_accounts).                                  *)
NeverBeforeTheDate ==
    [][owner.id # 0 /\ owner'.id # owner.id => promised # 0 /\ promised <= now]_vars

(* A sign-in is not refused for ever: the counter expires, unless an EXPIRE   *)
(* was lost, or its sender has not sent it yet (rate_limiter.rs check).       *)
CounterExpires ==
    attempts.count > 0 /\ ~attempts.ttl
        => attempts.lost \/ \E p \in Phones : phone[p].step = "first"

(* Who asks for deletion and does not call it off is deleted, though sweeps   *)
(* fail (retention.rs spawn_retention_sweeper).                               *)
AskedIsDeleted == promised # 0 ~> promised = 0
=============================================================================
