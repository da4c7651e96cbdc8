------------------------------ MODULE Invites ------------------------------
(* A staff member of a store, the join codes the owner hands out for them and *)
(* the phones that join with a code: requests of the owner and of several     *)
(* phones interleave query by query, with the row locks and the snapshots of  *)
(* READ COMMITTED (staff_service.rs, staff_repository.rs, auth_service.rs     *)
(* join).                                                                     *)
EXTENDS Integers

CONSTANTS
    Requests,      \* requests of the owner served at the same time
    Phones,        \* phones on which a code is typed
    InviteLifetime,
    MaxCodes,      \* bound: codes ever made
    MaxTime        \* bound: the clock

ASSUME InvitesAssumption ==
    InviteLifetime \in Nat \ {0} /\ MaxCodes \in Nat /\ MaxTime \in Nat

VARIABLES
    now,
    staffPlan,     \* whether the owner's plan includes staff
    member,        \* the row of staff_members: "none", "on" or "removed"
    invite,        \* the rows of staff_invites, by the order of their codes
    made,          \* how many codes were made
    shown,         \* codes the owner was shown
    request,       \* per owner request: step, what it is for, codes its DELETE sees,
                   \* codes unused at its start, sessions it ends
    join,          \* per phone: step and code of its request to join
    session,       \* per phone: the row of device_sessions
    late           \* history: phones past a check when the member was removed

vars == <<now, staffPlan, member, invite, made, shown, request, join, session, late>>
owners == <<member, made, shown, request>>

Codes == 1..MaxCodes
NoInvite == [row |-> FALSE, expires |-> 0, redeemed |-> FALSE]
NoRequest == [step |-> "idle", job |-> "none", sees |-> {}, before |-> {}, ends |-> {}]
NoJoin == [step |-> "idle", code |-> 0]

Unused == {c \in Codes : invite[c].row /\ ~invite[c].redeemed}
Working == {c \in Unused : invite[c].expires > now}

(* Rows an open transaction has deleted or locked. *)
Deleting(r) == IF request[r].step = "deleted" THEN request[r].sees ELSE {}
Redeeming(p) == IF join[p].step = "locked" THEN {join[p].code} ELSE {}
HeldByOthers(r) ==
    (UNION {Deleting(q) : q \in Requests \ {r}}) \cup (UNION {Redeeming(p) : p \in Phones})

-----------------------------------------------------------------------------
(* The owner *)

(* The member is inserted; their first code follows, in another transaction.  *)
Add(r) ==
    /\ request[r] = NoRequest
    /\ staffPlan
    /\ member = "none"
    /\ member' = "on"
    /\ request' = [request EXCEPT ![r].step = "begun", ![r].job = "invite"]
    /\ UNCHANGED <<now, staffPlan, invite, made, shown, join, session>>

Reinvite(r) ==
    /\ request[r] = NoRequest
    /\ staffPlan
    /\ member = "on"
    /\ request' = [request EXCEPT ![r].step = "begun", ![r].job = "invite",
                                  ![r].before = Unused]
    /\ UNCHANGED <<now, staffPlan, member, invite, made, shown, join, session>>

(* remove() begins: the member's row is held, which another removal waits     *)
(* for, and the sessions open now are ended; others see neither until the     *)
(* commit.                                                                    *)
Remove(r) ==
    /\ request[r] = NoRequest
    /\ member = "on" /\ \A q \in Requests : request[q].job # "remove"
    /\ request' = [request EXCEPT ![r].step = "begun", ![r].job = "remove",
                                  ![r].ends = {p \in Phones : session[p] = "live"}]
    /\ UNCHANGED <<now, staffPlan, member, invite, made, shown, join, session>>

(* The DELETE of replace_invite and of remove() sees what is committed when   *)
(* it starts, waits for rows other transactions hold, and takes those that    *)
(* are still unused.                                                          *)
StartDelete(r) ==
    /\ request[r].step = "begun"
    /\ request[r].job = "invite" => made < MaxCodes
    /\ request' = [request EXCEPT ![r].step = "deleting", ![r].sees = Unused]
    /\ UNCHANGED <<now, staffPlan, member, invite, made, shown, join, session>>

FinishDelete(r) ==
    /\ request[r].step = "deleting"
    /\ request[r].sees \cap HeldByOthers(r) = {}
    /\ request' = [request EXCEPT ![r].step = "deleted", ![r].sees = @ \cap Unused]
    /\ UNCHANGED <<now, staffPlan, member, invite, made, shown, join, session>>

(* Mutant: an earlier code is left to expire. *)
InsertBeside(r) ==
    /\ request[r].step = "deleted" /\ request[r].job = "invite" /\ made < MaxCodes
    /\ made' = made + 1
    /\ invite' = [invite EXCEPT ![made + 1] =
                     [row |-> TRUE, expires |-> now + InviteLifetime, redeemed |-> FALSE]]
    /\ request' = [request EXCEPT ![r] = NoRequest]
    /\ shown' \in {shown, shown \cup {made + 1}}
    /\ UNCHANGED <<now, staffPlan, member, join, session>>

(* The INSERT, the commit, and the answer that shows the code to the owner,   *)
(* if it arrives.                                                             *)
InsertInvite(r) ==
    /\ request[r].step = "deleted" /\ request[r].job = "invite" /\ made < MaxCodes
    /\ made' = made + 1
    /\ invite' = [c \in Codes |->
          IF c = made + 1
          THEN [row |-> TRUE, expires |-> now + InviteLifetime, redeemed |-> FALSE]
          ELSE IF c \in request[r].sees THEN NoInvite ELSE invite[c]]
    /\ request' = [request EXCEPT ![r] = NoRequest]
    /\ shown' \in {shown, shown \cup {made + 1}}
    /\ UNCHANGED <<now, staffPlan, member, join, session>>

(* The member, the sessions and the unused codes go when the removal commits. *)
CommitRemove(r) ==
    /\ request[r].step = "deleted" /\ request[r].job = "remove"
    /\ member' = "removed"
    /\ session' = [p \in Phones |-> IF p \in request[r].ends THEN "revoked" ELSE session[p]]
    /\ invite' = [c \in Codes |-> IF c \in request[r].sees THEN NoInvite ELSE invite[c]]
    /\ request' = [request EXCEPT ![r] = NoRequest]
    /\ UNCHANGED <<now, staffPlan, made, shown, join>>

(* A payment or a lapse. *)
PlanChanges ==
    /\ staffPlan' = ~staffPlan
    /\ UNCHANGED <<now, owners, invite, join, session>>

(* The request ends: an open transaction is undone.                           *)
RequestFails(r) ==
    /\ request[r] # NoRequest
    /\ request' = [request EXCEPT ![r] = NoRequest]
    /\ UNCHANGED <<now, staffPlan, member, invite, made, shown, join, session>>

-----------------------------------------------------------------------------
(* A phone joining *)

(* The plan is looked at before the code is used up; a code that does not     *)
(* work is left for redeem to refuse.                                         *)
Type(p, c) ==
    /\ join[p] = NoJoin /\ session[p] = "none"
    /\ c \in shown
    /\ c \in Working => staffPlan
    /\ join' = [join EXCEPT ![p] = [step |-> "checked", code |-> c]]
    /\ UNCHANGED <<now, owners, staffPlan, invite, session>>

(* Mutant: the row is read without FOR UPDATE. *)
ReadInvite(p) ==
    /\ join[p].step = "checked"
    /\ join' = [join EXCEPT ![p] = IF join[p].code \in Working /\ member = "on"
                                   THEN [@ EXCEPT !.step = "locked"] ELSE NoJoin]
    /\ UNCHANGED <<now, owners, staffPlan, invite, session>>

LockInvite(p) ==
    LET c == join[p].code
    IN  /\ join[p].step = "checked"
        /\ \A r \in Requests : c \notin Deleting(r)
        /\ \A q \in Phones : c \notin Redeeming(q)
        /\ join' = [join EXCEPT ![p] = IF c \in Working /\ member = "on"
                                       THEN [@ EXCEPT !.step = "locked"] ELSE NoJoin]
        /\ UNCHANGED <<now, owners, staffPlan, invite, session>>

CommitRedeem(p) ==
    /\ join[p].step = "locked"
    /\ invite' = [invite EXCEPT ![join[p].code].redeemed = TRUE]
    /\ join' = [join EXCEPT ![p].step = "redeemed"]
    /\ UNCHANGED <<now, owners, staffPlan, session>>

(* The session is opened in a transaction of its own. *)
OpenSession(p) ==
    /\ join[p].step = "redeemed"
    /\ session' = [session EXCEPT ![p] = "live"]
    /\ join' = [join EXCEPT ![p].step = "opened"]
    /\ UNCHANGED <<now, owners, staffPlan, invite>>

(* Mutant: the session is looked at, the member it belongs to is not. *)
ResolveSession(p) ==
    /\ join[p].step = "opened"
    /\ join' = [join EXCEPT ![p] = IF session[p] = "live"
                                   THEN [@ EXCEPT !.step = "resolved"] ELSE NoJoin]
    /\ UNCHANGED <<now, owners, staffPlan, invite, session>>

(* The new session is resolved to its actor, which a removal in between       *)
(* prevents.                                                                  *)
Resolve(p) ==
    /\ join[p].step = "opened"
    /\ join' = [join EXCEPT ![p] = IF session[p] = "live" /\ member = "on"
                                   THEN [@ EXCEPT !.step = "resolved"] ELSE NoJoin]
    /\ UNCHANGED <<now, owners, staffPlan, invite, session>>

(* The refresh token is stored, whatever happened to the member meanwhile,    *)
(* and the phone gets its tokens.                                             *)
StoreToken(p) ==
    /\ join[p].step = "resolved"
    /\ join' = [join EXCEPT ![p].step = "joined"]
    /\ UNCHANGED <<now, owners, staffPlan, invite, session>>

(* A request that fails before its answer; a code already used up stays used  *)
(* up.                                                                        *)
JoinFails(p) ==
    /\ join[p].step \in {"checked", "locked", "redeemed", "opened", "resolved"}
    /\ join' = [join EXCEPT ![p] = NoJoin]
    /\ UNCHANGED <<now, owners, staffPlan, invite, session>>

Tick ==
    /\ now < MaxTime
    /\ now' = now + 1
    /\ UNCHANGED <<owners, staffPlan, invite, join, session>>

-----------------------------------------------------------------------------
Init ==
    /\ now = 0
    /\ staffPlan = TRUE
    /\ member = "none"
    /\ invite = [c \in Codes |-> NoInvite]
    /\ made = 0
    /\ shown = {}
    /\ request = [r \in Requests |-> NoRequest]
    /\ join = [p \in Phones |-> NoJoin]
    /\ session = [p \in Phones |-> "none"]
    /\ late = {}

ServiceStep ==
    \/ \E r \in Requests :
          \/ Add(r) \/ Reinvite(r) \/ StartDelete(r) \/ FinishDelete(r) \/ InsertInvite(r)
          \/ Remove(r) \/ CommitRemove(r) \/ RequestFails(r)
    \/ \E p \in Phones :
          \/ \E c \in Codes : Type(p, c)
          \/ LockInvite(p) \/ CommitRedeem(p) \/ OpenSession(p)
          \/ Resolve(p) \/ StoreToken(p) \/ JoinFails(p)
    \/ PlanChanges \/ Tick

(* A removal overtakes the phones that hold their code, or whose session was  *)
(* resolved, until they go on.                                                *)
Overtaken == {"locked", "resolved"}
NoteRemoval ==
    late' = IF member # "removed" /\ member' = "removed"
            THEN {p \in Phones : join[p].step \in Overtaken}
            ELSE {p \in late : join'[p].step \in Overtaken}

Next == ServiceStep /\ NoteRemoval

Spec == Init /\ [][Next]_vars

-----------------------------------------------------------------------------
(* A code admits one phone, though several type it at once and requests fail  *)
(* half way ("two phones typing the same code cannot both join",              *)
(* staff_repository.rs redeem).                                               *)
OneCodeOnePhone ==
    \A p, q \in Phones :
        {join[p].step, join[q].step} \subseteq {"redeemed", "opened", "resolved", "joined"}
            /\ join[p].code = join[q].code => p = q

(* Once the member is removed, a code of theirs is used up only by a phone    *)
(* that held it at that moment, and tokens go only to a phone whose session   *)
(* was resolved by then: not to one with a code that a request which had      *)
(* found the member before inserted after the removal looked for codes, and   *)
(* not to one whose session the removal did not see (staff_service.rs         *)
(* reinvite, staff_repository.rs remove and redeem, auth_service.rs join).    *)
RemovedNeverJoins ==
    [][member = "removed" => \A p \in Phones :
          join[p].step # join'[p].step /\ join'[p].step \in {"redeemed", "joined"}
              => p \in late]_vars

(* A code that was out when the owner asked for a new one has stopped working *)
(* when the new one is shown, unless a phone had used it by then ("Any        *)
(* earlier unused code stops working", staff_service.rs reinvite).            *)
NewCodeRetiresOld ==
    [][\A r \in Requests : request[r].step = "deleted" /\ request'[r].step = "idle"
          /\ made' > made => request[r].before \cap Working' = {}]_vars
=============================================================================
