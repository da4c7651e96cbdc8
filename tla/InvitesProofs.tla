---------------------------- MODULE InvitesProofs ----------------------------
(* Proofs about Invites and PrivateRecords: what the owner grants a staff     *)
(* member and takes back, as the server keeps it and as the phone follows.    *)
(* Invites: a code admits one phone, only a phone that the removal overtook   *)
(* joins as a member who was removed, and a new code retires those before it, *)
(* for any number of requests and phones, of codes, and any lifetime of a     *)
(* code. PrivateRecords: what a staff member has not uploaded stays on their  *)
(* screen, and an undisturbed phone that is up to date has what it may see    *)
(* and nothing else, for any records, permissions, refusals and incidents.    *)
(*                                                                            *)
(* A code that was made and is not unused any more never becomes unused again *)
(* (a new code is one that was never there). The row of a code that a phone   *)
(* is using up stays until that phone is done, as no DELETE passes a row      *)
(* that is locked and no lock one that is deleted. A DELETE that starts after *)
(* a request noted the unused codes sees all that are unused still.           *)
EXTENDS Invites, PrivateRecords, WellFoundedInduction, TLAPS

InviteRow == [row : BOOLEAN, expires : Int, redeemed : BOOLEAN]
RequestState == [step : {"idle", "begun", "deleting", "deleted"},
                 job : {"none", "invite", "remove"},
                 sees : SUBSET Codes, before : SUBSET Codes, ends : SUBSET Phones]
JoinState == [step : {"idle", "checked", "locked", "redeemed", "opened", "resolved", "joined"},
              code : 0..MaxCodes]

Types ==
    /\ now \in Nat
    /\ member \in {"none", "on", "removed"}
    /\ invite \in [Codes -> InviteRow]
    /\ made \in 0..MaxCodes
    /\ shown \subseteq Codes
    /\ request \in [Requests -> RequestState]
    /\ join \in [Phones -> JoinState]

(* Only codes that were made have a row.                                      *)
Minted == \A c \in Unused : c <= made

Using(p) == join[p].step = "locked"
Used(p) == join[p].step \in {"redeemed", "opened", "resolved", "joined"}

(* The code a phone holds is there, and no transaction is deleting it.        *)
HeldIsThere == \A p \in Phones : Using(p) =>
    /\ join[p].code \in Unused
    /\ \A r \in Requests : join[p].code \notin Deleting(r)

(* A code that was used up is not to be used again.                           *)
UsedIsSpent == \A p \in Phones : Used(p) => join[p].code <= made /\ join[p].code \notin Unused

OneHolder == \A p, q \in Phones :
    (Using(p) \/ Used(p)) /\ (Using(q) \/ Used(q)) /\ join[p].code = join[q].code => p = q

(* What was unused when the owner asked and still is will be deleted.         *)
OldIsSeen == \A r \in Requests :
    /\ \A c \in request[r].before : c <= made
    /\ request[r].step \in {"deleting", "deleted"} => request[r].before \cap Unused \subseteq
                                                        request[r].sees

IInv == Types /\ Minted /\ HeldIsThere /\ UsedIsSpent /\ OneHolder /\ OldIsSeen

-----------------------------------------------------------------------------
(* Steps of one request of the owner, and of one phone.                       *)
RequestStep(r, x) == x \in RequestState /\ request' = [request EXCEPT ![r] = x]
JoinStep(p, x) == x \in JoinState /\ join' = [join EXCEPT ![p] = x]

(* The states that the steps of a request lead to.                            *)
LEMMA RequestFields ==
    ASSUME Types, NEW r \in Requests
    PROVE  /\ NoRequest \in RequestState /\ NoRequest.step = "idle" /\ NoRequest.before = {}
           /\ Add(r) => RequestStep(r, [NoRequest EXCEPT !.step = "begun", !.job = "invite"])
           /\ Reinvite(r) => RequestStep(r, [NoRequest EXCEPT !.step = "begun", !.job = "invite",
                                                              !.before = Unused])
           /\ Remove(r) => RequestStep(r, [NoRequest EXCEPT !.step = "begun", !.job = "remove",
                                             !.ends = {p \in Phones : session[p] = "live"}])
<1>1. request \in [Requests -> RequestState] /\ Unused \in SUBSET Codes
  BY DEF Types, Unused
<1>2. NoRequest \in RequestState /\ NoRequest.step = "idle" /\ NoRequest.before = {}
  BY DEF NoRequest, RequestState
<1>3. ASSUME Add(r)
      PROVE  RequestStep(r, [NoRequest EXCEPT !.step = "begun", !.job = "invite"])
  <2>1. [NoRequest EXCEPT !.step = "begun", !.job = "invite"] \in RequestState
    BY DEF NoRequest, RequestState
  <2>2. request' = [request EXCEPT ![r] = [NoRequest EXCEPT !.step = "begun", !.job = "invite"]]
    BY <1>1, <1>3 DEF Add
  <2> QED  BY <2>1, <2>2 DEF RequestStep
<1>4. ASSUME Reinvite(r)
      PROVE  RequestStep(r, [NoRequest EXCEPT !.step = "begun", !.job = "invite",
                                              !.before = Unused])
  <2>1. [NoRequest EXCEPT !.step = "begun", !.job = "invite", !.before = Unused] \in RequestState
    BY <1>1 DEF NoRequest, RequestState
  <2>2. request' = [request EXCEPT ![r] = [NoRequest EXCEPT !.step = "begun", !.job = "invite",
                                                            !.before = Unused]]
    BY <1>1, <1>4 DEF Reinvite
  <2> QED  BY <2>1, <2>2 DEF RequestStep
<1>5. ASSUME Remove(r)
      PROVE  RequestStep(r, [NoRequest EXCEPT !.step = "begun", !.job = "remove",
                                              !.ends = {p \in Phones : session[p] = "live"}])
  <2> DEFINE ends == {p \in Phones : session[p] = "live"}
  <2>1. ends \in SUBSET Phones
    OBVIOUS
  <2> HIDE DEF ends
  <2>2. [NoRequest EXCEPT !.step = "begun", !.job = "remove", !.ends = ends] \in RequestState
    BY <2>1 DEF NoRequest, RequestState
  <2>3. request' = [request EXCEPT ![r] = [NoRequest EXCEPT !.step = "begun", !.job = "remove",
                                                            !.ends = ends]]
    BY <1>1, <1>5 DEF Remove, ends
  <2> QED  BY <2>2, <2>3 DEF RequestStep, ends
<1> QED  BY <1>2, <1>3, <1>4, <1>5

(* A DELETE: it starts, or ends, with what it sees.                           *)
LEMMA DeleteFields ==
    ASSUME Types, NEW r \in Requests
    PROVE  /\ StartDelete(r) => \E x : /\ RequestStep(r, x) /\ x.step = "deleting"
                                       /\ x.before = request[r].before /\ x.sees = Unused
           /\ FinishDelete(r) => \E x : /\ RequestStep(r, x) /\ x.step = "deleted"
                                        /\ x.before = request[r].before
                                        /\ x.sees = request[r].sees \cap Unused
<1> DEFINE y == request[r]
           to(step, sees) == [step |-> step, job |-> y.job, sees |-> sees, before |-> y.before,
                              ends |-> y.ends]
<1>1. y \in RequestState /\ Unused \in SUBSET Codes /\ request \in [Requests -> RequestState]
  BY DEF Types, Unused
<1>2. \A sees \in SUBSET Codes :
        /\ to("deleting", sees) \in RequestState /\ to("deleted", sees) \in RequestState
        /\ to("deleting", sees) = [y EXCEPT !.step = "deleting", !.sees = sees]
        /\ to("deleted", sees) = [y EXCEPT !.step = "deleted", !.sees = sees]
  <2> SUFFICES ASSUME NEW sees \in SUBSET Codes
               PROVE  /\ to("deleting", sees) \in RequestState
                      /\ to("deleted", sees) \in RequestState
                      /\ to("deleting", sees) = [y EXCEPT !.step = "deleting", !.sees = sees]
                      /\ to("deleted", sees) = [y EXCEPT !.step = "deleted", !.sees = sees]
    OBVIOUS
  <2> HIDE DEF y
  <2>1. ASSUME NEW step PROVE [y EXCEPT !.step = step, !.sees = sees] = to(step, sees)
    <3>1. [y EXCEPT !.step = step] = to(step, y.sees)
      BY <1>1 DEF RequestState
    <3>2. [to(step, y.sees) EXCEPT !.sees = sees] = to(step, sees)
      OBVIOUS
    <3> QED  BY <3>1, <3>2
  <2>2. to("deleting", sees) \in RequestState /\ to("deleted", sees) \in RequestState
    BY <1>1 DEF RequestState
  <2> QED  BY <2>1, <2>2
<1>3. ASSUME StartDelete(r)
      PROVE  \E x : /\ RequestStep(r, x) /\ x.step = "deleting"
                    /\ x.before = request[r].before /\ x.sees = Unused
  <2>1. request' = [request EXCEPT ![r] = [y EXCEPT !.step = "deleting", !.sees = Unused]]
    BY <1>1, <1>3 DEF StartDelete
  <2>2. RequestStep(r, to("deleting", Unused))
    BY <1>1, <1>2, <2>1 DEF RequestStep
  <2> QED  BY <2>2
<1>4. ASSUME FinishDelete(r)
      PROVE  \E x : /\ RequestStep(r, x) /\ x.step = "deleted"
                    /\ x.before = request[r].before /\ x.sees = request[r].sees \cap Unused
  <2>1. request' = [request EXCEPT ![r] = [y EXCEPT !.step = "deleted",
                                                    !.sees = y.sees \cap Unused]]
    BY <1>1, <1>4 DEF FinishDelete
  <2>2. y.sees \cap Unused \in SUBSET Codes
    BY <1>1
  <2>3. RequestStep(r, to("deleted", y.sees \cap Unused))
    BY <1>1, <1>2, <2>1, <2>2 DEF RequestStep
  <2> QED  BY <2>3
<1> QED  BY <1>3, <1>4

(* A step of a request that leaves the codes alone keeps what it noted, sees  *)
(* what it noted and deletes nothing that is held.                            *)
LEMMA RequestStepKeepsIInv ==
    ASSUME IInv, NEW r \in Requests, NEW x, RequestStep(r, x),
           UNCHANGED <<now, invite, made, shown, join>>,
           member' \in {"none", "on", "removed"},
           \A c \in x.before : c <= made,
           x.step \in {"deleting", "deleted"} => x.before \cap Unused \subseteq x.sees,
           x.step = "deleted" => \A p \in Phones : Using(p) => join[p].code \notin x.sees
    PROVE  IInv'
<1>1. /\ request' \in [Requests -> RequestState] /\ request'[r] = x
      /\ \A q \in Requests : q # r => request'[q] = request[q]
  BY DEF IInv, Types, RequestStep
<1>2. Unused' = Unused /\ \A p \in Phones : Using(p)' = Using(p) /\ Used(p)' = Used(p)
  BY DEF Unused, Using, Used
<1>3. Types'
  BY <1>1 DEF IInv, Types
<1>4. HeldIsThere'
  <2> SUFFICES ASSUME NEW p \in Phones, Using(p), NEW q \in Requests
               PROVE  join[p].code \notin Deleting(q)'
    BY <1>2 DEF IInv, HeldIsThere
  <2>1. CASE q = r
    BY <1>1, <2>1 DEF Deleting
  <2>2. CASE q # r
    BY <1>1, <2>2 DEF IInv, HeldIsThere, Deleting
  <2> QED  BY <2>1, <2>2
<1>5. OldIsSeen'
  BY <1>1, <1>2 DEF IInv, OldIsSeen
<1>6. Minted' /\ UsedIsSpent' /\ OneHolder'
  BY <1>2 DEF IInv, Minted, UsedIsSpent, OneHolder
<1> QED  BY <1>3, <1>4, <1>5, <1>6 DEF IInv

LEMMA OwnerKeepsIInv ==
    ASSUME IInv, NEW r \in Requests,
           Add(r) \/ Reinvite(r) \/ StartDelete(r) \/ FinishDelete(r) \/ Remove(r) \/ RequestFails(r)
    PROVE  IInv'
<1>1. /\ Types /\ member \in {"none", "on", "removed"}
      /\ UNCHANGED <<now, invite, made, shown, join>>
      /\ member' \in {"none", "on", "removed"}
  BY DEF IInv, Types, Add, Reinvite, StartDelete, FinishDelete, Remove, RequestFails
<1>2. (\A c \in Unused : c <= made) /\ \A c \in request[r].before : c <= made
  BY DEF IInv, Minted, OldIsSeen
<1>3. \A p \in Phones : Using(p) => join[p].code \in Redeeming(p)
  BY DEF Using, Redeeming
<1>4. CASE Add(r)
  <2> DEFINE x == [NoRequest EXCEPT !.step = "begun", !.job = "invite"]
  <2>1. RequestStep(r, x) /\ x.step = "begun" /\ x.before = {}
    BY <1>1, <1>4, RequestFields DEF NoRequest
  <2> HIDE DEF x
  <2> QED  BY <1>1, <2>1, RequestStepKeepsIInv
<1>5. CASE Reinvite(r)
  <2> DEFINE x == [NoRequest EXCEPT !.step = "begun", !.job = "invite", !.before = Unused]
  <2>1. RequestStep(r, x) /\ x.step = "begun" /\ x.before = Unused
    BY <1>1, <1>5, RequestFields DEF NoRequest
  <2> HIDE DEF x
  <2> QED  BY <1>1, <1>2, <2>1, RequestStepKeepsIInv
<1>6. CASE Remove(r)
  <2> DEFINE x == [NoRequest EXCEPT !.step = "begun", !.job = "remove",
                                    !.ends = {p \in Phones : session[p] = "live"}]
  <2>1. RequestStep(r, x) /\ x.step = "begun" /\ x.before = {}
    BY <1>1, <1>6, RequestFields DEF NoRequest
  <2> HIDE DEF x
  <2> QED  BY <1>1, <2>1, RequestStepKeepsIInv
<1>7. CASE RequestFails(r)
  <2>1. RequestStep(r, NoRequest) /\ NoRequest.step = "idle" /\ NoRequest.before = {}
    BY <1>1, <1>7, RequestFields DEF RequestFails, RequestStep
  <2> QED  BY <1>1, <2>1, RequestStepKeepsIInv
<1>8. CASE StartDelete(r)
  <2>1. PICK x : RequestStep(r, x) /\ x.step = "deleting" /\ x.before = request[r].before
                 /\ x.sees = Unused
    BY <1>1, <1>8, DeleteFields
  <2> QED  BY <1>1, <1>2, <2>1, RequestStepKeepsIInv
<1>9. CASE FinishDelete(r)
  <2>1. PICK x : RequestStep(r, x) /\ x.step = "deleted" /\ x.before = request[r].before
                 /\ x.sees = request[r].sees \cap Unused
    BY <1>1, <1>9, DeleteFields
  <2>2. request[r].before \cap Unused \subseteq request[r].sees
    BY <1>9 DEF IInv, OldIsSeen, FinishDelete
  <2>3. \A p \in Phones : Using(p) => join[p].code \notin request[r].sees
    <3> SUFFICES ASSUME NEW p \in Phones, Using(p) PROVE join[p].code \notin request[r].sees
      OBVIOUS
    <3>1. join[p].code \in Redeeming(p) /\ Redeeming(p) \in {Redeeming(q) : q \in Phones}
      BY <1>3
    <3>2. join[p].code \in UNION {Redeeming(q) : q \in Phones}
      BY <3>1
    <3>3. join[p].code \in HeldByOthers(r)
      BY <3>2 DEF HeldByOthers
    <3>4. request[r].sees \cap HeldByOthers(r) = {}
      BY <1>9 DEF FinishDelete
    <3> QED  BY <3>3, <3>4
  <2> QED  BY <1>1, <1>2, <2>1, <2>2, <2>3, RequestStepKeepsIInv
<1> QED  BY <1>4, <1>5, <1>6, <1>7, <1>8, <1>9

(* A commit takes the codes that its DELETE saw, and may add one.             *)
Committed(r) ==
    /\ request' = [request EXCEPT ![r] = NoRequest]
    /\ made' \in {made, made + 1} /\ made' \in 0..MaxCodes
    /\ invite' \in [Codes -> InviteRow]
    /\ \A c \in Codes :
          \/ c = made' /\ c # made
          \/ invite'[c] = IF c \in request[r].sees THEN NoInvite ELSE invite[c]
    /\ shown' \subseteq Codes
    /\ member' \in {"none", "on", "removed"}
    /\ UNCHANGED <<now, join>>

LEMMA CommitFacts ==
    ASSUME Types, NEW r \in Requests, InsertInvite(r) \/ CommitRemove(r)
    PROVE  Committed(r) /\ request[r].step = "deleted"
<1>1. /\ now \in Nat /\ made \in 0..MaxCodes /\ MaxCodes \in Nat /\ InviteLifetime \in Nat
      /\ invite \in [Codes -> InviteRow] /\ shown \subseteq Codes
      /\ member \in {"none", "on", "removed"}
  BY InvitesAssumption DEF Types
<1>2. NoInvite \in InviteRow
  BY DEF NoInvite, InviteRow
<1>3. CASE InsertInvite(r)
  <2> DEFINE new == [row |-> TRUE, expires |-> now + InviteLifetime, redeemed |-> FALSE]
  <2>1. new \in InviteRow
    BY <1>1 DEF InviteRow
  <2> HIDE DEF new
  <2>2. made' = made + 1 /\ made + 1 \in Codes /\ made + 1 # made
    BY <1>1, <1>3 DEF InsertInvite, Codes
  <2>3. invite' = [c \in Codes |-> IF c = made + 1 THEN new
                                   ELSE IF c \in request[r].sees THEN NoInvite ELSE invite[c]]
    BY <1>3 DEF InsertInvite, new
  <2>4. invite' \in [Codes -> InviteRow]
    BY <1>1, <1>2, <2>1, <2>3
  <2>5. \A c \in Codes : c # made + 1 =>
          invite'[c] = IF c \in request[r].sees THEN NoInvite ELSE invite[c]
    BY <2>3
  <2>6. made' \in 0..MaxCodes
    BY <1>1, <2>2 DEF Codes
  <2>7. /\ request' = [request EXCEPT ![r] = NoRequest] /\ shown' \subseteq Codes
        /\ UNCHANGED <<now, join, member>> /\ request[r].step = "deleted"
    BY <1>1, <1>3, <2>2 DEF InsertInvite
  <2> QED  BY <1>1, <2>2, <2>4, <2>5, <2>6, <2>7 DEF Committed
<1>4. CASE CommitRemove(r)
  <2>1. invite' = [c \in Codes |-> IF c \in request[r].sees THEN NoInvite ELSE invite[c]]
    BY <1>4 DEF CommitRemove
  <2>2. invite' \in [Codes -> InviteRow]
    BY <1>1, <1>2, <2>1
  <2>3. \A c \in Codes : invite'[c] = IF c \in request[r].sees THEN NoInvite ELSE invite[c]
    BY <2>1
  <2>4. /\ request' = [request EXCEPT ![r] = NoRequest] /\ member' = "removed"
        /\ UNCHANGED <<now, join, shown, made>> /\ request[r].step = "deleted"
    BY <1>4 DEF CommitRemove
  <2> QED  BY <1>1, <2>2, <2>3, <2>4 DEF Committed
<1> QED  BY <1>3, <1>4

LEMMA CommitKeepsIInv ==
    ASSUME IInv, NEW r \in Requests, InsertInvite(r) \/ CommitRemove(r)
    PROVE  IInv' /\ \A c \in Codes : c <= made /\ c \in Unused' => c \in Unused \ request[r].sees
<1>1. Committed(r) /\ request[r].step = "deleted" /\ Types
  BY CommitFacts DEF IInv
<1>2. NoRequest \in RequestState /\ NoRequest.step = "idle" /\ NoRequest.before = {}
  BY DEF NoRequest, RequestState
<1>3. /\ request' \in [Requests -> RequestState] /\ request'[r] = NoRequest
      /\ \A q \in Requests : q # r => request'[q] = request[q]
  BY <1>1, <1>2 DEF Types, Committed
<1>4. made \in Nat /\ made' \in Nat /\ made <= made' /\ made' <= made + 1 /\ Codes \subseteq Nat
  BY <1>1, InvitesAssumption DEF Types, Committed, Codes
<1>a. /\ \A c \in Codes : c \in Nat /\ (c <= made => ~(c = made' /\ c # made))
      /\ ~NoInvite.row
  BY <1>1, <1>4 DEF Committed, NoInvite
<1>5. \A c \in Codes : c <= made /\ c \in Unused' => c \in Unused \ request[r].sees
  BY <1>1, <1>a DEF Committed, Unused
<1>6. \A c \in Unused' : c \in Codes /\ (c \in Unused \ request[r].sees \/ c = made')
  BY <1>1, <1>a DEF Committed, Unused
<1>7. \A c \in Unused : c \in Codes /\ c <= made /\ (c \notin request[r].sees => c \in Unused')
  <2> SUFFICES ASSUME NEW c \in Unused
               PROVE  c \in Codes /\ c <= made /\ (c \notin request[r].sees => c \in Unused')
    OBVIOUS
  <2>1. c \in Codes /\ c <= made
    BY DEF IInv, Minted, Unused
  <2>2. invite'[c] = IF c \in request[r].sees THEN NoInvite ELSE invite[c]
    BY <1>1, <1>a, <2>1 DEF Committed
  <2> QED  BY <2>1, <2>2 DEF Unused
<1>8. Types'
  <2>1. /\ now' \in Nat /\ member' \in {"none", "on", "removed"} /\ made' \in 0..MaxCodes
        /\ shown' \subseteq Codes /\ join' \in [Phones -> JoinState]
        /\ invite' \in [Codes -> InviteRow]
    BY <1>1 DEF Types, Committed
  <2> QED  BY <1>3, <2>1 DEF Types
<1>9. Minted'
  <2> SUFFICES ASSUME NEW c \in Unused' PROVE c <= made'
    BY DEF Minted
  <2>1. c \in Nat /\ (c <= made \/ c = made')
    BY <1>6, <1>7, <1>a
  <2> QED  BY <1>4, <2>1
<1>10. \A p \in Phones : join'[p] = join[p] /\ Using(p)' = Using(p) /\ Used(p)' = Used(p)
  BY <1>1 DEF Committed, Using, Used
<1>11. HeldIsThere'
  <2> SUFFICES ASSUME NEW p \in Phones, Using(p)
               PROVE  /\ join[p].code \in Unused'
                      /\ \A q \in Requests : join[p].code \notin Deleting(q)'
    BY <1>10 DEF HeldIsThere
  <2>1. join[p].code \in Unused /\ \A q \in Requests : join[p].code \notin Deleting(q)
    BY DEF IInv, HeldIsThere
  <2>2. join[p].code \notin request[r].sees
    BY <1>1, <2>1 DEF Deleting
  <2>3. \A q \in Requests : join[p].code \notin Deleting(q)'
    BY <1>2, <1>3, <2>1 DEF Deleting
  <2> QED  BY <1>7, <2>1, <2>2, <2>3
<1>12. UsedIsSpent'
  <2> SUFFICES ASSUME NEW p \in Phones, Used(p)
               PROVE  join[p].code <= made' /\ join[p].code \notin Unused'
    BY <1>10 DEF UsedIsSpent
  <2>1. join[p].code <= made /\ join[p].code \notin Unused
    BY DEF IInv, UsedIsSpent
  <2>2. join[p].code \in Nat
    BY <1>1, InvitesAssumption DEF Types, JoinState
  <2>3. join[p].code \notin Unused'
    BY <1>5, <1>6, <2>1
  <2> QED  BY <1>4, <2>1, <2>2, <2>3
<1>13. OneHolder'
  BY <1>10 DEF IInv, OneHolder
<1>14. OldIsSeen'
  <2> SUFFICES ASSUME NEW q \in Requests
               PROVE  /\ \A c \in request'[q].before : c <= made'
                      /\ request'[q].step \in {"deleting", "deleted"} =>
                           request'[q].before \cap Unused' \subseteq request'[q].sees
    BY DEF OldIsSeen
  <2>1. CASE q = r
    BY <1>2, <1>3, <2>1
  <2>2. CASE q # r
    <3>1. /\ request'[q] = request[q] /\ request[q].before \subseteq Codes
          /\ \A c \in request[q].before : c <= made
      BY <1>1, <1>3, <2>2 DEF IInv, OldIsSeen, Types, RequestState
    <3>2. ASSUME NEW c \in request[q].before
          PROVE  c <= made' /\ (c \in Unused' => c \in Unused)
      <4>1. c \in Codes /\ c \in Nat /\ c <= made
        BY <1>a, <3>1, Zenon
      <4>2. c <= made'
        BY <1>4, <4>1
      <4> QED  BY <1>5, <4>1, <4>2, Zenon
    <3>3. ASSUME request'[q].step \in {"deleting", "deleted"}
          PROVE  request'[q].before \cap Unused' \subseteq request'[q].sees
      <4>1. request[q].before \cap Unused \subseteq request[q].sees
        BY <3>1, <3>3, Zenon DEF IInv, OldIsSeen
      <4> QED  BY <3>1, <3>2, <4>1
    <3> QED  BY <3>1, <3>2, <3>3
  <2> QED  BY <2>1, <2>2
<1> QED  BY <1>5, <1>8, <1>9, <1>11, <1>12, <1>13, <1>14 DEF IInv

(* A step of a phone takes a code that nobody holds, goes on with the one it  *)
(* used up, or lets go.                                                       *)
LEMMA JoinStepKeepsIInv ==
    ASSUME IInv, NEW p \in Phones, NEW x, JoinStep(p, x),
           UNCHANGED <<now, member, invite, made, shown, request>>,
           x.step = "locked" =>
             /\ x.code \in Unused
             /\ \A r \in Requests : x.code \notin Deleting(r)
             /\ \A q \in Phones : Using(q) => join[q].code # x.code,
           x.step \in {"redeemed", "opened", "resolved", "joined"} => Used(p) /\ x.code = join[p].code
    PROVE  IInv'
<1>1. /\ join' \in [Phones -> JoinState] /\ join'[p] = x
      /\ \A q \in Phones : q # p => join'[q] = join[q]
  BY DEF IInv, Types, JoinStep
<1>2. Unused' = Unused /\ \A r \in Requests : Deleting(r)' = Deleting(r)
  BY DEF Unused, Deleting
<1>3. \A q \in Phones : q # p => Using(q)' = Using(q) /\ Used(q)' = Used(q)
  BY <1>1 DEF Using, Used
<1>4. /\ Using(p)' <=> x.step = "locked"
      /\ Used(p)' <=> x.step \in {"redeemed", "opened", "resolved", "joined"}
  BY <1>1 DEF Using, Used
<1>5. Types'
  BY <1>1 DEF IInv, Types
<1>6. HeldIsThere'
  BY <1>1, <1>2, <1>3, <1>4 DEF IInv, HeldIsThere
<1>7. UsedIsSpent'
  BY <1>1, <1>2, <1>3, <1>4 DEF IInv, UsedIsSpent
<1>8. OneHolder'
  <2>1. \A q \in Phones : q # p /\ (Using(q) \/ Used(q)) /\ (Using(p)' \/ Used(p)')
                          => join[q].code # x.code
    <3> SUFFICES ASSUME NEW q \in Phones, q # p, Using(q) \/ Used(q), Using(p)' \/ Used(p)'
                 PROVE  join[q].code # x.code
      OBVIOUS
    <3>1. CASE Using(p)'
      <4>1. Used(q) => join[q].code \notin Unused
        BY DEF IInv, UsedIsSpent
      <4> QED  BY <1>4, <3>1, <4>1
    <3>2. CASE Used(p)'
      BY <1>4, <3>2 DEF IInv, OneHolder
    <3> QED  BY <3>1, <3>2
  <2> QED  BY <1>1, <1>3, <2>1 DEF IInv, OneHolder
<1>9. Minted' /\ OldIsSeen'
  BY <1>2 DEF IInv, Minted, OldIsSeen
<1> QED  BY <1>5, <1>6, <1>7, <1>8, <1>9 DEF IInv

LEMMA JoinKeepsIInv ==
    ASSUME IInv, NEW p \in Phones,
           \/ \E c \in Codes : Type(p, c)
           \/ LockInvite(p) \/ OpenSession(p) \/ Resolve(p) \/ StoreToken(p) \/ JoinFails(p)
    PROVE  IInv'
<1>1. UNCHANGED <<now, member, invite, made, shown, request>>
  BY DEF Type, LockInvite, OpenSession, Resolve, StoreToken, JoinFails, owners
<1>2. /\ join[p] \in JoinState /\ join \in [Phones -> JoinState]
      /\ NoJoin \in JoinState /\ NoJoin.step = "idle"
  BY InvitesAssumption DEF IInv, Types, JoinState, NoJoin
<1> DEFINE to(step) == [step |-> step, code |-> join[p].code]
<1>3. \A step \in {"locked", "opened", "resolved", "joined"} :
        [join[p] EXCEPT !.step = step] = to(step) /\ to(step) \in JoinState
  BY <1>2 DEF JoinState
<1>4. CASE join' = [join EXCEPT ![p] = NoJoin]
  BY <1>1, <1>2, <1>4, JoinStepKeepsIInv DEF JoinStep
<1>5. ASSUME NEW c \in Codes, Type(p, c) PROVE IInv'
  <2> DEFINE x == [step |-> "checked", code |-> c]
  <2>1. x \in JoinState /\ x.step = "checked"
    BY DEF JoinState, Codes
  <2>2. join' = [join EXCEPT ![p] = x]
    BY <1>5 DEF Type
  <2> HIDE DEF x
  <2> QED  BY <1>1, <2>1, <2>2, JoinStepKeepsIInv DEF JoinStep
<1>6. CASE LockInvite(p) /\ ~(join' = [join EXCEPT ![p] = NoJoin])
  <2>1. /\ join' = [join EXCEPT ![p] = [join[p] EXCEPT !.step = "locked"]]
        /\ join[p].code \in Working
        /\ \A r \in Requests : join[p].code \notin Deleting(r)
        /\ \A q \in Phones : join[p].code \notin Redeeming(q)
    BY <1>6 DEF LockInvite
  <2> DEFINE x == to("locked")
  <2>2. JoinStep(p, x) /\ x.step = "locked" /\ x.code = join[p].code
    BY <1>3, <2>1 DEF JoinStep
  <2>3. x.code \in Unused /\ \A q \in Phones : Using(q) => join[q].code # x.code
    BY <2>1, <2>2 DEF Working, Redeeming, Using
  <2> HIDE DEF x
  <2> QED  BY <1>1, <2>1, <2>2, <2>3, JoinStepKeepsIInv
<1>7. CASE OpenSession(p)
  <2> DEFINE x == to("opened")
  <2>1. join' = [join EXCEPT ![p] = [join[p] EXCEPT !.step = "opened"]] /\ Used(p)
    BY <1>7 DEF OpenSession, Used
  <2>2. JoinStep(p, x) /\ x.step = "opened" /\ x.code = join[p].code
    BY <1>3, <2>1 DEF JoinStep
  <2> HIDE DEF x
  <2> QED  BY <1>1, <2>1, <2>2, JoinStepKeepsIInv
<1>8. CASE Resolve(p) /\ ~(join' = [join EXCEPT ![p] = NoJoin])
  <2> DEFINE x == to("resolved")
  <2>1. join' = [join EXCEPT ![p] = [join[p] EXCEPT !.step = "resolved"]] /\ Used(p)
    BY <1>8 DEF Resolve, Used
  <2>2. JoinStep(p, x) /\ x.step = "resolved" /\ x.code = join[p].code
    BY <1>3, <2>1 DEF JoinStep
  <2> HIDE DEF x
  <2> QED  BY <1>1, <2>1, <2>2, JoinStepKeepsIInv
<1>a. CASE StoreToken(p)
  <2> DEFINE x == to("joined")
  <2>1. join' = [join EXCEPT ![p] = [join[p] EXCEPT !.step = "joined"]] /\ Used(p)
    BY <1>a DEF StoreToken, Used
  <2>2. JoinStep(p, x) /\ x.step = "joined" /\ x.code = join[p].code
    BY <1>3, <2>1 DEF JoinStep
  <2> HIDE DEF x
  <2> QED  BY <1>1, <2>1, <2>2, JoinStepKeepsIInv
<1>9. JoinFails(p) => join' = [join EXCEPT ![p] = NoJoin]
  BY DEF JoinFails
<1> QED  BY <1>4, <1>5, <1>6, <1>7, <1>8, <1>9, <1>a

(* The phone that holds a code uses it up.                                    *)
LEMMA CommitRedeemKeepsIInv ==
    ASSUME IInv, NEW p \in Phones, CommitRedeem(p)
    PROVE  IInv'
<1> DEFINE code == join[p].code
           x == [step |-> "redeemed", code |-> code]
<1>1. /\ Types /\ Using(p) /\ code \in Unused /\ code \in Codes /\ code <= made
      /\ join[p] \in JoinState /\ code \in 0..MaxCodes
  BY DEF IInv, HeldIsThere, Minted, CommitRedeem, Using, Unused, Types, JoinState
<1>2. UNCHANGED <<now, member, made, shown, request>>
  BY DEF CommitRedeem, owners
<1>3. x \in JoinState /\ x.step = "redeemed" /\ x.code = code
  BY <1>1 DEF JoinState
<1>4. /\ join' \in [Phones -> JoinState] /\ join'[p] = x
      /\ \A q \in Phones : q # p => join'[q] = join[q]
  <2>1. [join[p] EXCEPT !.step = "redeemed"] = x
    BY <1>1 DEF JoinState
  <2>2. join' = [join EXCEPT ![p] = x]
    BY <2>1 DEF CommitRedeem
  <2> HIDE DEF x
  <2> QED  BY <1>1, <1>3, <2>2 DEF Types
<1> HIDE DEF x
<1>5. invite' \in [Codes -> InviteRow] /\ Unused' = Unused \ {code}
  <2>1. invite' = [invite EXCEPT ![code].redeemed = TRUE]
    BY DEF CommitRedeem
  <2>2. invite \in [Codes -> InviteRow]
    BY <1>1 DEF Types
  <2>3. invite' \in [Codes -> InviteRow]
    BY <1>1, <2>1, <2>2 DEF InviteRow
  <2>4. invite'[code].redeemed /\ \A c \in Codes : c # code => invite'[c] = invite[c]
    BY <1>1, <2>1, <2>2 DEF InviteRow
  <2> QED  BY <2>3, <2>4 DEF Unused
<1>6. \A q \in Phones : q # p => Using(q)' = Using(q) /\ Used(q)' = Used(q)
  BY <1>4 DEF Using, Used
<1>7. ~Using(p)' /\ Used(p)'
  BY <1>3, <1>4 DEF Using, Used
<1>8. \A q \in Phones : q # p /\ (Using(q) \/ Used(q)) => join[q].code # code
  BY <1>1 DEF IInv, OneHolder
<1>9. \A r \in Requests : Deleting(r)' = Deleting(r)
  BY <1>2 DEF Deleting
<1>10. Types'
  BY <1>1, <1>2, <1>4, <1>5 DEF Types
<1>11. Minted'
  BY <1>2, <1>5 DEF IInv, Minted
<1>12. HeldIsThere'
  BY <1>4, <1>5, <1>6, <1>7, <1>8, <1>9 DEF IInv, HeldIsThere
<1>13. UsedIsSpent'
  BY <1>1, <1>2, <1>3, <1>4, <1>5, <1>6 DEF IInv, UsedIsSpent
<1>14. OneHolder'
  BY <1>3, <1>4, <1>6, <1>8 DEF IInv, OneHolder
<1>15. OldIsSeen'
  BY <1>2, <1>5 DEF IInv, OldIsSeen
<1> QED  BY <1>10, <1>11, <1>12, <1>13, <1>14, <1>15 DEF IInv

-----------------------------------------------------------------------------
LEMMA Initially == Init => IInv
<1> SUFFICES ASSUME Init PROVE IInv
  OBVIOUS
<1>1. /\ NoInvite \in InviteRow /\ ~NoInvite.row
      /\ NoRequest \in RequestState /\ NoRequest.before = {} /\ NoRequest.step = "idle"
      /\ NoJoin \in JoinState /\ NoJoin.step = "idle"
  BY InvitesAssumption DEF NoInvite, InviteRow, NoRequest, RequestState, NoJoin, JoinState
<1>2. Types
  BY <1>1, InvitesAssumption DEF Init, Types
<1>3. Unused = {} /\ \A p \in Phones : ~Using(p) /\ ~Used(p)
  BY <1>1 DEF Init, Unused, Using, Used
<1>4. OldIsSeen
  BY <1>1 DEF Init, OldIsSeen
<1> QED  BY <1>2, <1>3, <1>4 DEF IInv, Minted, HeldIsThere, UsedIsSpent, OneHolder

LEMMA Step == IInv /\ [Next]_vars => IInv'
<1> SUFFICES ASSUME IInv, [Next]_vars PROVE IInv'
  OBVIOUS
<1>1. ASSUME NEW r \in Requests,
             \/ Add(r) \/ Reinvite(r) \/ StartDelete(r) \/ FinishDelete(r) \/ InsertInvite(r)
             \/ Remove(r) \/ CommitRemove(r) \/ RequestFails(r)
      PROVE  IInv'
  BY <1>1, OwnerKeepsIInv, CommitKeepsIInv
<1>2. ASSUME NEW p \in Phones,
             \/ \E c \in Codes : Type(p, c)
             \/ LockInvite(p) \/ CommitRedeem(p) \/ OpenSession(p) \/ Resolve(p)
             \/ StoreToken(p) \/ JoinFails(p)
      PROVE  IInv'
  BY <1>2, JoinKeepsIInv, CommitRedeemKeepsIInv
<1>3. CASE PlanChanges \/ Tick \/ UNCHANGED vars
  <2>1. UNCHANGED <<member, invite, made, shown, request, join>> /\ now' \in Nat
    BY <1>3 DEF PlanChanges, Tick, vars, owners, IInv, Types
  <2>2. Unused' = Unused /\ (\A r \in Requests : Deleting(r)' = Deleting(r))
        /\ \A p \in Phones : Using(p)' = Using(p) /\ Used(p)' = Used(p)
    BY <2>1 DEF Unused, Deleting, Using, Used
  <2> QED  BY <2>1, <2>2 DEF IInv, Types, Minted, HeldIsThere, UsedIsSpent, OneHolder, OldIsSeen
<1> QED  BY <1>1, <1>2, <1>3 DEF Next, ServiceStep

-----------------------------------------------------------------------------
(* The theorems.                                                              *)
THEOREM Inductive == Spec => []IInv
BY Initially, Step, PTL DEF Spec

(* However many phones type a code at once and whichever requests fail half   *)
(* way, one of them at most gets past using it up (staff_repository.rs        *)
(* redeem).                                                                   *)
THEOREM CodeAdmitsOne == Spec => []OneCodeOnePhone
<1>1. IInv => OneCodeOnePhone
  BY DEF IInv, OneHolder, Used, OneCodeOnePhone
<1> QED  BY <1>1, Inductive, PTL

(* Of the phones that hold a code or were resolved when the member was        *)
(* removed, none is forgotten.                                                *)
OvertakenKnown == member = "removed" => \A p \in Phones : join[p].step \in Overtaken => p \in late

LEMMA MemberLeaves ==
    ASSUME ServiceStep, member # "removed", member' = "removed"
    PROVE  \E r \in Requests : CommitRemove(r)
<1>1. ASSUME NEW r \in Requests,
             \/ Add(r) \/ Reinvite(r) \/ StartDelete(r) \/ FinishDelete(r) \/ InsertInvite(r)
             \/ Remove(r) \/ RequestFails(r)
      PROVE  member' # "removed"
  BY <1>1 DEF Add, Reinvite, StartDelete, FinishDelete, InsertInvite, Remove, RequestFails
<1>2. ASSUME NEW p \in Phones,
             \/ \E c \in Codes : Type(p, c)
             \/ LockInvite(p) \/ CommitRedeem(p) \/ OpenSession(p) \/ Resolve(p)
             \/ StoreToken(p) \/ JoinFails(p)
      PROVE  member' # "removed"
  BY <1>2 DEF Type, LockInvite, CommitRedeem, OpenSession, Resolve, StoreToken, JoinFails, owners
<1>3. ~PlanChanges /\ ~Tick
  BY DEF PlanChanges, Tick, owners
<1> QED  BY <1>1, <1>2, <1>3 DEF ServiceStep

(* A phone that holds a code or is resolved got there while the member was    *)
(* on, or was there before.                                                   *)
LEMMA OnlyOfAMember ==
    ASSUME IInv, ServiceStep, NEW p \in Phones, join'[p].step \in Overtaken,
           member = "removed"
    PROVE  join[p].step = join'[p].step
<1>1. join \in [Phones -> JoinState] /\ NoJoin.step = "idle"
  BY DEF IInv, Types, NoJoin
<1>2. ASSUME NEW q \in Phones, NEW x, join' = [join EXCEPT ![q] = x], x.step \notin Overtaken
      PROVE  join[p].step = join'[p].step
  BY <1>1, <1>2
<1>3. ASSUME NEW q \in Phones, NEW step, join' = [join EXCEPT ![q].step = step],
             step \notin Overtaken
      PROVE  join[p].step = join'[p].step
  BY <1>1, <1>3 DEF JoinState
<1>4. ASSUME NEW q \in Phones,
             \/ \E c \in Codes : Type(q, c)
             \/ LockInvite(q) \/ CommitRedeem(q) \/ OpenSession(q) \/ Resolve(q)
             \/ StoreToken(q) \/ JoinFails(q)
      PROVE  join[p].step = join'[p].step
  <2>1. ASSUME NEW c \in Codes, Type(q, c) PROVE join[p].step = join'[p].step
    <3>1. join' = [join EXCEPT ![q] = [step |-> "checked", code |-> c]]
      BY <2>1 DEF Type
    <3> QED  BY <1>2, <3>1 DEF Overtaken
  <2>2. CASE LockInvite(q) \/ Resolve(q) \/ JoinFails(q)
    <3>1. join' = [join EXCEPT ![q] = NoJoin]
      BY <2>2 DEF LockInvite, Resolve, JoinFails
    <3> QED  BY <1>1, <1>2, <3>1 DEF Overtaken
  <2>3. CASE CommitRedeem(q) \/ OpenSession(q) \/ StoreToken(q)
    <3>1. \E step \in {"redeemed", "opened", "joined"} : join' = [join EXCEPT ![q].step = step]
      BY <2>3 DEF CommitRedeem, OpenSession, StoreToken
    <3> QED  BY <1>3, <3>1 DEF Overtaken
  <2> QED  BY <1>4, <2>1, <2>2, <2>3
<1>5. ASSUME NEW r \in Requests,
             \/ Add(r) \/ Reinvite(r) \/ StartDelete(r) \/ FinishDelete(r) \/ InsertInvite(r)
             \/ Remove(r) \/ CommitRemove(r) \/ RequestFails(r)
      PROVE  join' = join
  BY <1>5 DEF Add, Reinvite, StartDelete, FinishDelete, InsertInvite, Remove, CommitRemove,
     RequestFails
<1>6. PlanChanges \/ Tick => join' = join
  BY DEF PlanChanges, Tick
<1> QED  BY <1>4, <1>5, <1>6 DEF ServiceStep

LEMMA OvertakenInductive == Spec => []OvertakenKnown
<1>1. Init => OvertakenKnown
  BY DEF Init, OvertakenKnown
<1>2. IInv /\ OvertakenKnown /\ [Next]_vars => OvertakenKnown'
  <2> SUFFICES ASSUME IInv, OvertakenKnown, [Next]_vars, member' = "removed",
                      NEW p \in Phones, join'[p].step \in Overtaken
               PROVE  p \in late'
    BY DEF OvertakenKnown, Overtaken
  <2>1. CASE UNCHANGED vars
    BY <2>1 DEF vars, OvertakenKnown
  <2>2. CASE Next /\ member = "removed"
    BY <2>2, OnlyOfAMember DEF Next, NoteRemoval, OvertakenKnown
  <2>3. CASE Next /\ member # "removed"
    <3>1. PICK r \in Requests : CommitRemove(r)
      BY <2>3, MemberLeaves DEF Next
    <3>2. join' = join
      BY <3>1 DEF CommitRemove
    <3> QED  BY <2>3, <3>2 DEF Next, NoteRemoval
  <2> QED  BY <2>1, <2>2, <2>3
<1> QED  BY <1>1, <1>2, Inductive, PTL DEF Spec

(* Once the member is removed, only a phone the removal overtook uses a code  *)
(* up or gets tokens (staff_repository.rs remove and redeem, auth_service.rs  *)
(* join).                                                                     *)
THEOREM MembersJoin == Spec => RemovedNeverJoins
<1>1. IInv /\ OvertakenKnown /\ [Next]_vars =>
        [member = "removed" => \A p \in Phones :
            join[p].step # join'[p].step /\ join'[p].step \in {"redeemed", "joined"}
                => p \in late]_vars
  <2> SUFFICES ASSUME IInv, OvertakenKnown, Next, member = "removed", NEW p \in Phones,
                      join[p].step # join'[p].step, join'[p].step \in {"redeemed", "joined"}
               PROVE  p \in late
    OBVIOUS
  <2>1. join \in [Phones -> JoinState]
    BY DEF IInv, Types
  <2>2. PICK q \in Phones : \/ \E c \in Codes : Type(q, c)
                            \/ LockInvite(q) \/ CommitRedeem(q) \/ OpenSession(q)
                            \/ Resolve(q) \/ StoreToken(q) \/ JoinFails(q)
    <3>1. ASSUME NEW r \in Requests,
                 \/ Add(r) \/ Reinvite(r) \/ StartDelete(r) \/ FinishDelete(r) \/ InsertInvite(r)
                 \/ Remove(r) \/ CommitRemove(r) \/ RequestFails(r)
          PROVE  join' = join
      BY <3>1 DEF Add, Reinvite, StartDelete, FinishDelete, InsertInvite, Remove, CommitRemove,
         RequestFails
    <3>2. PlanChanges \/ Tick => join' = join
      BY DEF PlanChanges, Tick
    <3> QED  BY <3>1, <3>2 DEF Next, ServiceStep
  <2>3. q = p
    BY <2>1, <2>2 DEF Type, LockInvite, CommitRedeem, OpenSession, Resolve, StoreToken, JoinFails
  <2>4. CASE CommitRedeem(p) \/ StoreToken(p)
    BY <2>4 DEF CommitRedeem, StoreToken, OvertakenKnown, Overtaken
  <2>5. CASE (\E c \in Codes : Type(p, c)) \/ LockInvite(p) \/ Resolve(p) \/ JoinFails(p)
    BY <2>1, <2>5 DEF Type, LockInvite, Resolve, JoinFails, NoJoin, JoinState
  <2>6. CASE OpenSession(p)
    BY <2>1, <2>6 DEF OpenSession, JoinState
  <2> QED  BY <2>2, <2>3, <2>4, <2>5, <2>6
<1> QED  BY <1>1, Inductive, OvertakenInductive, PTL DEF Spec, RemovedNeverJoins

(* When a new code is made, those that were unused when the owner asked for   *)
(* it do not work any more (staff_service.rs reinvite, staff_repository.rs    *)
(* replace_invite).                                                           *)
THEOREM NewCodeIsTheOnlyOne == Spec => NewCodeRetiresOld
<1>1. IInv /\ [Next]_vars =>
        [\A r \in Requests : request[r].step = "deleted" /\ request'[r].step = "idle"
            /\ made' > made => request[r].before \cap Working' = {}]_vars
  <2> SUFFICES ASSUME IInv, Next, NEW r \in Requests, request[r].step = "deleted",
                      request'[r].step = "idle", made' > made
               PROVE  request[r].before \cap Working' = {}
    OBVIOUS
  <2>1. made \in Nat /\ request \in [Requests -> RequestState]
        /\ request[r].before \subseteq Codes
    BY InvitesAssumption DEF IInv, Types, RequestState
  <2>2. PICK q \in Requests : InsertInvite(q)
    <3>1. ASSUME NEW q \in Requests, ~InsertInvite(q),
                 \/ Add(q) \/ Reinvite(q) \/ StartDelete(q) \/ FinishDelete(q)
                 \/ Remove(q) \/ CommitRemove(q) \/ RequestFails(q)
          PROVE  made' = made
      BY <3>1 DEF Add, Reinvite, StartDelete, FinishDelete, Remove, CommitRemove, RequestFails
    <3>2. ASSUME NEW p \in Phones,
                 \/ \E c \in Codes : Type(p, c)
                 \/ LockInvite(p) \/ CommitRedeem(p) \/ OpenSession(p) \/ Resolve(p)
                 \/ StoreToken(p) \/ JoinFails(p)
          PROVE  made' = made
      BY <3>2 DEF Type, LockInvite, CommitRedeem, OpenSession, Resolve, StoreToken, JoinFails,
         owners
    <3>3. PlanChanges \/ Tick => made' = made
      BY DEF PlanChanges, Tick, owners
    <3>4. made' # made
      BY <2>1
    <3> QED  BY <3>1, <3>2, <3>3, <3>4 DEF Next, ServiceStep
  <2>3. q = r
    BY <2>1, <2>2 DEF InsertInvite
  <2>4. \A c \in Codes : c <= made /\ c \in Unused' => c \in Unused \ request[r].sees
    BY <2>2, <2>3, CommitKeepsIInv
  <2>5. (\A c \in request[r].before : c <= made)
        /\ request[r].before \cap Unused \subseteq request[r].sees
    BY DEF IInv, OldIsSeen
  <2>6. Working' \subseteq Unused'
    BY DEF Working
  <2> QED  BY <2>1, <2>4, <2>5, <2>6
<1> QED  BY <1>1, Inductive, PTL DEF Spec, NewCodeRetiresOld

-----------------------------------------------------------------------------
(* PrivateRecords: what the staff member recorded and has not uploaded stays  *)
(* on their screen, for any records, permissions, refusals and incidents.     *)
(*                                                                            *)
(* The server may have a row of what waits, from an upload whose answer was   *)
(* lost or that was refused when it was repeated. That row is not removed,    *)
(* unless another phone did it: the staff member's own removal takes the      *)
(* entry out of the outbox, and none is under way from before. So a page      *)
(* holds it, if at all, as it is on the screen. Losing the view of profit     *)
(* spares what waits.                                                         *)
Entries ==
    {Put(e) : e \in Own} \cup {Delete(e) : e \in Expenses} \cup
    {Edit(x[1], x[2]) : x \in Products \X BOOLEAN}

RowTypes ==
    /\ row \in [Records -> [status : {"none", "live", "gone"}, stamp : Nat, mine : BOOLEAN,
                            cost : BOOLEAN]]
    /\ clock \in Nat

PhoneTypes ==
    /\ grant \in BOOLEAN /\ access \in BOOLEAN
    /\ copy \in [Records -> {"none", "zero", "live", "gone"}]
    /\ queue \subseteq Entries
    /\ refresh \in [step : {"idle", "answered", "forgotten", "cleared"}, sees : BOOLEAN]

(* The fields of a sync.                                                      *)
SyncRecord(s, sent, todo, refused, page, to) ==
    [step |-> s, sent |-> sent, todo |-> todo, refused |-> refused, page |-> page, cursor |-> to]

SyncTypes ==
    /\ sync = SyncRecord(sync.step, sync.sent, sync.todo, sync.refused, sync.page, sync.cursor)
    /\ sync.step \in {"idle", "sent", "pull", "asked", "page", "applied"}
    /\ sync.todo \subseteq sync.sent /\ sync.sent \subseteq Entries

(* A page holds rows of the server.                                           *)
PageHasRows == \A e \in DOMAIN sync.page :
    /\ e \in Records /\ row[e].status # "none"
    /\ sync.page[e] \in {"zero", "live", "gone"}

(* What waits is on the screen, and neither the server nor a page knows it as *)
(* removed; nor does a removal of it wait or travel.                          *)
WaitsSafely(e) ==
    /\ copy[e] = "live" /\ row[e].status # "gone"
    /\ e \in DOMAIN sync.page => sync.page[e] = "live"
    /\ Delete(e) \notin queue /\ Delete(e) \notin sync.sent

UnsentIsSafe == \A e \in Own : Put(e) \in queue => e \in removed \/ WaitsSafely(e)

RecordsInv == RowTypes /\ PhoneTypes /\ SyncTypes /\ PageHasRows /\ UnsentIsSafe

-----------------------------------------------------------------------------
(* What the outbox holds is one of three kinds.                               *)
LEMMA EntryKinds ==
    ASSUME NEW r \in Entries
    PROVE  \/ r.kind = "put" /\ r.of \in Own /\ r = Put(r.of)
           \/ r.kind = "delete" /\ r.of \in Expenses /\ r = Delete(r.of)
           \/ r.kind = "edit" /\ r.of \in Products /\ r.cost \in BOOLEAN
<1>1. CASE r \in {Put(e) : e \in Own}
  BY <1>1 DEF Put
<1>2. CASE r \in {Delete(e) : e \in Expenses}
  BY <1>2 DEF Delete
<1>3. CASE r \in {Edit(x[1], x[2]) : x \in Products \X BOOLEAN}
  <2>1. PICK x \in Products \X BOOLEAN : r = Edit(x[1], x[2])
    BY <1>3
  <2> QED  BY <2>1 DEF Edit
<1> QED  BY <1>1, <1>2, <1>3 DEF Entries

LEMMA EntriesDiffer ==
    ASSUME NEW e
    PROVE  /\ Put(e).of = e /\ Put(e).kind = "put"
           /\ Delete(e).of = e /\ Delete(e).kind = "delete"
           /\ \A cost : Edit(e, cost).of = e /\ Edit(e, cost).kind = "edit"
           /\ Put(e) \in Entries => e \in Own
<1>1. /\ Put(e).of = e /\ Put(e).kind = "put"
      /\ Delete(e).of = e /\ Delete(e).kind = "delete"
      /\ \A cost : Edit(e, cost).of = e /\ Edit(e, cost).kind = "edit"
  BY DEF Put, Delete, Edit
<1>2. ASSUME Put(e) \in Entries PROVE e \in Own
  <2>1. PICK r : r = Put(e)
    OBVIOUS
  <2>2. r \in Entries /\ r.kind = "put" /\ r.of = e
    BY <1>1, <1>2, <2>1
  <2> QED  BY <2>2, EntryKinds
<1> QED  BY <1>1, <1>2

LEMMA NothingUnderWay ==
    /\ NoSync = SyncRecord("idle", {}, {}, {}, NoPage, Start)
    /\ DOMAIN NoPage = {} /\ NoRow.status = "none"
    /\ NoRow \in [status : {"none", "live", "gone"}, stamp : Nat, mine : BOOLEAN, cost : BOOLEAN]
    /\ NoRefresh \in [step : {"idle", "answered", "forgotten", "cleared"}, sees : BOOLEAN]
BY DEF NoSync, NoPage, NoRow, NoRefresh, SyncRecord

LEMMA RecordsInitially == ASSUME RecordsInit PROVE RecordsInv
<1>1. RowTypes /\ PhoneTypes
  BY NothingUnderWay DEF RecordsInit, RowTypes, PhoneTypes
<1>2. SyncTypes /\ PageHasRows /\ UnsentIsSafe
  BY NothingUnderWay DEF RecordsInit, SyncTypes, SyncRecord, PageHasRows, UnsentIsSafe
<1> QED  BY <1>1, <1>2 DEF RecordsInv

(* Steps that leave rows, the phone's copies, its outbox and its sync alone.  *)
LEMMA RecordsFrame ==
    ASSUME RecordsInv, UNCHANGED <<row, clock, copy, queue, sync>>, PhoneTypes',
           removed \subseteq removed'
    PROVE  RecordsInv'
BY DEF RecordsInv, RowTypes, SyncTypes, PageHasRows, UnsentIsSafe, WaitsSafely

(* Steps of a sync that bring no page.                                        *)
LEMMA SyncKeepsInv ==
    ASSUME RecordsInv, UNCHANGED <<row, clock, copy>>, PhoneTypes', SyncTypes',
           queue' \subseteq queue, removed \subseteq removed',
           sync'.sent \subseteq sync.sent \cup queue,
           sync'.page = sync.page \/ sync'.page = NoPage
    PROVE  RecordsInv'
<1>1. RowTypes'
  BY DEF RecordsInv, RowTypes
<1>2. PageHasRows'
  BY NothingUnderWay DEF RecordsInv, PageHasRows
<1>3. UnsentIsSafe'
  BY NothingUnderWay DEF RecordsInv, UnsentIsSafe, WaitsSafely
<1> QED  BY <1>1, <1>2, <1>3 DEF RecordsInv

-----------------------------------------------------------------------------
(* A row of the server is written.                                            *)
LEMMA StampedRow ==
    ASSUME RowTypes, NEW e \in Records, NEW status \in {"live", "gone"}, NEW mine \in BOOLEAN,
           NEW cost \in BOOLEAN, Stamped(e, status, mine, cost)
    PROVE  /\ RowTypes'
           /\ row'[e].status = status /\ \A d \in Records : d # e => row'[d] = row[d]
<1> DEFINE new == [status |-> status, stamp |-> clock + 1, mine |-> mine, cost |-> cost]
<1>1. /\ row' = [row EXCEPT ![e] = new] /\ clock' = clock + 1
  BY DEF Stamped
<1>2. /\ new \in [status : {"none", "live", "gone"}, stamp : Nat, mine : BOOLEAN, cost : BOOLEAN]
      /\ new.status = status /\ clock + 1 \in Nat
  BY DEF RowTypes
<1> HIDE DEF new
<1> QED  BY <1>1, <1>2 DEF RowTypes

(* If nothing that waits is removed by it, all stays safe.                    *)
LEMMA WriteKeepsInv ==
    ASSUME RecordsInv, RowTypes', PhoneTypes', SyncTypes', UNCHANGED <<copy, queue>>,
           removed \subseteq removed',
           sync'.sent = sync.sent, sync'.page = sync.page,
           NEW e \in Records, row'[e].status # "none",
           \A d \in Records : d # e => row'[d] = row[d],
           Put(e) \in queue /\ row'[e].status = "gone" =>
               e \in removed' \/ Delete(e) \in sync.sent
    PROVE  RecordsInv'
<1>1. PageHasRows'
  BY DEF RecordsInv, PageHasRows
<1>2. UnsentIsSafe'
  <2> SUFFICES ASSUME NEW d \in Own, Put(d) \in queue
               PROVE  d \in removed' \/ WaitsSafely(d)'
    BY DEF UnsentIsSafe
  <2>1. d \in Records /\ (d \in removed \/ WaitsSafely(d))
    BY DEF RecordsInv, UnsentIsSafe, Records, Expenses
  <2>2. CASE d = e
    BY <2>1, <2>2 DEF WaitsSafely
  <2>3. CASE d # e
    BY <2>1, <2>3 DEF WaitsSafely
  <2> QED  BY <2>2, <2>3
<1> QED  BY <1>1, <1>2 DEF RecordsInv

LEMMA SoftDeleteFields ==
    ASSUME RecordsInv, NEW e \in Records, SoftDelete(e)
    PROVE  /\ RowTypes' /\ row'[e].status = "gone" /\ \A d \in Records : d # e => row'[d] = row[d]
<1>1. RowTypes /\ row[e].status = "live" /\ Stamped(e, "gone", row[e].mine, row[e].cost)
  BY DEF RecordsInv, SoftDelete
<1>2. row[e].mine \in BOOLEAN /\ row[e].cost \in BOOLEAN
  BY <1>1 DEF RowTypes
<1> QED  BY <1>1, <1>2, StampedRow

(* The owner's and the other phones' requests, and the permission.            *)
LEMMA OthersKeepInv ==
    ASSUME RecordsInv, RecordsHistory, NEW e \in Records,
           OwnerSaves(e) \/ OwnerRemoves(e) \/ OtherRecords(e) \/ OtherRemoves(e)
    PROVE  RecordsInv'
<1>1. /\ PhoneTypes' /\ SyncTypes' /\ UNCHANGED <<copy, queue>>
      /\ sync'.sent = sync.sent /\ sync'.page = sync.page
  <2>1. UNCHANGED <<grant, access, copy, queue, refresh, sync>>
    BY DEF OwnerSaves, OwnerRemoves, OtherRecords, OtherRemoves, Writes, outbox
  <2> QED  BY <2>1 DEF RecordsInv, PhoneTypes, SyncTypes
<1>2. /\ removed \subseteq removed' /\ (e \in Expenses /\ OtherRemoves(e) => e \in removed')
      /\ Put(e) \in queue => e \in Own
  BY EntriesDiffer DEF RecordsHistory, RecordsInv, PhoneTypes
<1>3. CASE OwnerSaves(e) \/ OtherRecords(e)
  <2>1. Stamped(e, "live", FALSE, TRUE) \/ Stamped(e, "live", FALSE, FALSE)
    BY <1>3 DEF OwnerSaves, OtherRecords
  <2>2. /\ RowTypes' /\ row'[e].status = "live"
        /\ \A d \in Records : d # e => row'[d] = row[d]
    BY <2>1, StampedRow DEF RecordsInv
  <2> QED  BY <1>1, <1>2, <2>2, WriteKeepsInv
<1>4. CASE OwnerRemoves(e) \/ OtherRemoves(e)
  <2>1. SoftDelete(e) /\ (e \in Own => e \in removed')
    BY <1>2, <1>4, RecordsAssumption DEF OwnerRemoves, OtherRemoves, Expenses
  <2> QED  BY <1>1, <1>2, <2>1, SoftDeleteFields, WriteKeepsInv
<1> QED  BY <1>3, <1>4

-----------------------------------------------------------------------------
(* The staff member.                                                          *)
LEMMA RecordExpenseKeepsInv ==
    ASSUME RecordsInv, removed \subseteq removed', NEW e \in Records, RecordExpense(e)
    PROVE  RecordsInv'
<1>1. /\ e \in Own /\ row[e] = NoRow /\ \A r \in queue \cup sync.sent : r.of # e
      /\ copy' = [copy EXCEPT ![e] = "live"] /\ queue' = queue \cup {Put(e)}
      /\ UNCHANGED <<row, clock, grant, access, sync, refresh>>
  BY DEF RecordExpense, server
<1>2. RowTypes' /\ SyncTypes' /\ PageHasRows'
  BY <1>1 DEF RecordsInv, RowTypes, SyncTypes, PageHasRows
<1>3. PhoneTypes'
  BY <1>1 DEF RecordsInv, PhoneTypes, Entries
<1>4. UnsentIsSafe'
  <2> SUFFICES ASSUME NEW d \in Own, Put(d) \in queue'
               PROVE  d \in removed' \/ WaitsSafely(d)'
    BY DEF UnsentIsSafe
  <2>1. Delete(d) # Put(e)
    BY EntriesDiffer
  <2>2. CASE d = e
    <3>1. copy'[e] = "live" /\ row'[e].status = "none"
      BY <1>1, NothingUnderWay DEF RecordsInv, PhoneTypes
    <3>2. e \notin DOMAIN sync.page
      BY <1>1, NothingUnderWay DEF RecordsInv, PageHasRows
    <3>3. Delete(e) \notin queue /\ Delete(e) \notin sync.sent
      BY <1>1, EntriesDiffer
    <3> QED  BY <1>1, <2>1, <2>2, <3>1, <3>2, <3>3 DEF WaitsSafely
  <2>3. CASE d # e
    <3>1. Put(d) \in queue /\ d \in Records
      BY <1>1, <2>3, EntriesDiffer DEF Records, Expenses
    <3>2. (d \in removed \/ WaitsSafely(d)) /\ copy'[d] = copy[d]
      BY <1>1, <2>3, <3>1 DEF RecordsInv, UnsentIsSafe, PhoneTypes
    <3> QED  BY <1>1, <2>1, <3>2 DEF WaitsSafely
  <2> QED  BY <2>2, <2>3
<1> QED  BY <1>2, <1>3, <1>4 DEF RecordsInv

LEMMA RemoveExpenseKeepsInv ==
    ASSUME RecordsInv, removed \subseteq removed', NEW e \in Records, RemoveExpense(e)
    PROVE  RecordsInv'
<1>1. /\ e \in Expenses /\ copy' = [copy EXCEPT ![e] = "gone"]
      /\ queue' = (queue \ {Put(e)}) \cup {Delete(e)}
      /\ UNCHANGED <<row, clock, grant, access, sync, refresh>>
  BY DEF RemoveExpense, server
<1>2. RowTypes' /\ SyncTypes' /\ PageHasRows'
  BY <1>1 DEF RecordsInv, RowTypes, SyncTypes, PageHasRows
<1>3. PhoneTypes'
  BY <1>1 DEF RecordsInv, PhoneTypes, Entries
<1>4. UnsentIsSafe'
  <2> SUFFICES ASSUME NEW d \in Own, Put(d) \in queue'
               PROVE  d \in removed' \/ WaitsSafely(d)'
    BY DEF UnsentIsSafe
  <2>1. Put(d) \in queue /\ d # e /\ d \in Records /\ Delete(d) # Delete(e)
    BY <1>1, EntriesDiffer DEF Records, Expenses
  <2>2. (d \in removed \/ WaitsSafely(d)) /\ copy'[d] = copy[d]
    BY <1>1, <2>1 DEF RecordsInv, UnsentIsSafe, PhoneTypes
  <2> QED  BY <1>1, <2>1, <2>2 DEF WaitsSafely
<1> QED  BY <1>2, <1>3, <1>4 DEF RecordsInv

LEMMA EditProductKeepsInv ==
    ASSUME RecordsInv, removed \subseteq removed', NEW p \in Records, EditProduct(p)
    PROVE  RecordsInv'
<1> DEFINE c == copy[p] = "live"
<1>1. /\ p \in Products
      /\ queue' = (queue \ {Edit(p, TRUE), Edit(p, FALSE)}) \cup {Edit(p, c)}
      /\ UNCHANGED <<row, clock, grant, access, copy, sync, refresh>>
      /\ c \in BOOLEAN
  BY DEF EditProduct, server
<1> HIDE DEF c
<1>2. RowTypes' /\ SyncTypes' /\ PageHasRows'
  BY <1>1 DEF RecordsInv, RowTypes, SyncTypes, PageHasRows
<1>3. PhoneTypes'
  <2>1. <<p, c>> \in Products \X BOOLEAN
    BY <1>1
  <2>2. Edit(p, c) \in Entries
    BY <2>1 DEF Entries
  <2> QED  BY <1>1, <2>2 DEF RecordsInv, PhoneTypes
<1>4. UnsentIsSafe'
  <2> SUFFICES ASSUME NEW d \in Own, Put(d) \in queue'
               PROVE  d \in removed' \/ WaitsSafely(d)'
    BY DEF UnsentIsSafe
  <2>1. /\ Put(d).kind = "put" /\ Delete(d).kind = "delete" /\ Edit(p, c).kind = "edit"
    BY DEF Put, Delete, Edit
  <2>2. Put(d) \in queue /\ (Delete(d) \in queue' => Delete(d) \in queue)
    BY <1>1, <2>1
  <2> QED  BY <1>1, <2>2 DEF RecordsInv, UnsentIsSafe, WaitsSafely
<1> QED  BY <1>2, <1>3, <1>4 DEF RecordsInv

-----------------------------------------------------------------------------
(* The upload: what waits is sent, served or refused, and what was served is  *)
(* forgotten when it was answered.                                            *)
LEMMA BeginFields ==
    ASSUME Begin
    PROVE  /\ sync.step = "idle"
           /\ UNCHANGED <<row, clock, grant, access, copy, queue, cursor, refresh>>
           /\ \E s \in {"pull", "sent"}, rows \in SUBSET queue :
                sync' = SyncRecord(s, rows, rows, {}, NoPage, Start)
<1> DEFINE rows == queue \ parked
           s == IF rows = {} THEN "pull" ELSE "sent"
<1>1. /\ sync' = [NoSync EXCEPT !.step = s, !.sent = rows, !.todo = rows]
      /\ s \in {"pull", "sent"} /\ rows \in SUBSET queue
  BY DEF Begin
<1>2. NoSync = SyncRecord("idle", {}, {}, {}, NoPage, Start)
  BY NothingUnderWay
<1> HIDE DEF s, rows
<1>3. [NoSync EXCEPT !.step = s, !.sent = rows, !.todo = rows] =
        SyncRecord(s, rows, rows, {}, NoPage, Start)
  <2>1. [NoSync EXCEPT !.step = s] = SyncRecord(s, {}, {}, {}, NoPage, Start)
    BY <1>2 DEF SyncRecord
  <2>2. [SyncRecord(s, {}, {}, {}, NoPage, Start) EXCEPT !.sent = rows] =
          SyncRecord(s, rows, {}, {}, NoPage, Start)
    BY DEF SyncRecord
  <2>3. [SyncRecord(s, rows, {}, {}, NoPage, Start) EXCEPT !.todo = rows] =
          SyncRecord(s, rows, rows, {}, NoPage, Start)
    BY DEF SyncRecord
  <2> QED  BY <2>1, <2>2, <2>3
<1> QED  BY <1>1, <1>3 DEF Begin, server, outbox

LEMMA BeginKeepsInv ==
    ASSUME RecordsInv, removed \subseteq removed', Begin
    PROVE  RecordsInv'
<1>1. UNCHANGED <<row, clock, grant, access, copy, queue, refresh>>
  BY BeginFields
<1>2. PICK s \in {"pull", "sent"}, rows \in SUBSET queue :
        sync' = SyncRecord(s, rows, rows, {}, NoPage, Start)
  BY BeginFields
<1>3. PhoneTypes'
  BY <1>1 DEF RecordsInv, PhoneTypes
<1>4. SyncTypes' /\ sync'.sent \subseteq queue /\ sync'.page = NoPage
  BY <1>2 DEF RecordsInv, PhoneTypes, SyncTypes, SyncRecord
<1> QED  BY <1>1, <1>3, <1>4, SyncKeepsInv

LEMMA ServeFields ==
    ASSUME SyncTypes, NEW r, sync' = [sync EXCEPT !.todo = sync.todo \ {r}]
    PROVE  /\ SyncTypes'
           /\ sync'.step = sync.step /\ sync'.sent = sync.sent /\ sync'.page = sync.page
           /\ sync'.todo = sync.todo \ {r} /\ sync'.refused = sync.refused
           /\ sync'.cursor = sync.cursor
<1>1. sync' = SyncRecord(sync.step, sync.sent, sync.todo \ {r}, sync.refused, sync.page,
                         sync.cursor)
  BY DEF SyncTypes, SyncRecord
<1> QED  BY <1>1 DEF SyncTypes, SyncRecord

LEMMA ServeKeepsInv ==
    ASSUME RecordsInv, removed \subseteq removed', Serve
    PROVE  RecordsInv'
<1>1. PICK r \in First :
        /\ CASE r.kind = "edit" -> Save(r.of, r.cost)
             [] r.kind = "put" -> Record(r.of)
             [] r.kind = "delete" -> RemoveRecord(r.of)
        /\ sync' = [sync EXCEPT !.todo = sync.todo \ {r}]
  BY DEF Serve
<1>2. UNCHANGED <<grant, access, copy, queue, refresh>>
  BY DEF Serve, outbox
<1>3. /\ r \in sync.todo /\ r \in sync.sent /\ r \in Entries
  BY DEF First, Of, RecordsInv, SyncTypes
<1>4. PhoneTypes'
  BY <1>2 DEF RecordsInv, PhoneTypes
<1>5. SyncTypes' /\ sync'.sent = sync.sent /\ sync'.page = sync.page
  BY <1>1, ServeFields DEF RecordsInv
<1>6. ASSUME r.of \in Records, RowTypes', row'[r.of].status = "live",
             \A d \in Records : d # r.of => row'[d] = row[d]
      PROVE  RecordsInv'
  BY <1>2, <1>4, <1>5, <1>6, WriteKeepsInv
<1>7. CASE r.kind = "edit"
  <2>1. r.of \in Records /\ r.cost \in BOOLEAN
    BY <1>3, <1>7, EntryKinds DEF Records
  <2>2. Stamped(r.of, "live", FALSE, IF grant THEN r.cost
                                     ELSE row[r.of].status = "live" /\ row[r.of].cost)
    BY <1>1, <1>7 DEF Save
  <2>3. (IF grant THEN r.cost ELSE row[r.of].status = "live" /\ row[r.of].cost) \in BOOLEAN
    BY <2>1 DEF RecordsInv, RowTypes
  <2> QED  BY <1>6, <2>1, <2>2, <2>3, StampedRow DEF RecordsInv
<1>8. CASE r.kind = "put"
  <2>1. r.of \in Records
    BY <1>3, <1>8, EntryKinds DEF Records, Expenses
  <2>2. Stamped(r.of, "live", TRUE, FALSE)
    BY <1>1, <1>8 DEF Record
  <2> QED  BY <1>6, <2>1, <2>2, StampedRow DEF RecordsInv
<1>9. CASE r.kind = "delete"
  <2>1. r.of \in Records /\ r = Delete(r.of)
    BY <1>3, <1>9, EntryKinds DEF Records, Expenses
  <2>2. RemoveRecord(r.of)
    BY <1>1, <1>9
  <2>3. CASE SoftDelete(r.of)
    BY <1>2, <1>3, <1>4, <1>5, <2>1, <2>3, SoftDeleteFields, WriteKeepsInv
  <2>4. CASE UNCHANGED <<row, clock>>
    BY <1>2, <1>4, <1>5, <2>4, SyncKeepsInv
  <2> QED  BY <2>2, <2>3, <2>4 DEF RemoveRecord, server
<1> QED  BY <1>3, <1>7, <1>8, <1>9, EntryKinds

LEMMA RefuseFields ==
    ASSUME SyncTypes, Refuse
    PROVE  /\ SyncTypes'
           /\ UNCHANGED <<row, clock, grant, access, copy, queue, cursor, refresh>>
           /\ sync'.step = sync.step /\ sync'.sent = sync.sent /\ sync'.page = sync.page
           /\ sync'.todo \cup sync'.refused = sync.todo \cup sync.refused
           /\ sync'.cursor = sync.cursor
<1>1. PICK r \in First :
        sync' = [sync EXCEPT !.todo = sync.todo \ {r}, !.refused = sync.refused \cup {r}]
  BY DEF Refuse
<1>2. r \in sync.todo
  BY DEF First, Of
<1>3. [sync EXCEPT !.todo = sync.todo \ {r}] =
        SyncRecord(sync.step, sync.sent, sync.todo \ {r}, sync.refused, sync.page, sync.cursor)
  BY DEF SyncTypes, SyncRecord
<1>4. [SyncRecord(sync.step, sync.sent, sync.todo \ {r}, sync.refused, sync.page, sync.cursor)
         EXCEPT !.refused = sync.refused \cup {r}] =
        SyncRecord(sync.step, sync.sent, sync.todo \ {r}, sync.refused \cup {r}, sync.page,
                   sync.cursor)
  BY DEF SyncRecord
<1>5. sync' = SyncRecord(sync.step, sync.sent, sync.todo \ {r}, sync.refused \cup {r}, sync.page,
                         sync.cursor)
  BY <1>1, <1>3, <1>4
<1> QED  BY <1>2, <1>5 DEF Refuse, SyncTypes, SyncRecord, server, outbox

LEMMA RefuseKeepsInv ==
    ASSUME RecordsInv, removed \subseteq removed', Refuse
    PROVE  RecordsInv'
<1>1. /\ SyncTypes' /\ UNCHANGED <<row, clock, grant, access, copy, queue, refresh>>
      /\ sync'.sent = sync.sent /\ sync'.page = sync.page
  BY RefuseFields DEF RecordsInv
<1>2. PhoneTypes'
  BY <1>1 DEF RecordsInv, PhoneTypes
<1> QED  BY <1>1, <1>2, SyncKeepsInv

LEMMA AnswerFields ==
    ASSUME Answer
    PROVE  /\ sync.step = "sent" /\ sync.todo = {}
           /\ queue' = queue \ (sync.sent \ sync.refused)
           /\ UNCHANGED <<row, clock, grant, access, copy, cursor, refresh>>
           /\ sync' = SyncRecord("pull", {}, {}, {}, NoPage, Start)
BY NothingUnderWay DEF SyncRecord, Answer, server

LEMMA AnswerKeepsInv ==
    ASSUME RecordsInv, removed \subseteq removed', Answer
    PROVE  RecordsInv'
<1>1. /\ queue' \subseteq queue
      /\ UNCHANGED <<row, clock, grant, access, copy, refresh>>
      /\ sync' = SyncRecord("pull", {}, {}, {}, NoPage, Start)
  BY AnswerFields
<1>2. PhoneTypes'
  BY <1>1 DEF RecordsInv, PhoneTypes
<1>3. SyncTypes' /\ sync'.sent = {} /\ sync'.page = NoPage
  BY <1>1 DEF SyncTypes, SyncRecord
<1> QED  BY <1>1, <1>2, <1>3, SyncKeepsInv

-----------------------------------------------------------------------------
(* The download: a page holds what the server has, so what waits as it is.    *)
LEMMA AskFields ==
    ASSUME SyncTypes, Ask
    PROVE  /\ sync.step = "pull"
           /\ UNCHANGED <<row, clock, grant, access, copy, queue, cursor, refresh>>
           /\ sync' = SyncRecord("asked", sync.sent, sync.todo, sync.refused, sync.page, cursor)
<1>1. sync' = [sync EXCEPT !.step = "asked", !.cursor = cursor]
  BY DEF Ask
<1>2. [sync EXCEPT !.step = "asked"] =
        SyncRecord("asked", sync.sent, sync.todo, sync.refused, sync.page, sync.cursor)
  BY DEF SyncTypes, SyncRecord
<1>3. [SyncRecord("asked", sync.sent, sync.todo, sync.refused, sync.page, sync.cursor)
         EXCEPT !.cursor = cursor] =
        SyncRecord("asked", sync.sent, sync.todo, sync.refused, sync.page, cursor)
  BY DEF SyncRecord
<1>4. [sync EXCEPT !.step = "asked", !.cursor = cursor] =
        SyncRecord("asked", sync.sent, sync.todo, sync.refused, sync.page, cursor)
  BY <1>2, <1>3
<1> QED  BY <1>1, <1>4 DEF Ask, server, outbox

LEMMA AskKeepsInv ==
    ASSUME RecordsInv, removed \subseteq removed', Ask
    PROVE  RecordsInv'
<1>1. /\ UNCHANGED <<row, clock, grant, access, copy, queue, refresh>>
      /\ sync' = SyncRecord("asked", sync.sent, sync.todo, sync.refused, sync.page, cursor)
  BY AskFields DEF RecordsInv
<1>2. PhoneTypes'
  BY <1>1 DEF RecordsInv, PhoneTypes
<1>3. SyncTypes' /\ sync'.sent = sync.sent /\ sync'.page = sync.page
  BY <1>1 DEF RecordsInv, SyncTypes, SyncRecord
<1> QED  BY <1>1, <1>2, <1>3, SyncKeepsInv

LEMMA PageFields ==
    ASSUME SyncTypes, RowTypes, Page
    PROVE  /\ sync.step = "asked"
           /\ UNCHANGED <<row, clock, grant, access, copy, queue, cursor, refresh>>
           /\ \E page, to :
                /\ sync' = SyncRecord("page", sync.sent, sync.todo, sync.refused, page, to)
                /\ DOMAIN page = UNION {Changed(t) : t \in DOMAIN Tables}
                /\ \A e \in DOMAIN page :
                      /\ e \in Records /\ row[e].status # "none"
                      /\ page[e] = Sent(e) /\ page[e] \in {"zero", "live", "gone"}
                /\ to = [t \in DOMAIN Tables |-> Advanced(t)]
<1> DEFINE changed == UNION {Changed(t) : t \in DOMAIN Tables}
           page == [e \in changed |-> Sent(e)]
           to == [t \in DOMAIN Tables |-> Advanced(t)]
<1>1. \A e \in changed : e \in Records /\ row[e].status # "none"
  <2>1. \A t \in DOMAIN Tables : Tables[t] \subseteq Records
    BY DEF Tables, Records
  <2> QED  BY <2>1 DEF Changed
<1>2. \A e \in changed : Sent(e) \in {"zero", "live", "gone"}
  <2> TAKE e \in changed
  <2>1. row[e].status \in {"live", "gone"}
    BY <1>1 DEF RowTypes
  <2> QED  BY <2>1 DEF Sent
<1>3. sync' = [sync EXCEPT !.step = "page", !.page = page, !.cursor = to]
  BY DEF Page
<1> HIDE DEF changed, to
<1>4. DOMAIN page = changed /\ \A e \in changed : page[e] = Sent(e)
  OBVIOUS
<1> HIDE DEF page
<1>5. [sync EXCEPT !.step = "page", !.page = page, !.cursor = to] =
        SyncRecord("page", sync.sent, sync.todo, sync.refused, page, to)
  <2>1. [sync EXCEPT !.step = "page"] =
          SyncRecord("page", sync.sent, sync.todo, sync.refused, sync.page, sync.cursor)
    BY DEF SyncTypes, SyncRecord
  <2>2. [SyncRecord("page", sync.sent, sync.todo, sync.refused, sync.page, sync.cursor)
           EXCEPT !.page = page] =
          SyncRecord("page", sync.sent, sync.todo, sync.refused, page, sync.cursor)
    BY DEF SyncRecord
  <2>3. [SyncRecord("page", sync.sent, sync.todo, sync.refused, page, sync.cursor)
           EXCEPT !.cursor = to] =
          SyncRecord("page", sync.sent, sync.todo, sync.refused, page, to)
    BY DEF SyncRecord
  <2> QED  BY <2>1, <2>2, <2>3
<1>6. /\ changed = UNION {Changed(t) : t \in DOMAIN Tables}
      /\ to = [t \in DOMAIN Tables |-> Advanced(t)]
  BY DEF changed, to
<1>7. \E p, c :
        /\ sync' = SyncRecord("page", sync.sent, sync.todo, sync.refused, p, c)
        /\ DOMAIN p = UNION {Changed(t) : t \in DOMAIN Tables}
        /\ \A e \in DOMAIN p :
              /\ e \in Records /\ row[e].status # "none"
              /\ p[e] = Sent(e) /\ p[e] \in {"zero", "live", "gone"}
        /\ c = [t \in DOMAIN Tables |-> Advanced(t)]
  BY <1>1, <1>2, <1>3, <1>4, <1>5, <1>6
<1> QED  BY <1>7 DEF Page, server, outbox

LEMMA PageKeepsInv ==
    ASSUME RecordsInv, removed \subseteq removed', Page
    PROVE  RecordsInv'
<1>1. PICK page, to :
        /\ sync' = SyncRecord("page", sync.sent, sync.todo, sync.refused, page, to)
        /\ \A e \in DOMAIN page : /\ e \in Records /\ row[e].status # "none"
                                  /\ page[e] = Sent(e) /\ page[e] \in {"zero", "live", "gone"}
  BY PageFields DEF RecordsInv
<1>2. UNCHANGED <<row, clock, grant, access, copy, queue, refresh>>
  BY PageFields DEF RecordsInv
<1>3. RowTypes' /\ PhoneTypes'
  BY <1>2 DEF RecordsInv, RowTypes, PhoneTypes
<1>4. SyncTypes' /\ sync'.sent = sync.sent /\ sync'.page = page
  BY <1>1 DEF RecordsInv, SyncTypes, SyncRecord
<1>5. PageHasRows'
  BY <1>1, <1>2, <1>4 DEF PageHasRows
<1>6. UnsentIsSafe'
  <2> SUFFICES ASSUME NEW d \in Own, Put(d) \in queue
               PROVE  d \in removed' \/ WaitsSafely(d)'
    BY <1>2 DEF UnsentIsSafe
  <2>1. d \in removed \/ WaitsSafely(d)
    BY DEF RecordsInv, UnsentIsSafe
  <2>2. ASSUME WaitsSafely(d), d \in DOMAIN page PROVE page[d] = "live"
    <3>1. d \in Records /\ page[d] = Sent(d) /\ row[d].status \in {"live"}
      BY <1>1, <2>2 DEF RecordsInv, RowTypes, WaitsSafely
    <3>2. Sent(d) = row[d].status
      BY RecordsAssumption DEF Sent
    <3> QED  BY <3>1, <3>2
  <2> QED  BY <1>2, <1>4, <2>1, <2>2 DEF WaitsSafely
<1> QED  BY <1>3, <1>4, <1>5, <1>6 DEF RecordsInv

LEMMA ApplyFields ==
    ASSUME SyncTypes, Apply
    PROVE  /\ sync.step = "page"
           /\ UNCHANGED <<row, clock, grant, access, queue, cursor, refresh>>
           /\ copy' = [e \in Records |-> IF e \in DOMAIN sync.page THEN sync.page[e] ELSE copy[e]]
           /\ sync' = SyncRecord("applied", sync.sent, sync.todo, sync.refused, NoPage, sync.cursor)
<1>1. sync' = [sync EXCEPT !.step = "applied", !.page = NoPage]
  BY DEF Apply
<1>2. [sync EXCEPT !.step = "applied"] =
        SyncRecord("applied", sync.sent, sync.todo, sync.refused, sync.page, sync.cursor)
  BY DEF SyncTypes, SyncRecord
<1>3. [SyncRecord("applied", sync.sent, sync.todo, sync.refused, sync.page, sync.cursor)
         EXCEPT !.page = NoPage] =
        SyncRecord("applied", sync.sent, sync.todo, sync.refused, NoPage, sync.cursor)
  BY DEF SyncRecord
<1>4. [sync EXCEPT !.step = "applied", !.page = NoPage] =
        SyncRecord("applied", sync.sent, sync.todo, sync.refused, NoPage, sync.cursor)
  BY <1>2, <1>3
<1> QED  BY <1>1, <1>4 DEF Apply, server, outbox

LEMMA ApplyKeepsInv ==
    ASSUME RecordsInv, removed \subseteq removed', Apply
    PROVE  RecordsInv'
<1>1. /\ UNCHANGED <<row, clock, grant, access, queue, refresh>>
      /\ copy' = [e \in Records |-> IF e \in DOMAIN sync.page THEN sync.page[e] ELSE copy[e]]
      /\ sync' = SyncRecord("applied", sync.sent, sync.todo, sync.refused, NoPage, sync.cursor)
  BY ApplyFields DEF RecordsInv
<1>2. RowTypes'
  BY <1>1 DEF RecordsInv, RowTypes
<1>3. PhoneTypes'
  BY <1>1 DEF RecordsInv, PhoneTypes, PageHasRows
<1>4. SyncTypes' /\ sync'.sent = sync.sent /\ sync'.page = NoPage
  BY <1>1 DEF RecordsInv, SyncTypes, SyncRecord
<1>5. PageHasRows'
  BY <1>4, NothingUnderWay DEF PageHasRows
<1>6. UnsentIsSafe'
  <2> SUFFICES ASSUME NEW d \in Own, Put(d) \in queue
               PROVE  d \in removed' \/ WaitsSafely(d)'
    BY <1>1 DEF UnsentIsSafe
  <2>1. d \in Records /\ (d \in removed \/ WaitsSafely(d))
    BY DEF RecordsInv, UnsentIsSafe, Records, Expenses
  <2>2. WaitsSafely(d) => copy'[d] = "live"
    BY <1>1, <2>1 DEF WaitsSafely
  <2> QED  BY <1>1, <1>4, <2>1, <2>2, NothingUnderWay DEF WaitsSafely
<1> QED  BY <1>2, <1>3, <1>4, <1>5, <1>6 DEF RecordsInv

-----------------------------------------------------------------------------
(* Access is read again, and the records it no longer covers are forgotten.   *)
LEMMA ForgetKeepsInv ==
    ASSUME RecordsInv, removed \subseteq removed', Forget
    PROVE  RecordsInv'
<1>1. /\ UNCHANGED <<row, clock, grant, access, queue, sync>>
      /\ copy' = IF refresh.sees THEN copy
                 ELSE [e \in Records |-> IF e \in Expenses /\ Put(e) \notin queue THEN "none"
                                         ELSE copy[e]]
      /\ refresh' = [refresh EXCEPT !.step = "forgotten"]
  BY DEF Forget, server, outbox
<1>2. RowTypes' /\ SyncTypes' /\ PageHasRows'
  BY <1>1 DEF RecordsInv, RowTypes, SyncTypes, PageHasRows
<1>3. copy' \in [Records -> {"none", "zero", "live", "gone"}]
  <2>1. copy \in [Records -> {"none", "zero", "live", "gone"}]
    BY DEF RecordsInv, PhoneTypes
  <2>2. CASE refresh.sees
    BY <1>1, <2>1, <2>2
  <2>3. CASE ~refresh.sees
    BY <1>1, <2>1, <2>3
  <2> QED  BY <2>2, <2>3
<1>4. PhoneTypes'
  BY <1>1, <1>3 DEF RecordsInv, PhoneTypes
<1>5. UnsentIsSafe'
  <2> SUFFICES ASSUME NEW d \in Own, Put(d) \in queue
               PROVE  d \in removed' \/ WaitsSafely(d)'
    BY <1>1 DEF UnsentIsSafe
  <2>1. d \in Records /\ (d \in removed \/ WaitsSafely(d))
    BY DEF RecordsInv, UnsentIsSafe, Records, Expenses
  <2>2. copy'[d] = copy[d]
    BY <1>1, <2>1
  <2> QED  BY <1>1, <2>1, <2>2 DEF WaitsSafely
<1> QED  BY <1>2, <1>4, <1>5 DEF RecordsInv

(* Steps of the permission and of the phone's reading of it.                  *)
LEMMA AccessKeepsInv ==
    ASSUME RecordsInv, removed \subseteq removed',
           SetGrant \/ RefreshAsk \/ ClearCursor \/ SaveAccess
    PROVE  RecordsInv'
<1>1. UNCHANGED <<row, clock, copy, queue, sync>>
  BY DEF SetGrant, RefreshAsk, ClearCursor, SaveAccess, server, outbox
<1>2. PhoneTypes'
  <2>1. PhoneTypes
    BY DEF RecordsInv
  <2>2. CASE SetGrant
    BY <2>1, <2>2 DEF PhoneTypes, SetGrant, outbox
  <2>3. CASE RefreshAsk
    BY <2>1, <2>3 DEF PhoneTypes, RefreshAsk, NoRefresh, outbox
  <2>4. CASE ClearCursor
    BY <2>1, <2>4 DEF PhoneTypes, ClearCursor, outbox
  <2>5. CASE SaveAccess
    BY <2>1, <2>5 DEF PhoneTypes, SaveAccess, NoRefresh, outbox
  <2> QED  BY <2>2, <2>3, <2>4, <2>5
<1> QED  BY <1>1, <1>2, RecordsFrame

LEMMA EndsKeepInv ==
    ASSUME RecordsInv, removed \subseteq removed', SaveCursor \/ GiveUp \/ AppCloses
    PROVE  RecordsInv'
<1>1. /\ UNCHANGED <<row, clock, copy, queue, grant, access>> /\ sync' = NoSync
      /\ refresh' = refresh \/ refresh' = NoRefresh
  BY DEF SaveCursor, GiveUp, AppCloses, server, outbox
<1>2. PhoneTypes'
  BY <1>1, NothingUnderWay DEF RecordsInv, PhoneTypes
<1>3. SyncTypes' /\ sync'.sent = {} /\ sync'.page = NoPage
  BY <1>1, NothingUnderWay DEF SyncTypes, SyncRecord
<1> QED  BY <1>1, <1>2, <1>3, SyncKeepsInv

LEMMA NextKeepsInv == ASSUME RecordsInv, [RecordsNext]_recordsVars PROVE RecordsInv'
<1>1. CASE UNCHANGED recordsVars
  BY <1>1, RecordsFrame DEF recordsVars, server, outbox, histories, RecordsInv, PhoneTypes
<1>2. CASE RecordsNext
  <2>1. RecordsStep /\ RecordsHistory /\ removed \subseteq removed'
    BY <1>2 DEF RecordsNext, RecordsHistory
  <2>2. ASSUME NEW e \in Records,
               \/ OwnerSaves(e) \/ OwnerRemoves(e) \/ OtherRecords(e) \/ OtherRemoves(e)
               \/ RecordExpense(e) \/ RemoveExpense(e) \/ EditProduct(e)
        PROVE  RecordsInv'
    BY <2>1, <2>2, OthersKeepInv, RecordExpenseKeepsInv, RemoveExpenseKeepsInv,
       EditProductKeepsInv
  <2>3. CASE Sync \/ Refuse
    BY <2>1, <2>3, BeginKeepsInv, ServeKeepsInv, AnswerKeepsInv, AskKeepsInv, PageKeepsInv,
       ApplyKeepsInv, EndsKeepInv, RefuseKeepsInv DEF Sync
  <2>4. CASE Refresh
    BY <2>1, <2>4, AccessKeepsInv, ForgetKeepsInv DEF Refresh
  <2>5. CASE SetGrant \/ GiveUp \/ AppCloses
    BY <2>1, <2>5, AccessKeepsInv, EndsKeepInv
  <2> QED  BY <2>1, <2>2, <2>3, <2>4, <2>5 DEF RecordsStep
<1> QED  BY <1>1, <1>2

LEMMA RecordsInductive == RecordsSpec => []RecordsInv
BY RecordsInitially, NextKeepsInv, PTL DEF RecordsSpec

LEMMA SafeIsVisible == ASSUME RecordsInv PROVE UnsentStaysVisible
<1> SUFFICES ASSUME NEW e \in Expenses, Put(e) \in queue PROVE copy[e] = "live" \/ e \in removed
  BY DEF UnsentStaysVisible
<1>1. e \in Own
  BY EntriesDiffer DEF RecordsInv, PhoneTypes
<1> QED  BY <1>1 DEF RecordsInv, UnsentIsSafe, WaitsSafely

(* What a staff member recorded and has not uploaded stays on their screen,   *)
(* whatever is downloaded and refused, whoever's access changes and when, and *)
(* wherever the app is closed, unless another phone that received an earlier  *)
(* upload of it removed it: _apply meets it only as it is, and                *)
(* forgetPrivateRecords spares it (sync_coordinator.dart, session_dao.dart).  *)
THEOREM UnsentIsKept == RecordsSpec => []UnsentStaysVisible
<1>1. RecordsInv => UnsentStaysVisible
  BY SafeIsVisible
<1> QED  BY <1>1, RecordsInductive, PTL

-----------------------------------------------------------------------------
(* A settled phone: access did not change twice before the phone had re-read  *)
(* it, and no sync ran beside the re-reading of a change. Behind its cursor   *)
(* nothing is missing, and it holds nothing that is withheld from it: only a  *)
(* sync moves the cursor, and a change of access that falls between a page    *)
(* and the cursor saved for it is followed by a reading that clears the       *)
(* cursor.                                                                    *)
Times == [DOMAIN Tables -> Nat]

(* A row that is not there is as in the beginning; time goes on.              *)
Dated ==
    /\ \A e \in Records :
          /\ row[e].status = "none" => row[e] = NoRow
          /\ row[e].status # "none" => row[e].stamp >= 1 /\ row[e].stamp <= clock
    /\ cursor \in Times /\ \A t \in DOMAIN Tables : cursor[t] <= clock
    /\ sync.cursor \in Times /\ \A t \in DOMAIN Tables : sync.cursor[t] <= clock

(* One entry at most waits for an expense.                                    *)
OneEntry == \A e \in Expenses :
    /\ ~(Put(e) \in queue /\ Delete(e) \in queue)
    /\ ~(Put(e) \in sync.sent /\ Delete(e) \in sync.sent)

(* What was served shows in the row.                                          *)
Served == \A e \in Expenses :
    /\ Put(e) \in sync.sent => Put(e) \in sync.todo \cup sync.refused \/ row[e].mine
    /\ Delete(e) \in sync.sent =>
         Delete(e) \in sync.todo \cup sync.refused \/ row[e].status # "live"

(* Nothing is shown, or was removed, that nobody recorded.                    *)
Recorded == \A e \in Expenses :
    /\ copy[e] = "live" => Put(e) \in queue \/ row[e].status # "none"
    /\ e \in Theirs /\ Delete(e) \in queue \cup sync.sent => row[e].status # "none"

(* Without the view of profit, the phone shows what its staff member made.    *)
OnlyTheirOwn == ~grant =>
    \A e \in Expenses : copy[e] = "live" => Put(e) \in queue \/ row[e].mine

(* While access is read again, nothing is synced and nothing granted.         *)
RefreshApart ==
    /\ sync.step = "idle" => sync = NoSync
    /\ refresh.step # "idle" => sync = NoSync /\ refresh.sees = grant /\ access # grant
    /\ refresh.step = "cleared" => cursor = Start
    /\ refresh.step \in {"forgotten", "cleared"} => OnlyTheirOwn

(* The phone has a row as it is sent to it, or has removed it since.          *)
Agrees(e) == copy[e] = Sent(e) \/ (copy[e] = "gone" /\ Delete(e) \in queue)

Behind(e, to) ==
    \E t \in DOMAIN Tables :
        e \in Tables[t] /\ ~Withheld(t) /\ row[e].status # "none" /\ row[e].stamp <= to[t]

NothingSkipped == \A e \in Records : Behind(e, cursor) => Agrees(e)

(* The page on its way, and the cursor that will be saved for it.             *)
PageIsFair ==
    /\ sync.step = "asked" => sync.cursor = cursor
    /\ sync.step = "page" => \A e \in Records : Behind(e, sync.cursor) =>
          (e \in DOMAIN sync.page /\ sync.page[e] = Sent(e)) \/
          (e \notin DOMAIN sync.page /\ Agrees(e))
    /\ sync.step = "page" => \A e \in DOMAIN sync.page : ~Behind(e, cursor)
    /\ sync.step = "applied" => \A e \in Records : Behind(e, sync.cursor) => Agrees(e)
    /\ ~grant => Expenses \cap DOMAIN sync.page = {}

Fair == OnlyTheirOwn /\ NothingSkipped /\ PageIsFair
Settled == access = grant => Fair

SettledInv ==
    RecordsInv /\ Dated /\ OneEntry /\ Served /\ Recorded /\ RefreshApart /\ Settled

(* The phone knows its access, and its cursor is past every row it may see.   *)
UpToDate ==
    /\ access = grant
    /\ \A t \in DOMAIN Tables : ~Withheld(t) => \A e \in Tables[t] : row[e].stamp <= cursor[t]

-----------------------------------------------------------------------------
LEMMA TablesShape ==
    /\ DOMAIN Tables = {"products", "expenses"}
    /\ Tables["products"] = Products /\ Tables["expenses"] = Expenses
    /\ Start \in Times /\ \A t \in DOMAIN Tables : Start[t] = 0 /\ Tables[t] \subseteq Records
    /\ \A e \in Records : \E t \in DOMAIN Tables : e \in Tables[t]
BY DEF Tables, Start, Times, Records

(* A row that was not written, seen under the same access, is sent the same.  *)
LEMMA SentSame ==
    ASSUME NEW e, row'[e] = row[e], grant' = grant
    PROVE  Sent(e)' = Sent(e)
BY DEF Sent

LEMMA NoRowIsNobodys == ~NoRow.mine /\ NoRow.status = "none"
BY DEF NoRow

LEMMA SettledInitially == ASSUME RecordsInit PROVE SettledInv
<1>1. RecordsInv
  BY RecordsInitially
<1>2. /\ row = [e \in Records |-> NoRow] /\ clock = 0 /\ access = grant
      /\ copy = [e \in Records |-> "none"] /\ queue = {} /\ cursor = Start
      /\ sync = SyncRecord("idle", {}, {}, {}, NoPage, Start) /\ sync = NoSync
      /\ refresh.step = "idle" /\ DOMAIN NoPage = {} /\ NoRow.status = "none"
  BY NothingUnderWay DEF RecordsInit, NoRefresh
<1>3. \A e \in Records : row[e] = NoRow /\ row[e].status = "none" /\ copy[e] = "none"
  BY <1>2
<1>4. Expenses \subseteq Records
  BY DEF Records
<1>5. Dated
  BY <1>2, <1>3, TablesShape DEF Dated, SyncRecord, Times
<1>6. OneEntry /\ Served /\ Recorded
  BY <1>2, <1>3, <1>4 DEF OneEntry, Served, Recorded, SyncRecord
<1>7. RefreshApart
  BY <1>2 DEF RefreshApart, SyncRecord
<1>8. OnlyTheirOwn /\ NothingSkipped
  BY <1>3, <1>4 DEF OnlyTheirOwn, NothingSkipped, Behind
<1>9. PageIsFair
  BY <1>2 DEF PageIsFair, SyncRecord
<1> QED  BY <1>1, <1>5, <1>6, <1>7, <1>8, <1>9 DEF SettledInv, Settled, Fair

(* Up to date, the phone has what it may see.                                 *)
LEMMA UpToDateIsRight ==
    ASSUME SettledInv, UpToDate
    PROVE  HasWhatItMaySee /\ HasNothingElse
<1>1. /\ OnlyTheirOwn /\ NothingSkipped /\ Recorded /\ queue \subseteq Entries
      /\ Expenses \subseteq Records /\ Products \subseteq Records
  BY DEF SettledInv, RecordsInv, PhoneTypes, Settled, Fair, UpToDate, Records
<1>2. ASSUME NEW t \in DOMAIN Tables, ~Withheld(t), NEW e \in Tables[t], row[e].status # "none",
             Delete(e) \notin queue
      PROVE  copy[e] = Sent(e)
  <2>1. e \in Records /\ Behind(e, cursor)
    BY <1>2, TablesShape DEF UpToDate, Behind
  <2> QED  BY <1>1, <1>2, <2>1 DEF NothingSkipped, Agrees
<1>3. ASSUME NEW p \in Products, row[p].status # "none" PROVE copy[p] = Sent(p)
  <2>1. Delete(p) \notin queue
    <3>1. Delete(p).kind = "delete" /\ Delete(p).of = p
      BY EntriesDiffer
    <3> QED  BY <1>1, <3>1, EntryKinds, RecordsAssumption DEF Expenses
  <2> QED  BY <1>2, <1>3, <2>1, TablesShape DEF Withheld
<1>4. ASSUME NEW e \in Expenses, grant, ~Unsent(e)
      PROVE  copy[e] = "live" <=> row[e].status = "live"
  <2>1. Put(e) \notin queue /\ Delete(e) \notin queue
    BY <1>4, EntriesDiffer DEF Unsent
  <2>2. row[e].status # "none" => copy[e] = Sent(e)
    BY <1>2, <1>4, <2>1, TablesShape DEF Withheld
  <2>3. e \notin Products /\ Sent(e) = row[e].status
    BY RecordsAssumption DEF Sent, Expenses
  <2>4. copy[e] = "live" => row[e].status # "none"
    BY <1>1, <2>1 DEF Recorded
  <2> QED  BY <2>2, <2>3, <2>4
<1>5. HasNothingElse
  BY <1>1 DEF HasNothingElse, OnlyTheirOwn
<1> QED  BY <1>3, <1>4, <1>5 DEF HasWhatItMaySee

-----------------------------------------------------------------------------
(* Numbers with a bound have a greatest one; so a cursor moves to a row that  *)
(* was sent, or stays.                                                        *)
LEMMA GreatestNumber ==
    ASSUME NEW S \in SUBSET Nat, S # {}, NEW b \in Nat, \A n \in S : n <= b
    PROVE  \E n \in S : \A m \in S : m <= n
<1> DEFINE Bounds == {n \in Nat : \A m \in S : m <= n}
<1>1. Bounds \subseteq Nat /\ Bounds # {}
  OBVIOUS
<1> HIDE DEF Bounds
<1>2. PICK n \in Bounds : \A m \in Bounds : ~(<<m, n>> \in OpToRel(<, Nat))
  BY <1>1, NatLessThanWellFounded, WFMin
<1>3. n \in Nat /\ \A m \in Bounds : ~(m < n)
  BY <1>1, <1>2 DEF OpToRel
<1>4. \A m \in S : m <= n
  BY <1>2 DEF Bounds
<1>5. n \in S
  <2> SUFFICES ASSUME n \notin S PROVE FALSE
    OBVIOUS
  <2>1. \A m \in S : m <= n - 1 /\ m \in Nat
    BY <1>3, <1>4
  <2>2. n - 1 \in Nat
    <3>1. PICK m : m \in S
      OBVIOUS
    <3>2. m \in Nat /\ m <= n - 1
      BY <2>1, <3>1
    <3> QED  BY <1>3, <3>2
  <2>3. n - 1 \in Bounds
    BY <2>1, <2>2 DEF Bounds
  <2> QED  BY <1>3, <2>2, <2>3
<1> QED  BY <1>4, <1>5

LEMMA AdvancedBound ==
    ASSUME RowTypes, Dated, NEW t \in DOMAIN Tables
    PROVE  Advanced(t) \in Nat /\ Advanced(t) <= clock
<1> DEFINE S == {row[e].stamp : e \in Changed(t)} \cup {sync.cursor[t]}
<1>1. \A e \in Changed(t) : e \in Records /\ row[e].status # "none"
  BY TablesShape DEF Changed
<1>2. \A n \in S : n \in Nat /\ n <= clock
  <2>1. \A e \in Changed(t) : row[e].stamp \in Nat /\ row[e].stamp <= clock
    BY <1>1 DEF RowTypes, Dated
  <2>2. sync.cursor[t] \in Nat /\ sync.cursor[t] <= clock
    BY DEF Dated, Times
  <2> QED  BY <2>1, <2>2
<1>3. clock \in Nat /\ S \in SUBSET Nat /\ S # {}
  BY <1>2 DEF RowTypes
<1>4. \A e \in Changed(t) : row[e].stamp \in S
  OBVIOUS
<1>5. Advanced(t) = CHOOSE n \in S : \A e \in Changed(t) : row[e].stamp <= n
  BY DEF Advanced
<1> HIDE DEF S
<1>6. \E n \in S : \A m \in S : m <= n
  BY <1>2, <1>3, GreatestNumber
<1>7. \E n \in S : \A e \in Changed(t) : row[e].stamp <= n
  BY <1>4, <1>6
<1>8. Advanced(t) \in S
  BY <1>5, <1>7
<1> QED  BY <1>2, <1>8

-----------------------------------------------------------------------------
(* A write: the row is newer than any cursor, and what was recorded stays so. *)
LEMMA WriteKeepsSettled ==
    ASSUME SettledInv, RecordsInv', NEW e \in Records, clock' = clock + 1,
           row'[e].status # "none", row'[e].stamp = clock + 1,
           e \in Expenses /\ row[e].mine => row'[e].mine,
           \A d \in Records : d # e => row'[d] = row[d],
           UNCHANGED <<grant, access, copy, queue, cursor, refresh>>,
           sync'.step = sync.step, sync'.sent = sync.sent, sync'.page = sync.page,
           sync'.cursor = sync.cursor, sync' = sync \/ sync.step = "sent",
           Served'
    PROVE  SettledInv'
<1>1. clock \in Nat /\ Expenses \subseteq Records
  BY DEF SettledInv, RecordsInv, RowTypes, Records
<1>2. Dated'
  <2>1. ASSUME NEW d \in Records
        PROVE  /\ row'[d].status = "none" => row'[d] = NoRow
               /\ row'[d].status # "none" => row'[d].stamp >= 1 /\ row'[d].stamp <= clock'
    <3>1. row[d].stamp \in Nat /\ clock' \in Nat /\ clock' >= 1 /\ clock <= clock'
      BY <1>1 DEF SettledInv, RecordsInv, RowTypes
    <3>2. CASE d = e
      BY <3>1, <3>2
    <3>3. CASE d # e
      BY <1>1, <3>1, <3>3 DEF SettledInv, Dated
    <3> QED  BY <3>2, <3>3
  <2>2. ASSUME NEW t \in DOMAIN Tables
        PROVE  cursor'[t] <= clock' /\ sync'.cursor[t] <= clock'
    <3>1. /\ cursor[t] \in Nat /\ cursor[t] <= clock
          /\ sync.cursor[t] \in Nat /\ sync.cursor[t] <= clock
      BY DEF SettledInv, Dated, Times
    <3> QED  BY <1>1, <3>1
  <2> QED  BY <2>1, <2>2 DEF SettledInv, Dated
<1>3. OneEntry'
  BY DEF SettledInv, OneEntry
<1>4. \A d \in Expenses : (row[d].mine => row'[d].mine) /\
                          (row[d].status # "none" => row'[d].status # "none")
  BY <1>1
<1>5. Recorded' /\ (OnlyTheirOwn => OnlyTheirOwn')
  BY <1>4 DEF SettledInv, Recorded, OnlyTheirOwn
<1>6. RefreshApart'
  BY <1>5, NothingUnderWay DEF SettledInv, RefreshApart, SyncRecord
<1>7. \A d \in Records : /\ Behind(d, cursor)' => d # e /\ Behind(d, cursor)
                         /\ Behind(d, sync.cursor)' => d # e /\ Behind(d, sync.cursor)
  <2> SUFFICES ASSUME NEW d \in Records
               PROVE  /\ Behind(d, cursor)' => d # e /\ Behind(d, cursor)
                      /\ Behind(d, sync.cursor)' => d # e /\ Behind(d, sync.cursor)
    OBVIOUS
  <2>1. \A t \in DOMAIN Tables : /\ cursor[t] \in Nat /\ cursor[t] <= clock
                                 /\ sync.cursor[t] \in Nat /\ sync.cursor[t] <= clock
    BY DEF SettledInv, Dated, Times
  <2>2. \A t \in DOMAIN Tables : /\ ~(row'[e].stamp <= cursor[t])
                                 /\ ~(row'[e].stamp <= sync.cursor[t])
    BY <1>1, <2>1
  <2> QED  BY <2>2 DEF Behind, Withheld
<1>8. \A d \in Records : d # e => (Agrees(d) => Agrees(d)') /\ Sent(d)' = Sent(d)
  BY SentSame DEF Agrees
<1>9. ASSUME Fair PROVE Fair'
  <2>1. NothingSkipped'
    BY <1>7, <1>8, <1>9 DEF Fair, NothingSkipped
  <2>2. sync.step = "page" => \A d \in DOMAIN sync.page : d \in Records
    BY DEF SettledInv, RecordsInv, PageHasRows
  <2>3. PageIsFair'
    BY <1>7, <1>8, <1>9, <2>2 DEF Fair, PageIsFair
  <2> QED  BY <1>5, <1>9, <2>1, <2>3 DEF Fair
<1> QED  BY <1>2, <1>3, <1>5, <1>6, <1>9 DEF SettledInv, Settled

(* Steps that leave rows, copies, outbox, cursor and sync alone.              *)
LEMMA SettledFrame ==
    ASSUME SettledInv, RecordsInv', UNCHANGED <<row, clock, grant, copy, queue, cursor, sync>>,
           RefreshApart', access' = grant => access = grant
    PROVE  SettledInv'
<1>1. Dated' /\ OneEntry' /\ Served' /\ Recorded'
  BY DEF SettledInv, Dated, OneEntry, Served, Recorded
<1>2. Fair => Fair'
  BY DEF Fair, OnlyTheirOwn, NothingSkipped, PageIsFair, Behind, Withheld, Agrees, Sent
<1> QED  BY <1>1, <1>2 DEF SettledInv, Settled

LEMMA OthersKeepSettled ==
    ASSUME SettledInv, RecordsInv', NEW e \in Records,
           OwnerSaves(e) \/ OwnerRemoves(e) \/ OtherRecords(e) \/ OtherRemoves(e)
    PROVE  SettledInv'
<1>1. /\ UNCHANGED <<grant, access, copy, queue, cursor, refresh, sync>>
      /\ RowTypes /\ Expenses \subseteq Records
  BY DEF OwnerSaves, OwnerRemoves, OtherRecords, OtherRemoves, Writes, outbox, SettledInv,
         RecordsInv, Records
<1>2. PICK status \in {"live", "gone"}, mine \in BOOLEAN, cost \in BOOLEAN :
        /\ Stamped(e, status, mine, cost)
        /\ e \in Expenses => \/ status = "gone" /\ mine = row[e].mine
                             \/ status = "live" /\ row[e].status = "none" /\ e \in Theirs
  <2>1. CASE OwnerSaves(e)
    BY <2>1, RecordsAssumption DEF OwnerSaves, Expenses
  <2>2. CASE OtherRecords(e)
    BY <2>2 DEF OtherRecords
  <2>3. CASE OwnerRemoves(e) \/ OtherRemoves(e)
    <3>1. Stamped(e, "gone", row[e].mine, row[e].cost)
      BY <2>3 DEF OwnerRemoves, OtherRemoves, SoftDelete
    <3>2. row[e].mine \in BOOLEAN /\ row[e].cost \in BOOLEAN
      BY <1>1 DEF RowTypes
    <3> QED  BY <3>1, <3>2
  <2> QED  BY <2>1, <2>2, <2>3
<1>3. /\ clock' = clock + 1 /\ row'[e].stamp = clock + 1
      /\ row'[e].status = status /\ row'[e].mine = mine
      /\ \A d \in Records : d # e => row'[d] = row[d]
  BY <1>1, <1>2 DEF Stamped, RowTypes
<1>4. e \in Expenses /\ row[e].mine => row'[e].mine
  BY <1>2, <1>3, NoRowIsNobodys DEF SettledInv, Dated
<1>5. Served'
  <2> SUFFICES ASSUME NEW d \in Expenses
               PROVE  /\ Put(d) \in sync.sent =>
                           Put(d) \in sync.todo \cup sync.refused \/ row'[d].mine
                      /\ Delete(d) \in sync.sent =>
                           Delete(d) \in sync.todo \cup sync.refused \/ row'[d].status # "live"
    BY <1>1 DEF Served
  <2>1. CASE d # e
    BY <1>1, <1>3, <2>1 DEF SettledInv, Served
  <2>2. CASE d = e
    <3>1. status = "live" => Delete(e) \notin sync.sent
      BY <1>2, <2>2 DEF SettledInv, Recorded
    <3> QED  BY <1>3, <1>4, <2>2, <3>1 DEF SettledInv, Served
  <2> QED  BY <2>1, <2>2
<1> QED  BY <1>1, <1>2, <1>3, <1>4, <1>5, WriteKeepsSettled

-----------------------------------------------------------------------------
(* The staff member. Their steps are about expenses and what waits of them.   *)
LEMMA OwnStepKeepsSettled ==
    ASSUME SettledInv, RecordsInv',
           UNCHANGED <<row, clock, grant, access, cursor, sync, refresh>>,
           OneEntry', Recorded', OnlyTheirOwn => OnlyTheirOwn',
           \A d \in Records : row[d].status # "none" /\ Agrees(d) => Agrees(d)'
    PROVE  SettledInv'
<1>1. Dated' /\ Served'
  BY DEF SettledInv, Dated, Served
<1>2. RefreshApart'
  BY DEF SettledInv, RefreshApart
<1>3. \A d : /\ Behind(d, cursor)' => Behind(d, cursor) /\ row[d].status # "none"
             /\ Behind(d, sync.cursor)' => Behind(d, sync.cursor) /\ row[d].status # "none"
  BY DEF Behind, Withheld
<1>4. \A d : Sent(d)' = Sent(d)
  BY DEF Sent
<1>5. Fair => Fair'
  BY <1>3, <1>4 DEF Fair, NothingSkipped, PageIsFair
<1> QED  BY <1>1, <1>2, <1>5 DEF SettledInv, Settled

LEMMA RecordExpenseKeepsSettled ==
    ASSUME SettledInv, RecordsInv', NEW e \in Records, RecordExpense(e)
    PROVE  SettledInv'
<1>1. /\ e \in Own /\ e \notin Theirs /\ row[e] = NoRow
      /\ \A r \in queue \cup sync.sent : r.of # e
      /\ copy' = [copy EXCEPT ![e] = "live"] /\ queue' = queue \cup {Put(e)}
      /\ UNCHANGED <<row, clock, grant, access, cursor, sync, refresh>>
  BY RecordsAssumption DEF RecordExpense, server
<1>2. /\ Delete(e) \notin queue /\ Delete(e) \notin sync.sent /\ Expenses \subseteq Records
  BY <1>1, EntriesDiffer DEF Records
<1>3. copy'[e] = "live" /\ \A d \in Records : d # e => copy'[d] = copy[d]
  BY <1>1 DEF SettledInv, RecordsInv, PhoneTypes
<1>4. \A d : /\ Delete(d) \in queue' <=> Delete(d) \in queue
             /\ Put(d) \in queue' <=> Put(d) \in queue \/ d = e
  <2> TAKE d
  <2>1. Put(d).of = d /\ Put(e).of = e /\ Put(e).kind = "put" /\ Delete(d).kind = "delete"
    BY EntriesDiffer
  <2> QED  BY <1>1, <2>1
<1>5. OneEntry' /\ Recorded'
  BY <1>1, <1>2, <1>3, <1>4 DEF SettledInv, OneEntry, Recorded
<1>6. OnlyTheirOwn => OnlyTheirOwn'
  BY <1>1, <1>2, <1>3, <1>4 DEF OnlyTheirOwn
<1>7. \A d \in Records : row[d].status # "none" /\ Agrees(d) => Agrees(d)'
  BY <1>1, <1>3, <1>4, NoRowIsNobodys DEF Agrees, Sent
<1> QED  BY <1>1, <1>5, <1>6, <1>7, OwnStepKeepsSettled

LEMMA RemoveExpenseKeepsSettled ==
    ASSUME SettledInv, RecordsInv', NEW e \in Records, RemoveExpense(e)
    PROVE  SettledInv'
<1>1. /\ e \in Expenses /\ copy[e] = "live" /\ copy' = [copy EXCEPT ![e] = "gone"]
      /\ queue' = (queue \ {Put(e)}) \cup {Delete(e)}
      /\ UNCHANGED <<row, clock, grant, access, cursor, sync, refresh>>
      /\ queue \subseteq Entries /\ Expenses \subseteq Records
  BY DEF RemoveExpense, server, SettledInv, RecordsInv, PhoneTypes, Records
<1>2. copy'[e] = "gone" /\ \A d \in Records : d # e => copy'[d] = copy[d]
  BY <1>1 DEF SettledInv, RecordsInv, PhoneTypes
<1>3. \A d : /\ Delete(d) \in queue' <=> Delete(d) \in queue \/ d = e
             /\ Put(d) \in queue' <=> Put(d) \in queue /\ d # e
  <2> TAKE d
  <2>1. /\ Put(d).of = d /\ Put(e).of = e /\ Put(d).kind = "put"
        /\ Delete(d).of = d /\ Delete(e).of = e /\ Delete(e).kind = "delete"
        /\ Put(e).kind = "put" /\ Delete(d).kind = "delete"
    BY EntriesDiffer
  <2> QED  BY <1>1, <2>1
<1>4. e \in Theirs => row[e].status # "none"
  <2>1. Put(e) \in queue => e \in Own
    BY <1>1, EntriesDiffer
  <2> QED  BY <1>1, <2>1, RecordsAssumption DEF SettledInv, Recorded
<1>5. OneEntry' /\ Recorded'
  BY <1>1, <1>2, <1>3, <1>4 DEF SettledInv, OneEntry, Recorded
<1>6. OnlyTheirOwn => OnlyTheirOwn'
  BY <1>1, <1>2, <1>3 DEF OnlyTheirOwn
<1>7. \A d \in Records : row[d].status # "none" /\ Agrees(d) => Agrees(d)'
  BY <1>1, <1>2, <1>3 DEF Agrees, Sent
<1> QED  BY <1>1, <1>5, <1>6, <1>7, OwnStepKeepsSettled

LEMMA EditProductKeepsSettled ==
    ASSUME SettledInv, RecordsInv', NEW p \in Records, EditProduct(p)
    PROVE  SettledInv'
<1> DEFINE c == copy[p] = "live"
<1>1. /\ queue' = (queue \ {Edit(p, TRUE), Edit(p, FALSE)}) \cup {Edit(p, c)}
      /\ UNCHANGED <<row, clock, grant, access, copy, cursor, sync, refresh>>
  BY DEF EditProduct, server
<1> HIDE DEF c
<1>2. \A d : /\ Delete(d) \in queue' <=> Delete(d) \in queue
             /\ Put(d) \in queue' <=> Put(d) \in queue
  BY <1>1 DEF Put, Delete, Edit
<1>3. OneEntry' /\ Recorded' /\ (OnlyTheirOwn => OnlyTheirOwn')
  BY <1>1, <1>2 DEF SettledInv, OneEntry, Recorded, OnlyTheirOwn
<1>4. \A d \in Records : row[d].status # "none" /\ Agrees(d) => Agrees(d)'
  BY <1>1, <1>2 DEF Agrees, Sent
<1> QED  BY <1>1, <1>3, <1>4, OwnStepKeepsSettled

-----------------------------------------------------------------------------
(* Access: it changes when the phone knows it, and is read between syncs.     *)
LEMMA SetGrantKeepsSettled ==
    ASSUME ~Toggled, SettledInv, RecordsInv', SetGrant
    PROVE  SettledInv'
<1>1. /\ access = grant /\ refresh.step = "idle" /\ grant' = ~grant /\ grant \in BOOLEAN
      /\ UNCHANGED <<row, clock, access, copy, queue, cursor, sync, refresh>>
  BY DEF SetGrant, Toggled, server, outbox, SettledInv, RecordsInv, PhoneTypes
<1>2. Dated' /\ OneEntry' /\ Served' /\ Recorded'
  BY <1>1 DEF SettledInv, Dated, OneEntry, Served, Recorded
<1>3. RefreshApart'
  BY <1>1 DEF SettledInv, RefreshApart
<1>4. access' # grant'
  BY <1>1
<1> QED  BY <1>2, <1>3, <1>4 DEF SettledInv, Settled

LEMMA RefreshAskKeepsSettled ==
    ASSUME ~Overlaps, SettledInv, RecordsInv', RefreshAsk
    PROVE  SettledInv'
<1>1. /\ refresh' = IF grant = access THEN NoRefresh ELSE [step |-> "answered", sees |-> grant]
      /\ UNCHANGED <<row, clock, grant, access, copy, queue, cursor, sync>>
  BY DEF RefreshAsk, server, outbox
<1>2. /\ refresh'.step \in {"idle", "answered"}
      /\ refresh'.step # "idle" => grant # access /\ refresh'.sees = grant
  BY <1>1 DEF NoRefresh
<1>3. refresh'.step # "idle" => sync = NoSync
  BY <1>1 DEF Overlaps, SettledInv, RefreshApart
<1>4. RefreshApart'
  BY <1>1, <1>2, <1>3 DEF SettledInv, RefreshApart
<1> QED  BY <1>1, <1>4, SettledFrame

LEMMA ForgetKeepsSettled ==
    ASSUME SettledInv, RecordsInv', Forget
    PROVE  SettledInv'
<1>1. /\ refresh.step = "answered"
      /\ copy' = IF refresh.sees THEN copy
                 ELSE [e \in Records |-> IF e \in Expenses /\ Put(e) \notin queue THEN "none"
                                         ELSE copy[e]]
      /\ refresh' = [refresh EXCEPT !.step = "forgotten"]
      /\ UNCHANGED <<row, clock, grant, access, queue, cursor, sync>>
      /\ Expenses \subseteq Records
  BY DEF Forget, server, outbox, Records
<1>2. /\ refresh'.step = "forgotten" /\ refresh'.sees = refresh.sees
      /\ refresh.sees = grant /\ sync = NoSync /\ access # grant
  BY <1>1 DEF SettledInv, RecordsInv, PhoneTypes, RefreshApart
<1>3. \A e \in Expenses : copy'[e] = "live" => copy[e] = "live" /\ (~grant => Put(e) \in queue)
  <2> TAKE e \in Expenses
  <2>1. CASE refresh.sees
    BY <1>1, <1>2, <2>1
  <2>2. CASE ~refresh.sees
    BY <1>1, <1>2, <2>2
  <2> QED  BY <2>1, <2>2
<1>4. Dated' /\ OneEntry' /\ Served' /\ Recorded'
  BY <1>1, <1>3 DEF SettledInv, Dated, OneEntry, Served, Recorded
<1>5. RefreshApart'
  BY <1>1, <1>2, <1>3 DEF SettledInv, RefreshApart, OnlyTheirOwn
<1> QED  BY <1>1, <1>2, <1>4, <1>5 DEF SettledInv, Settled

LEMMA ClearCursorKeepsSettled ==
    ASSUME SettledInv, RecordsInv', ClearCursor
    PROVE  SettledInv'
<1>1. /\ refresh.step = "forgotten" /\ cursor' = Start
      /\ refresh' = [refresh EXCEPT !.step = "cleared"]
      /\ UNCHANGED <<row, clock, grant, access, copy, queue, sync>>
  BY DEF ClearCursor, server, outbox
<1>2. /\ refresh'.step = "cleared" /\ refresh'.sees = refresh.sees
      /\ refresh.sees = grant /\ sync = NoSync /\ access # grant /\ OnlyTheirOwn
  BY <1>1 DEF SettledInv, RecordsInv, PhoneTypes, RefreshApart
<1>3. Dated'
  BY <1>1, TablesShape DEF SettledInv, Dated, RecordsInv, RowTypes
<1>4. OneEntry' /\ Served' /\ Recorded'
  BY <1>1 DEF SettledInv, OneEntry, Served, Recorded
<1>5. RefreshApart'
  BY <1>1, <1>2 DEF SettledInv, RefreshApart, OnlyTheirOwn
<1> QED  BY <1>1, <1>2, <1>3, <1>4, <1>5 DEF SettledInv, Settled

(* The cursor is at the start, so nothing is behind it.                       *)
LEMMA SaveAccessKeepsSettled ==
    ASSUME SettledInv, RecordsInv', SaveAccess
    PROVE  SettledInv'
<1>1. /\ refresh.step = "cleared" /\ refresh' = NoRefresh
      /\ UNCHANGED <<row, clock, grant, copy, queue, cursor, sync>>
  BY DEF SaveAccess, server, outbox
<1>2. sync = NoSync /\ cursor = Start /\ OnlyTheirOwn
  BY <1>1 DEF SettledInv, RefreshApart
<1>3. Dated' /\ OneEntry' /\ Served' /\ Recorded'
  BY <1>1 DEF SettledInv, Dated, OneEntry, Served, Recorded
<1>4. RefreshApart'
  BY <1>1, <1>2 DEF RefreshApart, NoRefresh
<1>5. OnlyTheirOwn'
  BY <1>1, <1>2 DEF OnlyTheirOwn
<1>6. NothingSkipped'
  <2> SUFFICES ASSUME NEW e \in Records, Behind(e, cursor)' PROVE FALSE
    BY DEF NothingSkipped
  <2>1. PICK t \in DOMAIN Tables : row[e].status # "none" /\ row[e].stamp <= Start[t]
    BY <1>1, <1>2 DEF Behind
  <2>2. row[e].stamp >= 1 /\ row[e].stamp \in Nat /\ Start[t] = 0
    BY <2>1, TablesShape DEF SettledInv, Dated, RecordsInv, RowTypes
  <2> QED  BY <2>1, <2>2
<1>7. PageIsFair'
  BY <1>1, <1>2, NothingUnderWay DEF PageIsFair, SyncRecord
<1> QED  BY <1>3, <1>4, <1>5, <1>6, <1>7 DEF SettledInv, Settled, Fair

(* A sync that ends without a cursor to save.                                 *)
LEMMA StopsKeepSettled ==
    ASSUME SettledInv, RecordsInv', GiveUp \/ AppCloses
    PROVE  SettledInv'
<1>1. /\ sync' = NoSync /\ (refresh' = refresh \/ refresh' = NoRefresh)
      /\ UNCHANGED <<row, clock, grant, access, copy, queue, cursor>>
  BY DEF GiveUp, AppCloses, server, outbox
<1>2. /\ NoSync.step = "idle" /\ NoSync.sent = {} /\ NoSync.cursor = Start
      /\ DOMAIN NoSync.page = {} /\ NoRefresh.step = "idle"
  BY NothingUnderWay DEF SyncRecord, NoRefresh
<1>3. Dated'
  BY <1>1, <1>2, TablesShape DEF SettledInv, Dated, RecordsInv, RowTypes
<1>4. OneEntry' /\ Served' /\ Recorded'
  BY <1>1, <1>2 DEF SettledInv, OneEntry, Served, Recorded
<1>5. RefreshApart'
  BY <1>1, <1>2 DEF SettledInv, RefreshApart, OnlyTheirOwn
<1>6. PageIsFair'
  BY <1>1, <1>2 DEF PageIsFair
<1>7. Fair => Fair'
  BY <1>1, <1>6 DEF Fair, OnlyTheirOwn, NothingSkipped, Behind, Withheld, Agrees, Sent
<1> QED  BY <1>1, <1>3, <1>4, <1>5, <1>7 DEF SettledInv, Settled

-----------------------------------------------------------------------------
(* The upload.                                                                *)
LEMMA BeginKeepsSettled ==
    ASSUME ~Overlaps, SettledInv, RecordsInv', Begin
    PROVE  SettledInv'
<1>1. UNCHANGED <<row, clock, grant, access, copy, queue, cursor, refresh>>
  BY BeginFields
<1>2. PICK s \in {"pull", "sent"}, rows \in SUBSET queue :
        sync' = SyncRecord(s, rows, rows, {}, NoPage, Start)
  BY BeginFields
<1>3. /\ sync'.step \in {"pull", "sent"} /\ sync'.sent \subseteq queue /\ sync'.todo = sync'.sent
      /\ DOMAIN sync'.page = {} /\ sync'.cursor = Start
  BY <1>2, NothingUnderWay DEF SyncRecord
<1>4. Dated'
  BY <1>1, <1>3, TablesShape DEF SettledInv, Dated, RecordsInv, RowTypes
<1>5. OneEntry' /\ Served' /\ Recorded'
  BY <1>1, <1>3 DEF SettledInv, OneEntry, Served, Recorded
<1>6. RefreshApart'
  BY <1>3 DEF Overlaps, RefreshApart
<1>7. PageIsFair'
  BY <1>3 DEF PageIsFair
<1>8. Fair => Fair'
  BY <1>1, <1>7 DEF Fair, OnlyTheirOwn, NothingSkipped, Behind, Withheld, Agrees, Sent
<1> QED  BY <1>1, <1>4, <1>5, <1>6, <1>8 DEF SettledInv, Settled

LEMMA ServeKeepsSettled ==
    ASSUME SettledInv, RecordsInv', Serve
    PROVE  SettledInv'
<1>1. PICK r \in First :
        /\ CASE r.kind = "edit" -> Save(r.of, r.cost)
             [] r.kind = "put" -> Record(r.of)
             [] r.kind = "delete" -> RemoveRecord(r.of)
        /\ sync' = [sync EXCEPT !.todo = sync.todo \ {r}]
  BY DEF Serve
<1>2. /\ sync.step = "sent"
      /\ UNCHANGED <<grant, access, copy, queue, cursor, refresh>>
  BY DEF Serve, outbox
<1>3. /\ r \in sync.todo /\ r \in sync.sent /\ r \in Entries /\ RowTypes
      /\ Expenses \subseteq Records
  BY DEF First, Of, SettledInv, RecordsInv, SyncTypes, Records
<1>5. /\ sync'.step = sync.step /\ sync'.sent = sync.sent /\ sync'.todo = sync.todo \ {r}
      /\ sync'.refused = sync.refused /\ sync'.page = sync.page /\ sync'.cursor = sync.cursor
  BY <1>1, ServeFields DEF SettledInv, RecordsInv
<1>6. \A d \in Expenses :
        /\ Put(d) \in sync'.sent => Put(d) \in sync'.todo \cup sync'.refused \/
             row[d].mine \/ (r.kind = "put" /\ r.of = d)
        /\ Delete(d) \in sync'.sent => Delete(d) \in sync'.todo \cup sync'.refused \/
             row[d].status # "live" \/ (r.kind = "delete" /\ r.of = d)
  <2> TAKE d \in Expenses
  <2>1. /\ Put(d).of = d /\ Put(d).kind = "put"
        /\ Delete(d).of = d /\ Delete(d).kind = "delete"
    BY EntriesDiffer
  <2> QED  BY <1>5, <2>1 DEF SettledInv, Served
<1>7. CASE r.kind = "edit"
  <2>1. /\ r.of \in Products /\ r.of \in Records /\ r.of \notin Expenses /\ r.cost \in BOOLEAN
    BY <1>3, <1>7, EntryKinds, RecordsAssumption DEF Records, Expenses
  <2>2. Stamped(r.of, "live", FALSE, IF grant THEN r.cost
                                     ELSE row[r.of].status = "live" /\ row[r.of].cost)
    BY <1>1, <1>7 DEF Save
  <2>3. /\ clock' = clock + 1 /\ row'[r.of].stamp = clock + 1 /\ row'[r.of].status = "live"
        /\ \A d \in Records : d # r.of => row'[d] = row[d]
    BY <1>3, <2>1, <2>2 DEF Stamped, RowTypes
  <2>4. Served'
    BY <1>3, <1>6, <1>7, <2>1, <2>3 DEF Served
  <2> QED  BY <1>2, <1>5, <2>1, <2>3, <2>4, WriteKeepsSettled
<1>8. CASE r.kind = "put"
  <2>1. r.of \in Own /\ r.of \in Expenses /\ r.of \in Records /\ Put(r.of) \in sync.sent
    BY <1>3, <1>8, EntryKinds DEF Records, Expenses
  <2>2. Stamped(r.of, "live", TRUE, FALSE)
    BY <1>1, <1>8 DEF Record
  <2>3. /\ clock' = clock + 1 /\ row'[r.of].stamp = clock + 1 /\ row'[r.of].status = "live"
        /\ row'[r.of].mine /\ \A d \in Records : d # r.of => row'[d] = row[d]
    BY <1>3, <2>1, <2>2 DEF Stamped, RowTypes
  <2>4. Delete(r.of) \notin sync.sent
    BY <2>1 DEF SettledInv, OneEntry
  <2>5. Served'
    BY <1>3, <1>5, <1>6, <1>8, <2>1, <2>3, <2>4 DEF Served
  <2> QED  BY <1>2, <1>5, <2>1, <2>3, <2>5, WriteKeepsSettled
<1>9. CASE r.kind = "delete"
  <2>1. r.of \in Expenses /\ r.of \in Records
    BY <1>3, <1>9, EntryKinds
  <2>2. CASE SoftDelete(r.of)
    <3>1. Stamped(r.of, "gone", row[r.of].mine, row[r.of].cost)
      BY <2>2 DEF SoftDelete
    <3>2. /\ clock' = clock + 1 /\ row'[r.of].stamp = clock + 1 /\ row'[r.of].status = "gone"
          /\ row'[r.of].mine = row[r.of].mine
          /\ \A d \in Records : d # r.of => row'[d] = row[d]
      BY <1>3, <2>1, <3>1 DEF Stamped, RowTypes
    <3>3. Served'
      BY <1>3, <1>6, <1>9, <2>1, <3>2 DEF Served
    <3> QED  BY <1>2, <1>5, <2>1, <3>2, <3>3, WriteKeepsSettled
  <2>3. CASE row[r.of].status # "live" /\ UNCHANGED <<row, clock>>
    <3>1. Dated' /\ OneEntry' /\ Recorded'
      BY <1>2, <1>5, <2>3 DEF SettledInv, Dated, OneEntry, Recorded
    <3>2. Served'
      BY <1>6, <1>9, <2>3 DEF Served
    <3>3. RefreshApart'
      BY <1>2, <1>5, NothingUnderWay DEF SettledInv, RefreshApart, SyncRecord
    <3>4. Fair => Fair'
      BY <1>2, <1>5, <2>3 DEF Fair, OnlyTheirOwn, NothingSkipped, PageIsFair, Behind, Withheld,
                              Agrees, Sent
    <3> QED  BY <1>2, <3>1, <3>2, <3>3, <3>4 DEF SettledInv, Settled
  <2> QED  BY <1>1, <1>9, <2>2, <2>3 DEF RemoveRecord, server
<1> QED  BY <1>3, <1>7, <1>8, <1>9, EntryKinds

(* A row refused is accounted for, and nothing else changes.                  *)
LEMMA RefuseKeepsSettled ==
    ASSUME SettledInv, RecordsInv', Refuse
    PROVE  SettledInv'
<1>1. /\ UNCHANGED <<row, clock, grant, access, copy, queue, cursor, refresh>>
      /\ sync'.step = sync.step /\ sync'.sent = sync.sent /\ sync'.page = sync.page
      /\ sync'.todo \cup sync'.refused = sync.todo \cup sync.refused
      /\ sync'.cursor = sync.cursor /\ sync.step = "sent"
  BY RefuseFields DEF SettledInv, RecordsInv, Refuse
<1>2. Dated' /\ OneEntry' /\ Recorded'
  BY <1>1 DEF SettledInv, Dated, OneEntry, Recorded
<1>3. Served'
  BY <1>1 DEF SettledInv, Served
<1>4. RefreshApart'
  BY <1>1, NothingUnderWay DEF SettledInv, RefreshApart, SyncRecord
<1>5. Fair => Fair'
  BY <1>1 DEF Fair, OnlyTheirOwn, NothingSkipped, PageIsFair, Behind, Withheld, Agrees, Sent
<1> QED  BY <1>1, <1>2, <1>3, <1>4, <1>5 DEF SettledInv, Settled

(* All was served or refused: what left the outbox shows in the rows.         *)
LEMMA AnswerKeepsSettled ==
    ASSUME SettledInv, RecordsInv', Answer
    PROVE  SettledInv'
<1>1. /\ sync.step = "sent" /\ sync.todo = {}
      /\ queue' = queue \ (sync.sent \ sync.refused)
      /\ UNCHANGED <<row, clock, grant, access, copy, cursor, refresh>>
      /\ sync' = SyncRecord("pull", {}, {}, {}, NoPage, Start)
  BY AnswerFields
<1>2. /\ sync'.step = "pull" /\ sync'.sent = {} /\ sync'.todo = {} /\ DOMAIN sync'.page = {}
      /\ sync'.cursor = Start
  BY <1>1, NothingUnderWay DEF SyncRecord
<1>3. refresh.step = "idle"
  BY <1>1, NothingUnderWay DEF SettledInv, RefreshApart, SyncRecord
<1>4. ASSUME NEW e \in Expenses
      PROVE  /\ Put(e) \in sync.sent \ sync.refused => row[e].mine /\ row[e].status # "none"
             /\ Delete(e) \in sync.sent \ sync.refused => row[e].status # "live"
  <2>1. e \in Records
    BY DEF Records
  <2> QED  BY <1>1, <2>1, NoRowIsNobodys DEF SettledInv, Served, Dated
<1>5. Dated'
  BY <1>1, <1>2, TablesShape DEF SettledInv, Dated, RecordsInv, RowTypes
<1>6. OneEntry' /\ Served' /\ Recorded'
  BY <1>1, <1>2, <1>4 DEF SettledInv, OneEntry, Served, Recorded
<1>7. RefreshApart'
  BY <1>1, <1>2, <1>3 DEF RefreshApart
<1>8. OnlyTheirOwn => OnlyTheirOwn'
  BY <1>1, <1>4 DEF OnlyTheirOwn
<1>9. ASSUME NEW e \in Records, row[e].status # "none", Agrees(e)
      PROVE  Agrees(e)'
  <2>1. Sent(e)' = Sent(e)
    BY <1>1 DEF Sent
  <2>2. CASE copy[e] = Sent(e)
    BY <1>1, <2>1, <2>2 DEF Agrees
  <2>3. CASE copy[e] = "gone" /\ Delete(e) \in queue
    <3>1. Delete(e) \in Entries
      BY <2>3 DEF SettledInv, RecordsInv, PhoneTypes
    <3>2. e \in Expenses
      <4>1. Delete(e).of = e /\ Delete(e).kind = "delete"
        BY EntriesDiffer
      <4> QED  BY <3>1, <4>1, EntryKinds
    <3>3. CASE Delete(e) \in sync.sent \ sync.refused
      <4>1. row[e].status = "gone"
        BY <1>4, <1>9, <3>2, <3>3 DEF SettledInv, RecordsInv, RowTypes
      <4> QED  BY <1>1, <2>1, <2>3, <4>1 DEF Agrees, Sent
    <3>4. CASE Delete(e) \notin sync.sent \ sync.refused
      BY <1>1, <2>3, <3>4 DEF Agrees
    <3> QED  BY <3>3, <3>4
  <2> QED  BY <1>9, <2>2, <2>3 DEF Agrees
<1>10. \A e \in Records : Behind(e, cursor)' => Behind(e, cursor) /\ row[e].status # "none"
  BY <1>1 DEF Behind, Withheld
<1>11. NothingSkipped => NothingSkipped'
  BY <1>9, <1>10 DEF NothingSkipped
<1>12. PageIsFair'
  BY <1>2 DEF PageIsFair
<1> QED  BY <1>1, <1>5, <1>6, <1>7, <1>8, <1>11, <1>12 DEF SettledInv, Settled, Fair

-----------------------------------------------------------------------------
(* The download.                                                              *)
LEMMA NotWhileSyncing ==
    ASSUME SettledInv, sync.step # "idle"
    PROVE  refresh.step = "idle"
BY NothingUnderWay DEF SettledInv, RefreshApart, SyncRecord

LEMMA AskKeepsSettled ==
    ASSUME SettledInv, RecordsInv', Ask
    PROVE  SettledInv'
<1>1. /\ sync.step = "pull"
      /\ UNCHANGED <<row, clock, grant, access, copy, queue, cursor, refresh>>
      /\ sync' = SyncRecord("asked", sync.sent, sync.todo, sync.refused, sync.page, cursor)
  BY AskFields DEF SettledInv, RecordsInv
<1>2. /\ sync'.step = "asked" /\ sync'.sent = sync.sent /\ sync'.todo = sync.todo
      /\ sync'.refused = sync.refused /\ sync'.page = sync.page /\ sync'.cursor = cursor
  BY <1>1 DEF SyncRecord
<1>3. refresh.step = "idle"
  BY <1>1, NotWhileSyncing
<1>4. Dated' /\ OneEntry' /\ Served' /\ Recorded'
  BY <1>1, <1>2 DEF SettledInv, Dated, OneEntry, Served, Recorded
<1>5. RefreshApart'
  BY <1>1, <1>2, <1>3 DEF RefreshApart
<1>6. PageIsFair => PageIsFair'
  BY <1>1, <1>2 DEF PageIsFair
<1>7. Fair => Fair'
  BY <1>1, <1>6 DEF Fair, OnlyTheirOwn, NothingSkipped, Behind, Withheld, Agrees, Sent
<1> QED  BY <1>1, <1>4, <1>5, <1>7 DEF SettledInv, Settled

(* The page holds what is past the cursor, and its new cursor is no further   *)
(* than the clock.                                                            *)
LEMMA PageKeepsSettled ==
    ASSUME SettledInv, RecordsInv', Page
    PROVE  SettledInv'
<1>1. /\ sync.step = "asked" /\ Dated /\ RowTypes
      /\ UNCHANGED <<row, clock, grant, access, copy, queue, cursor, refresh>>
  BY PageFields DEF SettledInv, RecordsInv
<1>2. PICK page, to :
        /\ sync' = SyncRecord("page", sync.sent, sync.todo, sync.refused, page, to)
        /\ DOMAIN page = UNION {Changed(t) : t \in DOMAIN Tables}
        /\ \A e \in DOMAIN page : e \in Records /\ row[e].status # "none" /\ page[e] = Sent(e)
        /\ to = [t \in DOMAIN Tables |-> Advanced(t)]
  BY PageFields DEF SettledInv, RecordsInv
<1>3. /\ sync'.step = "page" /\ sync'.sent = sync.sent /\ sync'.todo = sync.todo
      /\ sync'.refused = sync.refused /\ sync'.page = page /\ sync'.cursor = to
  BY <1>2 DEF SyncRecord
<1>4. refresh.step = "idle"
  BY <1>1, NotWhileSyncing
<1>5. to \in Times /\ \A t \in DOMAIN Tables : to[t] <= clock
  BY <1>1, <1>2, AdvancedBound DEF Times
<1>6. Dated'
  BY <1>1, <1>3, <1>5 DEF Dated
<1>7. OneEntry' /\ Served' /\ Recorded'
  BY <1>1, <1>3 DEF SettledInv, OneEntry, Served, Recorded
<1>8. RefreshApart'
  BY <1>1, <1>3, <1>4 DEF RefreshApart
<1>9. OnlyTheirOwn => OnlyTheirOwn'
  BY <1>1 DEF OnlyTheirOwn
<1>10. NothingSkipped => NothingSkipped'
  BY <1>1 DEF NothingSkipped, Behind, Withheld, Agrees, Sent
<1>11. ASSUME Fair PROVE PageIsFair'
  <2>1. sync.cursor = cursor /\ NothingSkipped
    BY <1>1, <1>11 DEF Fair, PageIsFair
  <2>2. \A e \in Records : Sent(e)' = Sent(e) /\ (Agrees(e) => Agrees(e)')
    BY <1>1 DEF Sent, Agrees
  <2>3. ASSUME NEW e \in Records, Behind(e, sync.cursor)', e \notin DOMAIN page
        PROVE  Agrees(e)
    <3>1. PICK t \in DOMAIN Tables :
            e \in Tables[t] /\ ~Withheld(t) /\ row[e].status # "none"
      BY <1>1, <2>3 DEF Behind, Withheld
    <3>2. e \notin Changed(t)
      BY <1>2, <2>3
    <3>3. ~(row[e].stamp > sync.cursor[t])
      BY <3>1, <3>2 DEF Changed
    <3>4. row[e].stamp \in Nat /\ cursor[t] \in Nat
      BY <1>1 DEF RowTypes, Dated, Times
    <3>5. Behind(e, cursor)
      BY <2>1, <3>1, <3>3, <3>4 DEF Behind
    <3> QED  BY <2>1, <3>5 DEF NothingSkipped
  <2>4. ASSUME NEW e \in DOMAIN page, Behind(e, cursor)'
        PROVE  FALSE
    <3>1. PICK t \in DOMAIN Tables : e \in Tables[t] /\ row[e].stamp <= cursor[t]
      BY <1>1, <2>4 DEF Behind
    <3>2. PICK u \in DOMAIN Tables : e \in Changed(u)
      BY <1>2
    <3>3. e \in Tables[u] /\ row[e].stamp > sync.cursor[u]
      BY <3>2 DEF Changed
    <3>4. t = u
      BY <3>1, <3>3, TablesShape, RecordsAssumption DEF Expenses
    <3>5. row[e].stamp \in Nat /\ cursor[t] \in Nat
      BY <1>1, <1>2 DEF RowTypes, Dated, Times
    <3> QED  BY <2>1, <3>1, <3>3, <3>4, <3>5
  <2>5. ASSUME NEW e \in DOMAIN page, e \in Expenses PROVE grant
    <3>1. PICK u \in DOMAIN Tables : e \in Changed(u)
      BY <1>2
    <3>2. e \in Tables[u] /\ ~Withheld(u)
      BY <3>1 DEF Changed
    <3> QED  BY <2>5, <3>2, TablesShape, RecordsAssumption DEF Withheld, Expenses
  <2> QED  BY <1>1, <1>2, <1>3, <2>2, <2>3, <2>4, <2>5 DEF PageIsFair
<1>12. Fair => Fair'
  BY <1>9, <1>10, <1>11 DEF Fair
<1> QED  BY <1>1, <1>6, <1>7, <1>8, <1>12 DEF SettledInv, Settled

LEMMA ApplyKeepsSettled ==
    ASSUME SettledInv, RecordsInv', Apply
    PROVE  SettledInv'
<1>1. /\ sync.step = "page"
      /\ UNCHANGED <<row, clock, grant, access, queue, cursor, refresh>>
      /\ copy' = [e \in Records |-> IF e \in DOMAIN sync.page THEN sync.page[e] ELSE copy[e]]
      /\ sync' = SyncRecord("applied", sync.sent, sync.todo, sync.refused, NoPage, sync.cursor)
      /\ Expenses \subseteq Records
  BY ApplyFields DEF SettledInv, RecordsInv, Records
<1>2. /\ sync'.step = "applied" /\ sync'.sent = sync.sent /\ sync'.todo = sync.todo
      /\ sync'.refused = sync.refused /\ DOMAIN sync'.page = {} /\ sync'.cursor = sync.cursor
  BY <1>1, NothingUnderWay DEF SyncRecord
<1>3. refresh.step = "idle"
  BY <1>1, NotWhileSyncing
<1>4. \A e \in Records : /\ e \in DOMAIN sync.page => copy'[e] = sync.page[e]
                         /\ e \notin DOMAIN sync.page => copy'[e] = copy[e]
  BY <1>1
<1>5. Dated' /\ OneEntry' /\ Served'
  BY <1>1, <1>2 DEF SettledInv, Dated, OneEntry, Served
<1>6. Recorded'
  BY <1>1, <1>2, <1>4 DEF SettledInv, Recorded, RecordsInv, PageHasRows
<1>7. RefreshApart'
  BY <1>1, <1>2, <1>3 DEF RefreshApart
<1>8. ASSUME Fair PROVE Fair'
  <2>1. OnlyTheirOwn'
    BY <1>1, <1>4, <1>8 DEF Fair, OnlyTheirOwn, PageIsFair
  <2>2. \A e \in Records : /\ Behind(e, cursor)' => Behind(e, cursor)
                           /\ Behind(e, sync.cursor)' => Behind(e, sync.cursor)
                           /\ Sent(e)' = Sent(e)
    BY <1>1, <1>2 DEF Behind, Withheld, Sent
  <2>3. NothingSkipped'
    <3> SUFFICES ASSUME NEW e \in Records, Behind(e, cursor) PROVE Agrees(e)'
      BY <2>2 DEF NothingSkipped
    <3>1. e \notin DOMAIN sync.page /\ Agrees(e)
      BY <1>1, <1>8 DEF Fair, NothingSkipped, PageIsFair
    <3> QED  BY <1>1, <1>4, <2>2, <3>1 DEF Agrees
  <2>4. ASSUME NEW e \in Records, Behind(e, sync.cursor) PROVE Agrees(e)'
    <3>1. CASE e \in DOMAIN sync.page
      <4>1. sync.page[e] = Sent(e)
        BY <1>1, <1>8, <2>4, <3>1 DEF Fair, PageIsFair
      <4> QED  BY <1>4, <2>2, <3>1, <4>1 DEF Agrees
    <3>2. CASE e \notin DOMAIN sync.page
      <4>1. Agrees(e)
        BY <1>1, <1>8, <2>4, <3>2 DEF Fair, PageIsFair
      <4> QED  BY <1>1, <1>4, <2>2, <3>2, <4>1 DEF Agrees
    <3> QED  BY <3>1, <3>2
  <2>5. PageIsFair'
    BY <1>2, <2>2, <2>4 DEF PageIsFair
  <2> QED  BY <2>1, <2>3, <2>5 DEF Fair
<1> QED  BY <1>1, <1>5, <1>6, <1>7, <1>8 DEF SettledInv, Settled

LEMMA SaveCursorKeepsSettled ==
    ASSUME SettledInv, RecordsInv', SaveCursor
    PROVE  SettledInv'
<1>1. /\ sync.step = "applied" /\ cursor' = sync.cursor /\ sync' = NoSync
      /\ UNCHANGED <<row, clock, grant, access, copy, queue, refresh>>
  BY DEF SaveCursor, server, outbox
<1>2. /\ NoSync.step = "idle" /\ NoSync.sent = {} /\ NoSync.cursor = Start
      /\ DOMAIN NoSync.page = {}
  BY NothingUnderWay DEF SyncRecord
<1>3. refresh.step = "idle"
  BY <1>1, NotWhileSyncing
<1>4. Dated'
  BY <1>1, <1>2, TablesShape DEF SettledInv, Dated, RecordsInv, RowTypes
<1>5. OneEntry' /\ Served' /\ Recorded'
  BY <1>1, <1>2 DEF SettledInv, OneEntry, Served, Recorded
<1>6. RefreshApart'
  BY <1>1, <1>2, <1>3 DEF RefreshApart
<1>7. ASSUME Fair PROVE Fair'
  <2>1. \A e \in Records : Behind(e, cursor)' => Behind(e, sync.cursor)
    BY <1>1 DEF Behind, Withheld
  <2>2. \A e \in Records : Agrees(e) => Agrees(e)'
    BY <1>1 DEF Agrees, Sent
  <2>3. NothingSkipped'
    BY <1>1, <1>7, <2>1, <2>2 DEF Fair, NothingSkipped, PageIsFair
  <2>4. OnlyTheirOwn' /\ PageIsFair'
    BY <1>1, <1>2, <1>7 DEF Fair, OnlyTheirOwn, PageIsFair
  <2> QED  BY <2>3, <2>4 DEF Fair
<1> QED  BY <1>1, <1>4, <1>5, <1>6, <1>7 DEF SettledInv, Settled

LEMMA SettledStep ==
    ASSUME SettledInv, [RecordsNext]_recordsVars, ~disturbed'
    PROVE  SettledInv'
<1>1. RecordsInv'
  BY NextKeepsInv DEF SettledInv
<1>2. CASE UNCHANGED recordsVars
  <2>1. UNCHANGED <<row, clock, grant, access, copy, queue, cursor, sync, refresh>>
    BY <1>2 DEF recordsVars, server, outbox
  <2>2. RefreshApart'
    BY <2>1 DEF SettledInv, RefreshApart, OnlyTheirOwn
  <2> QED  BY <1>1, <2>1, <2>2, SettledFrame
<1>3. CASE RecordsNext
  <2>1. RecordsStep /\ ~Toggled /\ ~Overlaps
    BY <1>3 DEF RecordsNext, RecordsHistory
  <2>2. ASSUME NEW e \in Records,
               \/ OwnerSaves(e) \/ OwnerRemoves(e) \/ OtherRecords(e) \/ OtherRemoves(e)
               \/ RecordExpense(e) \/ RemoveExpense(e) \/ EditProduct(e)
        PROVE  SettledInv'
    BY <1>1, <2>2, OthersKeepSettled, RecordExpenseKeepsSettled, RemoveExpenseKeepsSettled,
       EditProductKeepsSettled
  <2>3. CASE Sync \/ Refuse
    BY <1>1, <2>1, <2>3, BeginKeepsSettled, ServeKeepsSettled, RefuseKeepsSettled,
       AnswerKeepsSettled, AskKeepsSettled, PageKeepsSettled, ApplyKeepsSettled,
       SaveCursorKeepsSettled DEF Sync
  <2>4. CASE Refresh
    BY <1>1, <2>1, <2>4, RefreshAskKeepsSettled, ForgetKeepsSettled, ClearCursorKeepsSettled,
       SaveAccessKeepsSettled DEF Refresh
  <2>5. CASE SetGrant \/ GiveUp \/ AppCloses
    BY <1>1, <2>1, <2>5, SetGrantKeepsSettled, StopsKeepSettled
  <2> QED  BY <2>1, <2>2, <2>3, <2>4, <2>5 DEF RecordsStep
<1> QED  BY <1>2, <1>3

LEMMA DisturbedStays == ASSUME [RecordsNext]_recordsVars, disturbed PROVE disturbed'
BY DEF RecordsNext, RecordsHistory, recordsVars, histories

(* The safety behind PhoneCatchesUp: as long as access has not changed twice  *)
(* before the phone re-read it, and no sync has run beside the re-reading,    *)
(* whenever the phone knows its access and has a cursor past every row it may *)
(* see, it holds these rows, with and without their costs, and no others,     *)
(* what it has still to upload aside; however access came and went, whatever  *)
(* was written or refused meanwhile and wherever connections broke or the app *)
(* was closed. Nothing that was withheld is skipped for good (sync_service.rs *)
(* pull leaves the cursor of a withheld table alone; session_repository.dart  *)
(* refreshAccount).                                                           *)
THEOREM SettledPhoneIsRight ==
    RecordsSpec => [](~disturbed /\ UpToDate => HasWhatItMaySee /\ HasNothingElse)
<1> DEFINE Inv == disturbed \/ SettledInv
<1>1. RecordsInit => Inv
  BY SettledInitially
<1>2. Inv /\ [RecordsNext]_recordsVars => Inv'
  BY SettledStep, DisturbedStays
<1>3. Inv => (~disturbed /\ UpToDate => HasWhatItMaySee /\ HasNothingElse)
  BY UpToDateIsRight
<1> QED  BY <1>1, <1>2, <1>3, PTL DEF RecordsSpec
=============================================================================
