--------------------------- MODULE SessionAccess ---------------------------
(***************************************************************************)
(* Who a request is made by, on servers that remember what they looked up. *)
(*                                                                         *)
(* An access token names a device session.  Every request resolves the     *)
(* session to an actor: from the memory of the instance that serves it, if *)
(* it was looked up within the trust window, and from the database         *)
(* otherwise.  An open socket does the same at each keepalive.  Signing a  *)
(* device out, changing or removing a staff member commits to the database *)
(* and then makes the instance that did it, and only that one, forget.     *)
(* A lookup reads in one step and remembers in another.                    *)
(*                                                                         *)
(* Left out: the signature and the hour of the access token, the refresh   *)
(* tokens, the subscription read by the same lookup, and which stores an   *)
(* actor may use.                                                          *)
(***************************************************************************)
EXTENDS Integers

CONSTANTS
  Instances,    \* server processes on one database
  Sessions,     \* device sessions
  Staff, Owner,
  MemberOf,     \* MemberOf[s]: who signs in with session s
  Workers,      \* requests that are resolved at the same time
  TrustWindow,  \* TRUST_WINDOW, in ticks
  LookupTime,   \* longest time from a lookup's read to its end, in ticks
  Keepalive,    \* KITAZA_REALTIME_KEEPALIVE_SECONDS, in ticks
  LastTick,     \* bound on time
  MaxChanges    \* bound on what the owner does

ASSUME MemberAssumption == Owner \notin Staff /\ MemberOf \in [Sessions -> Staff \cup {Owner}]
ASSUME AskerAssumption == Workers \cap Sessions = {}
ASSUME TimeAssumption ==
  /\ {TrustWindow, LookupTime, Keepalive, LastTick, MaxChanges} \subseteq Nat
  /\ TrustWindow > 0 /\ LastTick > 0

VARIABLES
  clock,
  staff,     \* staff[m]: what the row of m says
  session,   \* session[s]: the row of s
  memory,    \* memory[i][s]: what instance i remembers of s
  lookup,    \* lookup[x]: the lookup under way for worker x or for x's socket
  socket,    \* socket[s]: the open socket of s
  change,    \* the change the owner is making
  changes,   \* changes so far
  lastTrue   \* lastTrue[s][a]: when a was last the rightful actor of s, 0 for never

vars == <<clock, staff, session, memory, lookup, socket, change, changes, lastTrue>>

\* What a lookup may find out: nobody, the owner, or staff with fewer or more
\* permissions.
Actors == {"nobody", "owner", "plain", "granted"}

Unknown == [known |-> FALSE, at |-> 0, actor |-> "nobody"]
NoLookup == [on |-> "none"]
NoSocket == [on |-> "none"]
NoChange == [at |-> "none"]

TypeOK ==
  /\ clock \in 1..LastTick
  /\ staff \in [Staff -> {"plain", "granted", "removed"}]
  /\ session \in [Sessions -> {"none", "joining", "live", "revoked"}]
  /\ memory \in [Instances -> [Sessions ->
                   {Unknown} \cup [known : {TRUE}, at : 1..clock, actor : Actors]]]
  /\ lookup \in [Workers \cup Sessions ->
                   {NoLookup} \cup [on : Instances, of : Sessions, read : 1..clock, actor : Actors]]
  /\ socket \in [Sessions -> {NoSocket} \cup [on : Instances, checked : 1..clock]]
  /\ change \in {NoChange} \cup [at : {"committed", "answered"}, on : Instances]
  /\ changes \in 0..MaxChanges
  /\ lastTrue \in [Sessions -> [Actors -> 0..clock]]

Init ==
  /\ clock = 1
  /\ staff = [m \in Staff |-> "granted"]
  /\ session = [s \in Sessions |-> "none"]
  /\ memory = [i \in Instances |-> [s \in Sessions |-> Unknown]]
  /\ lookup = [x \in Workers \cup Sessions |-> NoLookup]
  /\ socket = [s \in Sessions |-> NoSocket]
  /\ change = NoChange
  /\ changes = 0
  /\ lastTrue = [s \in Sessions |-> [a \in Actors |-> IF a = "nobody" THEN 1 ELSE 0]]

(***************************************************************************)
(* Who a session stands for.                                               *)
(***************************************************************************)
Rightful(s) ==
  CASE session[s] # "live" \/ (MemberOf[s] \in Staff /\ staff[MemberOf[s]] = "removed") -> "nobody"
    [] session[s] = "live" /\ MemberOf[s] = Owner -> "owner"
    [] OTHER -> staff[MemberOf[s]]

\* The history of the rightful actors, for the properties.
Record == lastTrue' = [s \in Sessions |-> [lastTrue[s] EXCEPT ![Rightful(s)'] = clock']]

\* into_actor: a live session of the owner, or of a member who was not removed.
StaffUnchecked(s) ==
  IF session[s] # "live" THEN "nobody"
  ELSE IF MemberOf[s] = Owner THEN "owner"
  ELSE IF staff[MemberOf[s]] = "removed" THEN "plain" ELSE staff[MemberOf[s]]
IntoActor(s) ==
  IF session[s] # "live" THEN "nobody"
  ELSE IF MemberOf[s] = Owner THEN "owner"
  ELSE IF staff[MemberOf[s]] = "removed" THEN "nobody" ELSE staff[MemberOf[s]]

(***************************************************************************)
(* Time.                                                                   *)
(***************************************************************************)
Asking(x) == lookup[x] # NoLookup
Due(s) == socket[s] # NoSocket /\ ~Asking(s) /\ clock - socket[s].checked >= Keepalive

Tick ==
  /\ clock < LastTick
  /\ \A x \in Workers \cup Sessions : Asking(x) => clock - lookup[x].read < LookupTime
  /\ \A s \in Sessions : ~Due(s)
  /\ clock' = clock + 1
  /\ UNCHANGED <<staff, session, memory, lookup, socket, change, changes>>
  /\ Record

(***************************************************************************)
(* Signing in.                                                             *)
(***************************************************************************)
\* The owner's password is right, or a join code is redeemed: the latter is a
\* transaction of its own, before the session's.
Redeem(s) ==
  /\ session[s] = "none"
  /\ MemberOf[s] # Owner => staff[MemberOf[s]] # "removed"
  /\ session' = [session EXCEPT ![s] = "joining"]
  /\ UNCHANGED <<clock, staff, memory, lookup, socket, change, changes, lastTrue>>

OpenSession(s) ==
  /\ session[s] = "joining"
  /\ session' = [session EXCEPT ![s] = "live"]
  /\ UNCHANGED <<clock, staff, memory, lookup, socket, change, changes>>
  /\ Record

(***************************************************************************)
(* What the owner changes, and a phone that signs itself out.              *)
(***************************************************************************)
Commit(i) ==
  /\ change.at # "committed"
  /\ changes < MaxChanges
  /\ changes' = changes + 1
  /\ change' = [at |-> "committed", on |-> i]
  /\ UNCHANGED <<clock, memory, lookup, socket>>

Revoke(i, s) ==
  /\ session[s] = "live"
  /\ session' = [session EXCEPT ![s] = "revoked"]
  /\ Commit(i)
  /\ UNCHANGED staff
  /\ Record

UpdateStaff(i, m, permissions) ==
  /\ staff[m] # "removed"
  /\ staff' = [staff EXCEPT ![m] = permissions]
  /\ Commit(i)
  /\ UNCHANGED session
  /\ Record

\* The member's sessions are revoked in the same transaction.
RemoveStaff(i, m) ==
  /\ staff[m] # "removed"
  /\ staff' = [staff EXCEPT ![m] = "removed"]
  /\ session' = [s \in Sessions |->
                   IF MemberOf[s] = m /\ session[s] = "live" THEN "revoked" ELSE session[s]]
  /\ Commit(i)
  /\ Record

\* Then the instance forgets everything, and answers.
ForgetAll ==
  /\ change.at = "committed"
  /\ memory' = [memory EXCEPT ![change.on] = [s \in Sessions |-> Unknown]]
  /\ change' = [change EXCEPT !.at = "answered"]
  /\ UNCHANGED <<clock, staff, session, lookup, socket, changes, lastTrue>>

\* The owner's phone hangs up in between and the request is dropped.
Cancelled ==
  /\ change.at = "committed"
  /\ change' = NoChange
  /\ UNCHANGED <<clock, staff, session, memory, lookup, socket, changes, lastTrue>>

(***************************************************************************)
(* Resolving a session: remembered, or read and then remembered.           *)
(***************************************************************************)
Remembered(i, s) == memory[i][s].known /\ clock - memory[i][s].at < TrustWindow

Read(x, i, s) ==
  /\ ~Asking(x)
  /\ ~Remembered(i, s)
  /\ lookup' = [lookup EXCEPT ![x] = [on |-> i, of |-> s, read |-> clock, actor |-> IntoActor(s)]]
  /\ UNCHANGED <<clock, staff, session, memory, socket, change, changes, lastTrue>>

\* What is stored with the actor is the moment of the lookup's end, not that
\* at which it expires.
Expiry == clock + TrustWindow
LookedUp == clock

\* Past MAX_REMEMBERED everything else is forgotten first.
Remember(x) ==
  LET l == lookup[x]
  IN  \E kept \in {memory[l.on], [s \in Sessions |-> Unknown]} :
        memory' = [memory EXCEPT ![l.on] =
                     [kept EXCEPT ![l.of] = [known |-> TRUE, at |-> LookedUp, actor |-> l.actor]]]

\* A request reads; it is served from then on by the actor it found.
Ask(w, i, s) == session[s] \notin {"none", "joining"} /\ Read(w, i, s)

Found(w) ==
  /\ Asking(w)
  /\ Remember(w)
  /\ lookup' = [lookup EXCEPT ![w] = NoLookup]
  /\ UNCHANGED <<clock, staff, session, socket, change, changes, lastTrue>>

\* The request times out or its phone hangs up.
Abandon(w) ==
  /\ Asking(w)
  /\ lookup' = [lookup EXCEPT ![w] = NoLookup]
  /\ UNCHANGED <<clock, staff, session, memory, socket, change, changes, lastTrue>>

(***************************************************************************)
(* The socket of a phone: a check at once and then at each keepalive.      *)
(***************************************************************************)
Admits(i, s) == Remembered(i, s) /\ memory[i][s].actor # "nobody"

OpenSocket(i, s) ==
  /\ socket[s] = NoSocket
  /\ Admits(i, s)
  /\ socket' = [socket EXCEPT ![s] = [on |-> i, checked |-> clock]]
  /\ UNCHANGED <<clock, staff, session, memory, lookup, change, changes, lastTrue>>

PingOnly(s, actor) == socket' = [socket EXCEPT ![s].checked = clock]
Checked(s, actor) ==
  socket' = [socket EXCEPT ![s] = IF actor = "nobody" THEN NoSocket
                                  ELSE [@ EXCEPT !.checked = clock]]

\* The session is remembered: no lookup.
CheckRemembered(s) ==
  /\ Due(s)
  /\ Remembered(socket[s].on, s)
  /\ Checked(s, memory[socket[s].on][s].actor)
  /\ UNCHANGED <<clock, staff, session, memory, lookup, change, changes, lastTrue>>

CheckRead(s) == Due(s) /\ Read(s, socket[s].on, s)

CheckFound(s) ==
  /\ socket[s] # NoSocket
  /\ Asking(s)
  /\ Remember(s)
  /\ Checked(s, lookup[s].actor)
  /\ lookup' = [lookup EXCEPT ![s] = NoLookup]
  /\ UNCHANGED <<clock, staff, session, change, changes, lastTrue>>

\* A lookup that fails closes the socket, as does the phone.
CloseSocket(s) ==
  /\ socket[s] # NoSocket
  /\ socket' = [socket EXCEPT ![s] = NoSocket]
  /\ lookup' = [lookup EXCEPT ![s] = NoLookup]
  /\ UNCHANGED <<clock, staff, session, memory, change, changes, lastTrue>>

OwnerChanges(i) ==
  \/ \E s \in Sessions : Revoke(i, s)
  \/ \E m \in Staff : RemoveStaff(i, m) \/ \E p \in {"plain", "granted"} : UpdateStaff(i, m, p)

SocketStep(s) ==
  \/ \E i \in Instances : OpenSocket(i, s)
  \/ CheckRemembered(s) \/ CheckRead(s) \/ CheckFound(s) \/ CloseSocket(s)

Next ==
  \/ Tick
  \/ \E s \in Sessions : Redeem(s) \/ OpenSession(s) \/ SocketStep(s)
  \/ \E i \in Instances : OwnerChanges(i)
  \/ ForgetAll \/ Cancelled
  \/ \E w \in Workers :
       Found(w) \/ Abandon(w) \/ \E i \in Instances, s \in Sessions : Ask(w, i, s)

Spec == Init /\ [][Next]_vars

(***************************************************************************)
(* Properties.                                                             *)
(***************************************************************************)
\* However lookups, changes and forgetting interleave on however many
\* instances, nobody is served as someone they have not been for a trust window
\* and a lookup (SessionDirectory::resolve, TRUST_WINDOW).
StaleOnlyBriefly ==
  \A i \in Instances, s \in Sessions :
    Remembered(i, s) =>
      LET last == lastTrue[s][memory[i][s].actor]
      IN  last > 0 /\ clock - last < TrustWindow + LookupTime

\* A phone that was signed out is hung up on: its socket survives the last
\* moment it was rightly open by a keepalive, a trust window and the two
\* lookups at their ends (pump_events).
SocketHangsUp ==
  \A s \in Sessions :
    socket[s] # NoSocket =>
      \E a \in Actors \ {"nobody"} :
        /\ lastTrue[s][a] > 0
        /\ clock - lastTrue[s][a] < TrustWindow + Keepalive + 2 * LookupTime
=============================================================================
