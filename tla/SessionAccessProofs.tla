------------------------ MODULE SessionAccessProofs ------------------------
(***************************************************************************)
(* Proofs about SessionAccess: nobody is served as someone they have not   *)
(* been for a trust window and a lookup, and the socket of a phone that    *)
(* was signed out is closed in time.                                       *)
(*                                                                         *)
(* The invariant dates what the servers know: an answer under way was true *)
(* when it was read, a remembered answer was true at most a lookup before  *)
(* it was remembered, and a socket was checked against one of the two.     *)
(*                                                                         *)
(* The second half is about one session and its tokens (RefreshRotation):  *)
(* its phone stays signed in, after a sign-out only the requests already   *)
(* let through store a token, and housekeeping takes only what is dead.    *)
(***************************************************************************)
EXTENDS SessionAccess, RefreshRotation, TLAPS

LookupOK(l) == l \in [on : Instances, of : Sessions, read : 1..clock, actor : Actors]

HistoryNow == \A s \in Sessions : lastTrue[s][Rightful(s)] = clock

LookupDated ==
  \A x \in Workers \cup Sessions :
    Asking(x) => /\ clock - lookup[x].read <= LookupTime
                 /\ lastTrue[lookup[x].of][lookup[x].actor] >= lookup[x].read

MemoryDated ==
  \A i \in Instances, s \in Sessions :
    memory[i][s].known =>
      /\ lastTrue[s][memory[i][s].actor] > 0
      /\ lastTrue[s][memory[i][s].actor] + LookupTime >= memory[i][s].at

\* The last check of the socket of s found an actor who was right shortly
\* before.
CheckedWell(s) ==
  \E a \in Actors \ {"nobody"} :
    lastTrue[s][a] > 0 /\ socket[s].checked - lastTrue[s][a] < TrustWindow + LookupTime

SocketDated ==
  \A s \in Sessions :
    /\ socket[s] # NoSocket => CheckedWell(s)
    /\ socket[s] # NoSocket /\ ~Asking(s) => clock - socket[s].checked <= Keepalive
    /\ Asking(s) => /\ socket[s] # NoSocket
                    /\ lookup[s].of = s
                    /\ lookup[s].read - socket[s].checked <= Keepalive

IInv == TypeOK /\ HistoryNow /\ LookupDated /\ MemoryDated /\ SocketDated

(***************************************************************************)
(* Types.                                                                  *)
(***************************************************************************)
\* Who a session stands for is one of the actors, and what the code finds out
\* is who it stands for.
LEMMA RightfulIsActor ==
  ASSUME TypeOK, NEW s \in Sessions
  PROVE  Rightful(s) \in Actors /\ IntoActor(s) = Rightful(s)
BY MemberAssumption DEF TypeOK, Rightful, IntoActor, Actors

LEMMA RightfulIsActorNext ==
  ASSUME TypeOK', NEW s \in Sessions
  PROVE  Rightful(s)' \in Actors
<1>1. /\ staff' \in [Staff -> {"plain", "granted", "removed"}]
      /\ session' \in [Sessions -> {"none", "joining", "live", "revoked"}]
  BY DEF TypeOK
<1> QED BY <1>1, MemberAssumption DEF Rightful, Actors

\* The part of the type invariant that Record needs.
LEMMA RecordKeepsHistory ==
  ASSUME TypeOK, Record, clock' \in 1..LastTick, clock <= clock',
         staff' \in [Staff -> {"plain", "granted", "removed"}],
         session' \in [Sessions -> {"none", "joining", "live", "revoked"}]
  PROVE  lastTrue' \in [Sessions -> [Actors -> 0..clock']]
<1>1. \A s \in Sessions : Rightful(s)' \in Actors
  BY MemberAssumption DEF Rightful, Actors
<1>2. \A s \in Sessions : lastTrue[s] \in [Actors -> 0..clock']
  BY TimeAssumption DEF TypeOK
<1>3. \A s \in Sessions :
        [lastTrue[s] EXCEPT ![Rightful(s)'] = clock'] \in [Actors -> 0..clock']
  BY <1>1, <1>2, TimeAssumption
<1> QED BY <1>3 DEF Record

\* What is remembered is remembered of the session that was looked up.
LEMMA RememberKeepsMemory ==
  ASSUME TypeOK, NEW x \in Workers \cup Sessions, Asking(x), Remember(x)
  PROVE  memory' \in [Instances -> [Sessions ->
                       {Unknown} \cup [known : {TRUE}, at : 1..clock, actor : Actors]]]
<1> DEFINE Entry == {Unknown} \cup [known : {TRUE}, at : 1..clock, actor : Actors]
<1>1. lookup[x] \in [on : Instances, of : Sessions, read : 1..clock, actor : Actors]
  BY DEF TypeOK, Asking
<1>2. [known |-> TRUE, at |-> clock, actor |-> lookup[x].actor] \in Entry
  BY <1>1, TimeAssumption DEF TypeOK
<1>3. memory \in [Instances -> [Sessions -> Entry]]
  BY DEF TypeOK
<1>4. [s \in Sessions |-> Unknown] \in [Sessions -> Entry]
  OBVIOUS
<1>5. PICK kept \in {memory[lookup[x].on], [s \in Sessions |-> Unknown]} :
        memory' = [memory EXCEPT ![lookup[x].on] =
                     [kept EXCEPT ![lookup[x].of] =
                        [known |-> TRUE, at |-> clock, actor |-> lookup[x].actor]]]
  BY DEF Remember, LookedUp
<1> HIDE DEF Entry
<1>6. kept \in [Sessions -> Entry]
  BY <1>1, <1>3, <1>4
<1>7. memory' \in [Instances -> [Sessions -> Entry]]
  BY <1>1, <1>2, <1>3, <1>5, <1>6
<1> QED BY <1>7 DEF Entry

\* An entry of the memory names an actor and a time that has passed.
LEMMA EntryTyped ==
  ASSUME TypeOK, NEW i \in Instances, NEW s \in Sessions
  PROVE  /\ memory[i][s].actor \in Actors
         /\ memory[i][s].known => memory[i][s].at \in 1..clock
<1> DEFINE Entry == {Unknown} \cup [known : {TRUE}, at : 1..clock, actor : Actors]
<1>1. memory \in [Instances -> [Sessions -> Entry]]
  BY DEF TypeOK
<1> HIDE DEF Entry
<1>2. memory[i][s] \in Entry
  BY <1>1
<1>3. CASE memory[i][s] = Unknown
  BY <1>3 DEF Unknown, Actors
<1>4. CASE memory[i][s] \in [known : {TRUE}, at : 1..clock, actor : Actors]
  BY <1>4
<1> QED BY <1>2, <1>3, <1>4 DEF Entry

LEMMA TypeInit == Init => TypeOK
BY MemberAssumption, TimeAssumption
   DEF Init, TypeOK, Actors, Unknown, NoLookup, NoSocket, NoChange

LEMMA TypeStep == TypeOK /\ [Next]_vars => TypeOK'
<1> SUFFICES ASSUME TypeOK, [Next]_vars PROVE TypeOK'
  OBVIOUS
<1>0. clock \in 1..LastTick /\ clock \in Nat /\ clock \in 1..clock /\ clock <= clock
  BY TimeAssumption DEF TypeOK
<1>1. CASE Tick
  <2>1. clock' \in 1..LastTick /\ clock <= clock' /\ 1..clock \subseteq 1..clock'
    BY <1>1, TimeAssumption DEF Tick, TypeOK
  <2>2. lastTrue' \in [Sessions -> [Actors -> 0..clock']]
    BY <1>1, <2>1, RecordKeepsHistory DEF Tick, TypeOK
  <2>3. /\ [known : {TRUE}, at : 1..clock, actor : Actors]
             \subseteq [known : {TRUE}, at : 1..clock', actor : Actors]
        /\ [on : Instances, of : Sessions, read : 1..clock, actor : Actors]
             \subseteq [on : Instances, of : Sessions, read : 1..clock', actor : Actors]
        /\ [on : Instances, checked : 1..clock] \subseteq [on : Instances, checked : 1..clock']
    BY <2>1
  <2>4. memory' \in [Instances -> [Sessions ->
                      {Unknown} \cup [known : {TRUE}, at : 1..clock', actor : Actors]]]
    <3> DEFINE Old == {Unknown} \cup [known : {TRUE}, at : 1..clock, actor : Actors]
               New == {Unknown} \cup [known : {TRUE}, at : 1..clock', actor : Actors]
    <3>1. Old \subseteq New
      BY <2>3
    <3>2. memory' = memory /\ memory \in [Instances -> [Sessions -> Old]]
      BY <1>1 DEF Tick, TypeOK
    <3> HIDE DEF Old, New
    <3>3. memory' \in [Instances -> [Sessions -> New]]
      BY <3>1, <3>2
    <3> QED BY <3>3 DEF New
  <2>5. /\ lookup' \in [Workers \cup Sessions -> {NoLookup} \cup
                          [on : Instances, of : Sessions, read : 1..clock', actor : Actors]]
        /\ socket' \in [Sessions -> {NoSocket} \cup [on : Instances, checked : 1..clock']]
    BY <1>1, <2>3 DEF Tick, TypeOK
  <2> QED BY <1>1, <2>1, <2>2, <2>4, <2>5 DEF Tick, TypeOK
<1>2. ASSUME NEW s \in Sessions, Redeem(s) PROVE TypeOK'
  BY <1>2 DEF Redeem, TypeOK
<1>3. ASSUME NEW s \in Sessions, OpenSession(s) PROVE TypeOK'
  <2>1. session' \in [Sessions -> {"none", "joining", "live", "revoked"}]
    BY <1>3 DEF OpenSession, TypeOK
  <2>2. lastTrue' \in [Sessions -> [Actors -> 0..clock']]
    BY <1>0, <1>3, <2>1, RecordKeepsHistory DEF OpenSession, TypeOK
  <2> QED BY <1>3, <2>1, <2>2 DEF OpenSession, TypeOK
<1>4. ASSUME NEW i \in Instances, OwnerChanges(i) PROVE TypeOK'
  <2>1. /\ staff' \in [Staff -> {"plain", "granted", "removed"}]
        /\ session' \in [Sessions -> {"none", "joining", "live", "revoked"}]
    BY <1>4 DEF OwnerChanges, Revoke, UpdateStaff, RemoveStaff, TypeOK
  <2>2. Record /\ Commit(i)
    BY <1>4 DEF OwnerChanges, Revoke, UpdateStaff, RemoveStaff
  <2>3. lastTrue' \in [Sessions -> [Actors -> 0..clock']]
    BY <1>0, <2>1, <2>2, RecordKeepsHistory DEF Commit, TypeOK
  <2>4. change' \in [at : {"committed", "answered"}, on : Instances] /\ changes' \in 0..MaxChanges
    BY <2>2, TimeAssumption DEF Commit, TypeOK
  <2> QED BY <2>1, <2>2, <2>3, <2>4 DEF Commit, TypeOK
<1>5. CASE ForgetAll
  <2>1. change \in [at : {"committed", "answered"}, on : Instances]
    BY <1>5 DEF ForgetAll, TypeOK, NoChange
  <2> QED BY <1>5, <2>1 DEF ForgetAll, TypeOK
<1>6. CASE Cancelled
  BY <1>6 DEF Cancelled, TypeOK
<1>7. ASSUME NEW x \in Workers \cup Sessions, NEW i \in Instances, NEW s \in Sessions,
             Read(x, i, s)
      PROVE  TypeOK'
  <2>1. [on |-> i, of |-> s, read |-> clock, actor |-> IntoActor(s)]
          \in [on : Instances, of : Sessions, read : 1..clock, actor : Actors]
    BY <1>0, RightfulIsActor
  <2> QED BY <1>7, <2>1 DEF Read, TypeOK
<1>8. ASSUME NEW w \in Workers, Found(w) PROVE TypeOK'
  BY <1>8, RememberKeepsMemory DEF Found, TypeOK
<1>9. ASSUME NEW w \in Workers, Abandon(w) PROVE TypeOK'
  BY <1>9 DEF Abandon, TypeOK
<1>10. ASSUME NEW s \in Sessions, SocketStep(s) PROVE TypeOK'
  <2>0. ASSUME NEW a \in Actors, socket[s] # NoSocket, Checked(s, a)
        PROVE  socket' \in [Sessions -> {NoSocket} \cup [on : Instances, checked : 1..clock]]
    BY <1>0, <2>0 DEF Checked, TypeOK
  <2>1. ASSUME NEW i \in Instances, OpenSocket(i, s) PROVE TypeOK'
    BY <1>0, <2>1 DEF OpenSocket, TypeOK
  <2>2. CASE CheckRemembered(s)
    <3>0. socket[s] # NoSocket /\ socket[s].on \in Instances
      BY <2>2 DEF CheckRemembered, Due, TypeOK
    <3>1. socket[s] # NoSocket /\ memory[socket[s].on][s].actor \in Actors
      BY <3>0, EntryTyped
    <3> QED BY <2>0, <2>2, <3>1 DEF CheckRemembered, TypeOK
  <2>3. CASE CheckRead(s)
    <3>1. socket[s].on \in Instances
      BY <2>3 DEF CheckRead, Due, TypeOK
    <3> QED BY <1>7, <2>3, <3>1 DEF CheckRead
  <2>4. CASE CheckFound(s)
    BY <2>0, <2>4, RememberKeepsMemory DEF CheckFound, Asking, TypeOK
  <2>5. CASE CloseSocket(s)
    BY <2>5 DEF CloseSocket, TypeOK
  <2> QED BY <1>10, <2>1, <2>2, <2>3, <2>4, <2>5 DEF SocketStep
<1>11. CASE UNCHANGED vars
  BY <1>11 DEF vars, TypeOK
<1> QED
  BY <1>1, <1>2, <1>3, <1>4, <1>5, <1>6, <1>7, <1>8, <1>9, <1>10, <1>11 DEF Next, Ask

(***************************************************************************)
(* The history only grows, and it is up to date.                           *)
(***************************************************************************)
Grows ==
  /\ clock <= clock'
  /\ \A s \in Sessions, a \in Actors : lastTrue[s][a] <= lastTrue'[s][a]

\* What the database holds changes together with the history.
LEMMA StepRecords ==
  ASSUME TypeOK, [Next]_vars
  PROVE  \/ Record /\ clock <= clock'
         \/ UNCHANGED <<clock, lastTrue, staff, session>>
         \/ UNCHANGED <<clock, lastTrue, staff>> /\ \E s \in Sessions : Redeem(s)
<1>0. clock \in Nat
  BY TimeAssumption DEF TypeOK
<1>1. CASE Tick
  BY <1>0, <1>1 DEF Tick
<1>2. ASSUME NEW s \in Sessions, Redeem(s) \/ OpenSession(s)
      PROVE  \/ Record /\ clock <= clock'
             \/ UNCHANGED <<clock, lastTrue, staff>> /\ Redeem(s)
  BY <1>0, <1>2 DEF Redeem, OpenSession
<1>3. ASSUME NEW s \in Sessions, SocketStep(s)
      PROVE  UNCHANGED <<clock, lastTrue, staff, session>>
  BY <1>3 DEF SocketStep, OpenSocket, CheckRemembered, CheckRead, Read, CheckFound, CloseSocket
<1>4. ASSUME NEW i \in Instances, OwnerChanges(i) PROVE Record /\ clock <= clock'
  BY <1>0, <1>4 DEF OwnerChanges, Revoke, UpdateStaff, RemoveStaff, Commit
<1>5. CASE ForgetAll \/ Cancelled
  BY <1>5 DEF ForgetAll, Cancelled
<1>6. ASSUME NEW w \in Workers, Found(w) \/ Abandon(w)
      PROVE  UNCHANGED <<clock, lastTrue, staff, session>>
  BY <1>6 DEF Found, Abandon
<1>7. ASSUME NEW w \in Workers, NEW i \in Instances, NEW s \in Sessions, Ask(w, i, s)
      PROVE  UNCHANGED <<clock, lastTrue, staff, session>>
  BY <1>7 DEF Ask, Read
<1>8. CASE UNCHANGED vars
  BY <1>8 DEF vars
<1> QED BY <1>1, <1>2, <1>3, <1>4, <1>5, <1>6, <1>7, <1>8 DEF Next

LEMMA NumbersNext ==
  ASSUME TypeOK'
  PROVE  /\ clock' \in Nat
         /\ \A s \in Sessions, a \in Actors : lastTrue'[s][a] \in Nat
BY TimeAssumption DEF TypeOK

LEMMA HistoryGrows == ASSUME TypeOK, [Next]_vars PROVE Grows
<1>1. clock \in Nat /\ \A s \in Sessions, a \in Actors : lastTrue[s][a] \in 0..clock
  BY TimeAssumption DEF TypeOK
<1>2. ASSUME Record, clock <= clock' PROVE Grows
  <2>1. clock' \in Int
    BY TypeStep, NumbersNext
  <2>2. \A s \in Sessions, a \in Actors :
          lastTrue'[s][a] = IF a = Rightful(s)' THEN clock' ELSE lastTrue[s][a]
    BY <1>2 DEF Record, TypeOK
  <2> QED BY <1>1, <1>2, <2>1, <2>2 DEF Grows
<1>3. ASSUME UNCHANGED <<clock, lastTrue>> PROVE Grows
  BY <1>1, <1>3 DEF Grows
<1> QED BY <1>2, <1>3, StepRecords

LEMMA HistoryStep == ASSUME TypeOK, HistoryNow, [Next]_vars PROVE HistoryNow'
<1>1. CASE Record
  <2>1. \A s \in Sessions : Rightful(s)' \in Actors
    BY TypeStep, RightfulIsActorNext
  <2>2. \A s \in Sessions : lastTrue'[s] = [lastTrue[s] EXCEPT ![Rightful(s)'] = clock']
    BY <1>1 DEF Record
  <2>3. \A s \in Sessions : lastTrue[s] \in [Actors -> 0..clock]
    BY DEF TypeOK
  <2> HIDE DEF Rightful
  <2>4. \A s \in Sessions : lastTrue'[s][Rightful(s)'] = clock'
    BY <2>1, <2>2, <2>3
  <2> QED BY <2>4 DEF HistoryNow
<1>2. CASE UNCHANGED <<clock, lastTrue, staff, session>>
  BY <1>2 DEF HistoryNow, Rightful
<1>3. ASSUME UNCHANGED <<clock, lastTrue, staff>>, NEW r \in Sessions, Redeem(r)
      PROVE  HistoryNow'
  <2>1. \A s \in Sessions : Rightful(s)' = Rightful(s)
    BY <1>3 DEF Redeem, Rightful, TypeOK
  <2> QED BY <1>3, <2>1 DEF HistoryNow
<1> QED BY <1>1, <1>2, <1>3, StepRecords

(***************************************************************************)
(* What is under way and what is remembered.                               *)
(***************************************************************************)
LEMMA LookupTyped ==
  ASSUME TypeOK, NEW x \in Workers \cup Sessions, Asking(x)
  PROVE  /\ lookup[x].on \in Instances /\ lookup[x].of \in Sessions
         /\ lookup[x].read \in 1..clock /\ lookup[x].actor \in Actors
<1>1. lookup[x] \in [on : Instances, of : Sessions, read : 1..clock, actor : Actors]
  BY DEF TypeOK, Asking
<1> QED BY <1>1

LEMMA Numbers ==
  ASSUME TypeOK
  PROVE  /\ clock \in Nat /\ clock > 0
         /\ LookupTime \in Nat /\ Keepalive \in Nat /\ TrustWindow \in Nat /\ TrustWindow > 0
         /\ \A s \in Sessions, a \in Actors : lastTrue[s][a] \in Nat /\ lastTrue[s][a] <= clock
BY TimeAssumption DEF TypeOK

\* An answer keeps its date while its lookup is under way, and a new one is
\* true when it is read.
LEMMA LookupStep ==
  ASSUME TypeOK, HistoryNow, LookupDated, [Next]_vars
  PROVE  LookupDated'
<1> DEFINE Dated(x) == /\ clock - lookup[x].read <= LookupTime
                       /\ lastTrue[lookup[x].of][lookup[x].actor] >= lookup[x].read
<1>0. TypeOK' /\ Grows
  BY TypeStep, HistoryGrows
<1>1. ASSUME NEW x \in Workers \cup Sessions, Asking(x)', lookup'[x] = lookup[x],
             clock' - lookup[x].read <= LookupTime
      PROVE  Dated(x)'
  <2>1. Asking(x) /\ Dated(x)
    BY <1>1 DEF Asking, LookupDated
  <2> QED BY <1>0, <1>1, <2>1, LookupTyped, Numbers, NumbersNext DEF Grows
<1>2. ASSUME NEW x \in Workers \cup Sessions, NEW i \in Instances, NEW s \in Sessions,
             Read(x, i, s)
      PROVE  Dated(x)'
  <2>1. lookup'[x] = [on |-> i, of |-> s, read |-> clock, actor |-> IntoActor(s)]
    BY <1>2 DEF Read, TypeOK
  <2>2. lastTrue[s][IntoActor(s)] = clock
    BY RightfulIsActor DEF HistoryNow
  <2> QED BY <1>2, <2>1, <2>2, Numbers DEF Read
<1>3. CASE Tick
  <2>1. ASSUME NEW x \in Workers \cup Sessions, Asking(x)' PROVE Dated(x)'
    <3>1. lookup'[x] = lookup[x] /\ Asking(x) /\ clock - lookup[x].read < LookupTime
      BY <1>3, <2>1 DEF Tick, Asking
    <3>2. clock' - lookup[x].read <= LookupTime
      BY <1>3, <3>1, LookupTyped, Numbers DEF Tick
    <3> QED BY <1>1, <2>1, <3>1, <3>2
  <2> QED BY <2>1 DEF LookupDated
<1>4. ASSUME clock' = clock,
             \A x \in Workers \cup Sessions :
               \/ lookup'[x] = lookup[x]
               \/ lookup'[x] = NoLookup
               \/ \E i \in Instances, s \in Sessions : Read(x, i, s)
      PROVE  LookupDated'
  <2>1. ASSUME NEW x \in Workers \cup Sessions, Asking(x)' PROVE Dated(x)'
    <3>1. CASE lookup'[x] = lookup[x]
      BY <1>1, <1>4, <2>1, <3>1 DEF Asking, LookupDated
    <3>2. CASE \E i \in Instances, s \in Sessions : Read(x, i, s)
      BY <1>2, <3>2
    <3> QED BY <1>4, <2>1, <3>1, <3>2 DEF Asking
  <2> QED BY <2>1 DEF LookupDated
<1>5. ASSUME ~Tick
      PROVE  /\ clock' = clock
             /\ \A x \in Workers \cup Sessions :
                  \/ lookup'[x] = lookup[x]
                  \/ lookup'[x] = NoLookup
                  \/ \E i \in Instances, s \in Sessions : Read(x, i, s)
  <2>1. ASSUME NEW s \in Sessions, SocketStep(s)
        PROVE  clock' = clock /\ \A x \in Workers \cup Sessions :
                 \/ lookup'[x] = lookup[x]
                 \/ lookup'[x] = NoLookup
                 \/ \E i \in Instances : Read(x, i, s)
    <3>1. CASE CheckRead(s)
      <4>1. socket[s].on \in Instances
        BY <3>1 DEF CheckRead, Due, TypeOK
      <4> QED BY <3>1, <4>1 DEF CheckRead, Read, TypeOK
    <3>2. CASE CheckFound(s) \/ CloseSocket(s)
      BY <3>2 DEF CheckFound, CloseSocket, TypeOK
    <3>3. CASE CheckRemembered(s) \/ \E i \in Instances : OpenSocket(i, s)
      BY <3>3 DEF CheckRemembered, OpenSocket
    <3> QED BY <2>1, <3>1, <3>2, <3>3 DEF SocketStep
  <2>2. ASSUME NEW w \in Workers, Found(w) \/ Abandon(w)
        PROVE  clock' = clock /\ \A x \in Workers \cup Sessions :
                 lookup'[x] = lookup[x] \/ lookup'[x] = NoLookup
    BY <2>2 DEF Found, Abandon, TypeOK
  <2>3. ASSUME NEW w \in Workers, NEW i \in Instances, NEW s \in Sessions, Ask(w, i, s)
        PROVE  clock' = clock /\ \A x \in Workers \cup Sessions :
                 lookup'[x] = lookup[x] \/ Read(x, i, s)
    BY <2>3 DEF Ask, Read, TypeOK
  <2>4. ASSUME NEW s \in Sessions, Redeem(s) \/ OpenSession(s)
        PROVE  clock' = clock /\ lookup' = lookup
    BY <2>4 DEF Redeem, OpenSession
  <2>5. ASSUME NEW i \in Instances, OwnerChanges(i) PROVE clock' = clock /\ lookup' = lookup
    BY <2>5 DEF OwnerChanges, Revoke, UpdateStaff, RemoveStaff, Commit
  <2>6. CASE ForgetAll \/ Cancelled \/ UNCHANGED vars
    BY <2>6 DEF ForgetAll, Cancelled, vars
  <2> QED BY <1>5, <2>1, <2>2, <2>3, <2>4, <2>5, <2>6 DEF Next
<1> QED BY <1>3, <1>4, <1>5

\* What a lookup leaves behind was true at most a lookup ago.
LEMMA RememberDates ==
  ASSUME TypeOK, LookupDated, MemoryDated, NEW x \in Workers \cup Sessions, Asking(x),
         Remember(x), UNCHANGED <<clock, lastTrue>>
  PROVE  MemoryDated'
<1> DEFINE l == lookup[x]
<1>0. /\ l.on \in Instances /\ l.of \in Sessions /\ l.read \in 1..clock /\ l.actor \in Actors
      /\ clock - l.read <= LookupTime /\ lastTrue[l.of][l.actor] >= l.read
  BY LookupTyped DEF LookupDated
<1>1. PICK kept \in {memory[l.on], [s \in Sessions |-> Unknown]} :
        memory' = [memory EXCEPT ![l.on] =
                     [kept EXCEPT ![l.of] = [known |-> TRUE, at |-> clock, actor |-> l.actor]]]
  BY DEF Remember, LookedUp
<1>2. memory \in [Instances -> [Sessions -> {Unknown} \cup
                     [known : {TRUE}, at : 1..clock, actor : Actors]]]
  BY DEF TypeOK
<1>3. ASSUME NEW i \in Instances, NEW s \in Sessions
      PROVE  \/ memory'[i][s] = memory[i][s]
             \/ memory'[i][s] = Unknown
             \/ s = l.of /\ memory'[i][s] = [known |-> TRUE, at |-> clock, actor |-> l.actor]
  <2> HIDE DEF l
  <2>1. CASE i # l.on
    BY <1>1, <1>2, <2>1
  <2>2. CASE i = l.on /\ kept = memory[l.on]
    BY <1>0, <1>1, <1>2, <2>2
  <2>3. CASE i = l.on /\ kept = [r \in Sessions |-> Unknown]
    BY <1>0, <1>1, <1>2, <2>3
  <2> QED BY <2>1, <2>2, <2>3
<1>4. ASSUME NEW i \in Instances, NEW s \in Sessions, memory'[i][s].known
      PROVE  /\ lastTrue'[s][memory'[i][s].actor] > 0
             /\ lastTrue'[s][memory'[i][s].actor] + LookupTime >= memory'[i][s].at
  <2>1. CASE memory'[i][s] = memory[i][s]
    BY <1>4, <2>1 DEF MemoryDated
  <2>2. CASE memory'[i][s] = Unknown
    BY <1>4, <2>2 DEF Unknown
  <2>3. CASE s = l.of /\ memory'[i][s] = [known |-> TRUE, at |-> clock, actor |-> l.actor]
    <3>1. lastTrue[s][l.actor] \in Nat /\ lastTrue[s][l.actor] >= l.read
      BY <1>0, <2>3, Numbers
    <3> QED BY <1>0, <2>3, <3>1, Numbers
  <2> QED BY <1>3, <2>1, <2>2, <2>3
<1> QED BY <1>4 DEF MemoryDated

\* Every other step only lets memory and history grow older.
LEMMA MemoryStep ==
  ASSUME TypeOK, LookupDated, MemoryDated, [Next]_vars
  PROVE  MemoryDated'
<1>0. TypeOK' /\ Grows
  BY TypeStep, HistoryGrows
<1>1. ASSUME \A i \in Instances, s \in Sessions :
               memory'[i][s] = memory[i][s] \/ memory'[i][s] = Unknown
      PROVE  MemoryDated'
  <2>1. ASSUME NEW i \in Instances, NEW s \in Sessions, memory'[i][s].known
        PROVE  /\ lastTrue'[s][memory'[i][s].actor] > 0
               /\ lastTrue'[s][memory'[i][s].actor] + LookupTime >= memory'[i][s].at
    <3>1. memory'[i][s] = memory[i][s] /\ memory[i][s].known
      BY <1>1, <2>1 DEF Unknown
    <3> DEFINE a == memory[i][s].actor
    <3>2. a \in Actors /\ memory[i][s].at \in 1..clock
      BY <3>1, EntryTyped
    <3>3. lastTrue[s][a] > 0 /\ lastTrue[s][a] + LookupTime >= memory[i][s].at
      BY <3>1 DEF MemoryDated
    <3>4. lastTrue'[s][a] >= lastTrue[s][a] /\ lastTrue'[s][a] \in Nat /\ lastTrue[s][a] \in Nat
      BY <1>0, <3>2, Numbers, NumbersNext DEF Grows
    <3> HIDE DEF a
    <3>5. lastTrue'[s][a] > 0 /\ lastTrue'[s][a] + LookupTime >= memory[i][s].at
      BY <3>2, <3>3, <3>4, Numbers
    <3> QED BY <3>1, <3>5 DEF a
  <2> QED BY <2>1 DEF MemoryDated
<1>2. ASSUME NEW w \in Workers, Found(w) PROVE MemoryDated'
  BY <1>2, RememberDates DEF Found
<1>3. ASSUME NEW s \in Sessions, CheckFound(s) PROVE MemoryDated'
  BY <1>3, RememberDates DEF CheckFound
<1>4. ASSUME NEW s \in Sessions, SocketStep(s), ~CheckFound(s) PROVE memory' = memory
  BY <1>4 DEF SocketStep, OpenSocket, CheckRemembered, CheckRead, Read, CloseSocket
<1>5. ASSUME NEW w \in Workers, Abandon(w) PROVE memory' = memory
  BY <1>5 DEF Abandon
<1>6. ASSUME NEW w \in Workers, NEW i \in Instances, NEW s \in Sessions, Ask(w, i, s)
      PROVE  memory' = memory
  BY <1>6 DEF Ask, Read
<1>7. ASSUME NEW s \in Sessions, Redeem(s) \/ OpenSession(s) PROVE memory' = memory
  BY <1>7 DEF Redeem, OpenSession
<1>8. ASSUME NEW i \in Instances, OwnerChanges(i) PROVE memory' = memory
  BY <1>8 DEF OwnerChanges, Revoke, UpdateStaff, RemoveStaff, Commit
<1>9. CASE ForgetAll
  <2>1. \A i \in Instances, s \in Sessions :
          memory'[i][s] = memory[i][s] \/ memory'[i][s] = Unknown
    <3>1. memory' = [memory EXCEPT ![change.on] = [s \in Sessions |-> Unknown]]
      BY <1>9 DEF ForgetAll
    <3>2. \A i \in Instances :
            memory'[i] = memory[i] \/ memory'[i] = [s \in Sessions |-> Unknown]
      BY <3>1 DEF TypeOK
    <3> QED BY <3>2
  <2> QED BY <1>1, <2>1
<1>10. CASE Tick \/ Cancelled \/ UNCHANGED vars
  BY <1>1, <1>10 DEF Tick, Cancelled, vars
<1> QED
  BY <1>1, <1>2, <1>3, <1>4, <1>5, <1>6, <1>7, <1>8, <1>9, <1>10 DEF Next

(***************************************************************************)
(* Sockets.                                                                *)
(***************************************************************************)
SocketOK(s) ==
  /\ socket[s] # NoSocket => CheckedWell(s)
  /\ socket[s] # NoSocket /\ ~Asking(s) => clock - socket[s].checked <= Keepalive
  /\ Asking(s) => /\ socket[s] # NoSocket
                  /\ lookup[s].of = s
                  /\ lookup[s].read - socket[s].checked <= Keepalive

\* An answer from the memory that is still trusted is young enough.
LEMMA RememberedIsRecent ==
  ASSUME TypeOK, MemoryDated, NEW i \in Instances, NEW s \in Sessions, Remembered(i, s)
  PROVE  /\ memory[i][s].actor \in Actors
         /\ lastTrue[s][memory[i][s].actor] > 0
         /\ clock - lastTrue[s][memory[i][s].actor] < TrustWindow + LookupTime
<1> DEFINE a == memory[i][s].actor
<1>1. a \in Actors /\ memory[i][s].at \in 1..clock
  BY EntryTyped DEF Remembered
<1>2. lastTrue[s][a] > 0 /\ lastTrue[s][a] + LookupTime >= memory[i][s].at
  BY DEF Remembered, MemoryDated
<1>3. clock - memory[i][s].at < TrustWindow
  BY DEF Remembered
<1> HIDE DEF a
<1>4. clock - lastTrue[s][a] < TrustWindow + LookupTime
  BY <1>1, <1>2, <1>3, Numbers
<1> QED BY <1>1, <1>2, <1>4 DEF a

LEMMA SocketTyped ==
  ASSUME TypeOK, NEW s \in Sessions, socket[s] # NoSocket
  PROVE  socket[s].on \in Instances /\ socket[s].checked \in 1..clock
<1>1. socket[s] \in [on : Instances, checked : 1..clock]
  BY DEF TypeOK
<1> QED BY <1>1

LEMMA SocketDatedStep ==
  ASSUME TypeOK, LookupDated, MemoryDated, SocketDated, [Next]_vars
  PROVE  SocketDated'
<1>0. TypeOK' /\ Grows /\ \A s \in Sessions : SocketOK(s)
  BY TypeStep, HistoryGrows DEF SocketDated, SocketOK
<1>1. ASSUME NEW s \in Sessions, socket'[s] = socket[s], socket[s] # NoSocket
      PROVE  CheckedWell(s)'
  <2>1. PICK a \in Actors \ {"nobody"} :
          lastTrue[s][a] > 0 /\ socket[s].checked - lastTrue[s][a] < TrustWindow + LookupTime
    BY <1>0, <1>1 DEF SocketOK, CheckedWell
  <2>2. lastTrue'[s][a] >= lastTrue[s][a] /\ lastTrue'[s][a] \in Nat /\ lastTrue[s][a] \in Nat
    BY <1>0, Numbers, NumbersNext DEF Grows
  <2>3. lastTrue'[s][a] > 0 /\ socket[s].checked - lastTrue'[s][a] < TrustWindow + LookupTime
    BY <1>1, <2>1, <2>2, SocketTyped, Numbers
  <2> QED BY <1>1, <2>3 DEF CheckedWell
<1>2. ASSUME NEW s \in Sessions, clock' = clock, socket'[s] = socket[s], lookup'[s] = lookup[s]
      PROVE  SocketOK(s)'
  BY <1>0, <1>1, <1>2 DEF SocketOK, Asking
<1>3. ASSUME NEW s \in Sessions, clock' = clock, socket'[s] = NoSocket, lookup'[s] = NoLookup
      PROVE  SocketOK(s)'
  BY <1>3 DEF SocketOK, Asking
<1>4. ASSUME NEW s \in Sessions, clock' = clock, lastTrue' = lastTrue, lookup'[s] = NoLookup,
             socket'[s] # NoSocket, socket'[s].checked = clock,
             NEW a \in Actors \ {"nobody"}, lastTrue[s][a] > 0,
             clock - lastTrue[s][a] < TrustWindow + LookupTime
      PROVE  SocketOK(s)'
  BY <1>4, Numbers DEF SocketOK, Asking, CheckedWell
<1>5. CASE Tick
  <2>1. ASSUME NEW s \in Sessions PROVE SocketOK(s)'
    <3>1. /\ clock' = clock + 1 /\ socket'[s] = socket[s] /\ lookup'[s] = lookup[s]
          /\ ~Due(s) /\ SocketOK(s)
      BY <1>0, <1>5 DEF Tick
    <3>2. ASSUME socket[s] # NoSocket, ~Asking(s) PROVE clock' - socket[s].checked <= Keepalive
      BY <3>1, <3>2, SocketTyped, Numbers DEF Due
    <3> QED BY <1>1, <3>1, <3>2 DEF SocketOK, Asking
  <2> QED BY <2>1 DEF SocketDated, SocketOK
<1>6. ASSUME NEW s \in Sessions, SocketStep(s) PROVE SocketOK(s)'
  <2>1. ASSUME NEW i \in Instances, OpenSocket(i, s) PROVE SocketOK(s)'
    <3>1. lookup[s] = NoLookup
      BY <1>0, <2>1 DEF OpenSocket, SocketOK, Asking
    <3>2. socket'[s] = [on |-> i, checked |-> clock]
      BY <2>1 DEF OpenSocket, TypeOK
    <3>3. socket'[s] # NoSocket /\ socket'[s].checked = clock
      BY <3>2 DEF NoSocket
    <3> QED
      BY <1>4, <2>1, <3>1, <3>3, RememberedIsRecent DEF OpenSocket, Admits
  <2>2. CASE CheckRemembered(s)
    <3> DEFINE a == memory[socket[s].on][s].actor
    <3>1. socket[s] # NoSocket /\ lookup[s] = NoLookup /\ socket[s].on \in Instances
      BY <2>2, SocketTyped DEF CheckRemembered, Due, Asking
    <3>2. /\ a \in Actors /\ lastTrue[s][a] > 0
          /\ clock - lastTrue[s][a] < TrustWindow + LookupTime
      BY <2>2, <3>1, RememberedIsRecent DEF CheckRemembered
    <3>3. clock' = clock /\ lastTrue' = lastTrue /\ lookup' = lookup /\ Checked(s, a)
      BY <2>2 DEF CheckRemembered
    <3> HIDE DEF a
    <3>4. CASE a = "nobody"
      BY <1>3, <3>1, <3>3, <3>4 DEF Checked, TypeOK
    <3>5. CASE a # "nobody"
      <4>1. socket'[s] = [socket[s] EXCEPT !.checked = clock]
        BY <3>3, <3>5 DEF Checked, TypeOK
      <4>2. socket[s] \in [on : Instances, checked : 1..clock]
        BY <3>1 DEF TypeOK
      <4>3. socket'[s] # NoSocket /\ socket'[s].checked = clock
        BY <4>1, <4>2 DEF NoSocket
      <4> QED BY <1>4, <3>1, <3>2, <3>3, <3>5, <4>3
    <3> QED BY <3>4, <3>5
  <2>3. CASE CheckRead(s)
    <3>1. socket[s] # NoSocket /\ ~Asking(s) /\ clock - socket[s].checked <= Keepalive
      BY <1>0, <2>3 DEF CheckRead, Due, SocketOK
    <3>2. /\ lookup'[s] = [on |-> socket[s].on, of |-> s, read |-> clock, actor |-> IntoActor(s)]
          /\ socket' = socket /\ clock' = clock
      BY <2>3 DEF CheckRead, Read, TypeOK
    <3>3. lookup'[s].of = s /\ lookup'[s].read = clock /\ lookup'[s] # NoLookup
      BY <3>2 DEF NoLookup
    <3> QED BY <1>1, <3>1, <3>2, <3>3 DEF SocketOK, Asking
  <2>4. CASE CheckFound(s)
    <3> DEFINE a == lookup[s].actor
    <3>1. /\ socket[s] # NoSocket /\ lookup[s].of = s
          /\ a \in Actors /\ lookup[s].read \in 1..clock
          /\ clock - lookup[s].read <= LookupTime /\ lastTrue[s][a] >= lookup[s].read
      BY <1>0, <2>4, LookupTyped DEF CheckFound, SocketOK, LookupDated
    <3>2. clock' = clock /\ lastTrue' = lastTrue /\ lookup'[s] = NoLookup /\ Checked(s, a)
      BY <2>4 DEF CheckFound, TypeOK
    <3> HIDE DEF a
    <3>3. lastTrue[s][a] > 0 /\ clock - lastTrue[s][a] < TrustWindow + LookupTime
      BY <3>1, Numbers
    <3>4. CASE a = "nobody"
      BY <1>3, <3>2, <3>4 DEF Checked, TypeOK
    <3>5. CASE a # "nobody"
      <4>1. socket'[s] = [socket[s] EXCEPT !.checked = clock]
        BY <3>2, <3>5 DEF Checked, TypeOK
      <4>2. socket[s] \in [on : Instances, checked : 1..clock]
        BY <3>1 DEF TypeOK
      <4>3. socket'[s] # NoSocket /\ socket'[s].checked = clock
        BY <4>1, <4>2 DEF NoSocket
      <4> QED BY <1>4, <3>1, <3>2, <3>3, <3>5, <4>3
    <3> QED BY <3>4, <3>5
  <2>5. CASE CloseSocket(s)
    BY <1>3, <2>5 DEF CloseSocket, TypeOK
  <2> QED BY <1>6, <2>1, <2>2, <2>3, <2>4, <2>5 DEF SocketStep
<1>7. ASSUME NEW s \in Sessions, SocketStep(s) PROVE SocketDated'
  <2>1. ASSUME NEW r \in Sessions, r # s
        PROVE  clock' = clock /\ socket'[r] = socket[r] /\ lookup'[r] = lookup[r]
    BY <1>7, <2>1 DEF SocketStep, OpenSocket, CheckRemembered, CheckRead, Read, CheckFound,
                      CloseSocket, Checked, TypeOK
  <2>2. \A r \in Sessions : SocketOK(r)'
    BY <1>2, <1>6, <1>7, <2>1
  <2> QED BY <2>2 DEF SocketDated, SocketOK
<1>8. ASSUME clock' = clock, socket' = socket, \A s \in Sessions : lookup'[s] = lookup[s]
      PROVE  SocketDated'
  <2>1. \A s \in Sessions : SocketOK(s)'
    BY <1>2, <1>8
  <2> QED BY <2>1 DEF SocketDated, SocketOK
<1>9. ASSUME NEW w \in Workers,
             \/ Found(w) \/ Abandon(w)
             \/ \E i \in Instances, s \in Sessions : Ask(w, i, s)
      PROVE  clock' = clock /\ socket' = socket /\ \A s \in Sessions : lookup'[s] = lookup[s]
  <2>1. \A s \in Sessions : s # w
    BY AskerAssumption
  <2> QED BY <1>9, <2>1 DEF Found, Abandon, Ask, Read, TypeOK
<1>10. ASSUME NEW s \in Sessions, Redeem(s) \/ OpenSession(s)
       PROVE  clock' = clock /\ socket' = socket /\ lookup' = lookup
  BY <1>10 DEF Redeem, OpenSession
<1>11. ASSUME NEW i \in Instances, OwnerChanges(i)
       PROVE  clock' = clock /\ socket' = socket /\ lookup' = lookup
  BY <1>11 DEF OwnerChanges, Revoke, UpdateStaff, RemoveStaff, Commit
<1>12. ASSUME ForgetAll \/ Cancelled \/ UNCHANGED vars
       PROVE  clock' = clock /\ socket' = socket /\ lookup' = lookup
  BY <1>12 DEF ForgetAll, Cancelled, vars
<1> QED BY <1>5, <1>7, <1>8, <1>9, <1>10, <1>11, <1>12 DEF Next

(***************************************************************************)
(* Theorems.                                                               *)
(***************************************************************************)
\* Every variable keeps its type: sessions, what is remembered of them and when.
THEOREM TypeCorrect == Spec => []TypeOK
BY TypeInit, TypeStep, PTL DEF Spec

LEMMA InvInit == Init => IInv
<1> SUFFICES ASSUME Init PROVE IInv
  OBVIOUS
<1>1. TypeOK
  BY TypeInit
<1>2. HistoryNow
  BY DEF Init, HistoryNow, Rightful, Actors
<1> QED
  BY <1>1, <1>2 DEF Init, IInv, LookupDated, MemoryDated, SocketDated, Asking, Unknown

\* What the servers know is dated in every reachable state.
THEOREM Dated == Spec => []IInv
<1>1. IInv /\ [Next]_vars => IInv'
  BY TypeStep, HistoryStep, LookupStep, MemoryStep, SocketDatedStep DEF IInv
<1> QED BY InvInit, <1>1, PTL DEF Spec

\* However many instances, sessions and requests there are, nobody is served as
\* someone they have not been for a trust window and a lookup
\* (SessionDirectory::resolve).
THEOREM StaleBounded == Spec => []StaleOnlyBriefly
<1>1. IInv => StaleOnlyBriefly
  BY RememberedIsRecent DEF IInv, StaleOnlyBriefly
<1> QED BY Dated, <1>1, PTL

\* The socket of a phone that was signed out is closed within a keepalive, a
\* trust window and two lookups (pump_events).
THEOREM SocketsHangUp == Spec => []SocketHangsUp
<1>1. ASSUME IInv, NEW s \in Sessions, socket[s] # NoSocket
      PROVE  \E a \in Actors \ {"nobody"} :
               /\ lastTrue[s][a] > 0
               /\ clock - lastTrue[s][a] < TrustWindow + Keepalive + 2 * LookupTime
  <2>1. PICK a \in Actors \ {"nobody"} :
          lastTrue[s][a] > 0 /\ socket[s].checked - lastTrue[s][a] < TrustWindow + LookupTime
    BY <1>1 DEF IInv, SocketDated, CheckedWell
  <2>2. socket[s].checked \in 1..clock
    BY <1>1, SocketTyped DEF IInv
  <2>3. clock - socket[s].checked <= Keepalive + LookupTime
    <3>1. CASE ~Asking(s)
      BY <1>1, <2>2, <3>1, Numbers DEF IInv, SocketDated
    <3>2. CASE Asking(s)
      <4>1. /\ lookup[s].read \in 1..clock
            /\ clock - lookup[s].read <= LookupTime
            /\ lookup[s].read - socket[s].checked <= Keepalive
        BY <1>1, <3>2, LookupTyped DEF IInv, LookupDated, SocketDated
      <4> QED BY <1>1, <2>2, <4>1, Numbers DEF IInv
    <3> QED BY <3>1, <3>2
  <2>4. lastTrue[s][a] \in Nat /\ clock \in Nat /\ TrustWindow \in Nat /\ Keepalive \in Nat
        /\ LookupTime \in Nat
    BY <1>1, Numbers DEF IInv
  <2>5. clock - lastTrue[s][a] < TrustWindow + Keepalive + 2 * LookupTime
    BY <2>1, <2>2, <2>3, <2>4
  <2> QED BY <2>1, <2>5
<1>2. IInv => SocketHangsUp
  BY <1>1 DEF SocketHangsUp
<1> QED BY Dated, <1>2, PTL

-----------------------------------------------------------------------------
(* RefreshRotation.                                                           *)
Stamp == Nat \cup {None}
TokenRow == [row : BOOLEAN, expires : Nat, revoked : Stamp, rotated : Stamp]
SessionRow == [row : BOOLEAN, created : Nat, seen : Nat, revoked : Stamp]
Steps == {"idle", "received", "found", "marked", "opened", "resolved", "stored"}

RenewalTypes ==
  /\ now \in Nat
  /\ device \in SessionRow
  /\ token \in [Tokens -> TokenRow]
  /\ issued \in 0..MaxTokens
  /\ trusted \in Stamp
  /\ work \in [Handlers -> [step : Steps, token : 0..issued, linked : BOOLEAN]]
  /\ phone \in [refresh : 0..issued, next : 0..issued]
  /\ ask \in [step : {"none", "sent", "taken"}, token : 0..issued]
  /\ presented \in [Tokens -> Stamp]

\* A request that may still store a token began while the session was live, and
\* within the same tick: a session revoked meanwhile was revoked now.
Timely ==
  \A w \in Handlers :
    /\ work[w].step \notin {"idle", "received"} => device.revoked \in {None, now}
    /\ work[w].step = "opened" /\ device.row => device.created = now

\* A token the server took out of service is one the phone presented a while ago,
\* one that ran out, or one whose session was ended.
TokensKept ==
  \A t \in Tokens :
    /\ presented[t] <= now
    /\ token[t].rotated # None => /\ presented[t] # None
                                          /\ presented[t] <= token[t].rotated
    /\ t > issued => token[t] = NoToken
    /\ token[t].revoked # None => ~Live
    /\ t <= issued /\ ~token[t].row =>
         \/ ~Live
         \/ token[t].expires < now
         \/ token[t].rotated # None /\ token[t].rotated + KeepFor < now

\* What the phone waits for, and what the server works on, was presented.
Requested ==
  /\ ask.step # "none" => /\ ask.token # 0 /\ presented[ask.token] # None
                          /\ phone.next = 0
  /\ \A w \in Handlers :
       /\ work[w].step \in {"received", "found", "marked", "stored"} => work[w].token # 0
       /\ work[w].step \in {"received", "found", "marked"} =>
            presented[work[w].token] # None

\* The phone waits for one request at a time: for the renewal it asked for, or for
\* its first sign-in, whose session is then too young to be purged.
Renews(w) ==
  /\ ask.step = "taken"
  /\ work[w].step \in {"received", "found", "marked", "resolved", "stored"}
  /\ work[w].step = "received" => work[w].token = ask.token

SignsIn(w) ==
  /\ ask.step = "none" /\ phone.refresh = 0 /\ phone.next = 0
  /\ work[w].step \in {"opened", "resolved", "stored"}
  /\ work[w].step # "stored" => device.row /\ device.created = now /\ device.seen = now

Waited ==
  \A w \in Handlers : work[w].linked =>
    /\ \A v \in Handlers : work[v].linked => v = w
    /\ Renews(w) \/ SignsIn(w)

RenewalInv == RenewalTypes /\ Timely /\ TokensKept /\ Requested /\ Waited

-----------------------------------------------------------------------------
(* The records of the state, and the request of one worker at a time.         *)
WorkState == [step : Steps, token : 0..issued, linked : BOOLEAN]
Others(w) == \A v \in Handlers \ {w} : work'[v] = work[v]

USE DEF TokenRow, SessionRow

LEMMA RenewalRecords ==
  /\ Idle.step = "idle" /\ Idle.token = 0 /\ Idle.linked = FALSE
  /\ NoAsk.step = "none" /\ NoAsk.token = 0
  /\ NoToken \in TokenRow
  /\ ~NoToken.row /\ NoToken.expires = 0
  /\ NoToken.revoked = None /\ NoToken.rotated = None
  /\ NoSession \in SessionRow
  /\ ~NoSession.row /\ NoSession.revoked = None
BY DEF Idle, NoAsk, NoToken, NoSession, Stamp, None

LEMMA WorkChanges ==
  ASSUME RenewalTypes, NEW w \in Handlers, NEW x, work' = [work EXCEPT ![w] = x]
  PROVE  work'[w] = x /\ Others(w)
BY DEF RenewalTypes, Others

LEMMA StepChanges ==
  ASSUME RenewalTypes, NEW w \in Handlers, NEW s, work' = [work EXCEPT ![w].step = s]
  PROVE  /\ work'[w] = [step |-> s, token |-> work[w].token, linked |-> work[w].linked]
         /\ Others(w)
<1>1. work[w] \in WorkState /\ DOMAIN work = Handlers
  BY DEF RenewalTypes, WorkState
<1>2. [work[w] EXCEPT !.step = s] = [step |-> s, token |-> work[w].token, linked |-> work[w].linked]
  BY <1>1 DEF WorkState
<1>3. work' = [work EXCEPT ![w] = [work[w] EXCEPT !.step = s]]
  OBVIOUS
<1> QED  BY <1>1, <1>2, <1>3 DEF Others

(* The request of w is over: a phone that waited for it waits no more.        *)
Over(w) ==
  /\ work'[w] = Idle /\ Others(w)
  /\ phone' \in [refresh : {0, phone.refresh}, next : {phone.next}]
  /\ ask' = IF work[w].linked THEN NoAsk ELSE ask
  /\ ~work[w].linked => phone' = phone

LEMMA RefuseEnds ==
  ASSUME RenewalTypes, NEW w \in Handlers, Refuse(w)
  PROVE  Over(w) /\ work' = [work EXCEPT ![w] = Idle]
<1>1. work' = [work EXCEPT ![w] = Idle]
  BY DEF Refuse
<1>2. phone = [refresh |-> phone.refresh, next |-> phone.next]
  BY DEF RenewalTypes
<1>3. [phone EXCEPT !.refresh = 0] = [refresh |-> 0, next |-> phone.next]
  BY <1>2
<1>4. /\ phone' \in [refresh : {0, phone.refresh}, next : {phone.next}]
      /\ ~work[w].linked => phone' = phone
  BY <1>2, <1>3 DEF Refuse
<1>5. ask' = IF work[w].linked THEN NoAsk ELSE ask
  BY DEF Refuse
<1> QED  BY <1>1, <1>4, <1>5, WorkChanges DEF Over

LEMMA GiveUpEnds ==
  ASSUME RenewalTypes, NEW w \in Handlers, GiveUp(w)
  PROVE  Over(w) /\ work' = [work EXCEPT ![w] = Idle]
<1>1. phone = [refresh |-> phone.refresh, next |-> phone.next]
  BY DEF RenewalTypes
<1> QED  BY <1>1, WorkChanges DEF GiveUp, Over

-----------------------------------------------------------------------------
(* Where the rows stay as they are and a request ends or goes on.             *)
LEMMA OverKeepsInv ==
  ASSUME RenewalInv, NEW w \in Handlers, Over(w), work' = [work EXCEPT ![w] = Idle],
         UNCHANGED <<now, device, token, issued, presented>>, trusted' \in Stamp
  PROVE  RenewalInv'
<1> USE DEF RenewalInv
<1>1. /\ work' \in [Handlers -> WorkState]
      /\ \A v \in Handlers : work'[v] = Idle \/ (v # w /\ work'[v] = work[v])
      /\ work'[w].step = "idle" /\ ~work'[w].linked
  <2>1. Idle \in WorkState
    BY DEF RenewalTypes, WorkState, Steps, Idle
  <2>2. work' \in [Handlers -> WorkState]
    BY <2>1 DEF RenewalTypes, WorkState
  <2>3. /\ \A v \in Handlers : work'[v] = Idle \/ (v # w /\ work'[v] = work[v])
        /\ work'[w] = Idle
    BY DEF Over, Others
  <2> QED  BY <2>2, <2>3, RenewalRecords
<1>2. RenewalTypes'
  <2>1. ask' \in [step : {"none", "sent", "taken"}, token : 0..issued]
    BY DEF RenewalTypes, Over, NoAsk
  <2>2. phone' \in [refresh : 0..issued, next : 0..issued]
    BY DEF RenewalTypes, Over
  <2> QED  BY <1>1, <2>1, <2>2 DEF RenewalTypes, WorkState
<1>3. Timely'
  BY <1>1, RenewalRecords DEF Timely
<1>4. TokensKept'
  BY DEF TokensKept, Live
<1>5. phone'.next = phone.next /\ phone'.refresh \in {0, phone.refresh}
  BY DEF Over
<1>6. Requested'
  <2>1. ask' = ask \/ ask'.step = "none"
    BY RenewalRecords DEF Over
  <2> QED  BY <1>1, <1>5, <2>1, RenewalRecords DEF Requested
<1>7. Waited'
  <2> SUFFICES ASSUME NEW v \in Handlers, work'[v].linked
               PROVE  /\ \A u \in Handlers : work'[u].linked => u = v
                      /\ Renews(v)' \/ SignsIn(v)'
    BY DEF Waited
  <2>1. v # w /\ work'[v] = work[v] /\ work[v].linked
    BY <1>1, RenewalRecords
  <2>2. ~work[w].linked /\ ask' = ask /\ phone' = phone
    BY <2>1 DEF Waited, Over
  <2>3. \A u \in Handlers : work'[u].linked => work[u].linked
    BY <1>1, RenewalRecords
  <2> QED  BY <2>1, <2>2, <2>3 DEF Waited, Renews, SignsIn
<1> QED  BY <1>2, <1>3, <1>4, <1>6, <1>7

(* A renewal or a sign-in gets one step further.                              *)
LEMMA GoesOnKeepsInv ==
  ASSUME RenewalInv, NEW w \in Handlers, NEW s \in {"found", "marked", "resolved"},
         work' = [work EXCEPT ![w].step = s],
         <<work[w].step, s>> \in {<<"received", "found">>, <<"found", "marked">>,
                                  <<"marked", "resolved">>, <<"opened", "resolved">>},
         s = "found" => device.revoked = None,
         UNCHANGED <<now, issued, phone, ask, presented>>, trusted' \in Stamp,
         device' = [row |-> device.row, created |-> device.created, seen |-> device'.seen,
                    revoked |-> device.revoked],
         device'.seen \in {device.seen, now},
         token' \in [Tokens -> TokenRow],
         TokensKept'
  PROVE  RenewalInv'
<1> USE DEF RenewalInv
<1>1. /\ \A v \in Handlers \ {w} : work'[v] = work[v]
      /\ work'[w] = [step |-> s, token |-> work[w].token, linked |-> work[w].linked]
  BY StepChanges DEF Others
<1>2. /\ work'[w].step = s /\ work'[w].token = work[w].token
      /\ work'[w].linked = work[w].linked
  BY <1>1
<1>3. work' \in [Handlers -> WorkState]
  <2>1. work'[w] \in WorkState
    BY <1>1 DEF RenewalTypes, WorkState, Steps
  <2>2. \A v \in Handlers : work'[v] \in WorkState
    BY <1>1, <2>1 DEF RenewalTypes, WorkState
  <2>3. work' = [v \in Handlers |-> work'[v]]
    BY DEF RenewalTypes
  <2> QED  BY <2>2, <2>3
<1>4. device' \in SessionRow
  BY DEF RenewalTypes
<1>5. RenewalTypes'
  BY <1>3, <1>4 DEF RenewalTypes, WorkState
<1>6. /\ device'.row = device.row /\ device'.created = device.created
      /\ device'.revoked = device.revoked
  OBVIOUS
<1>7. Timely'
  <2> SUFFICES ASSUME NEW v \in Handlers
               PROVE  /\ work'[v].step \notin {"idle", "received"} =>
                            device.revoked \in {None, now}
                      /\ work'[v].step = "opened" /\ device.row => device.created = now
    BY <1>6 DEF Timely
  <2>1. CASE v = w
    BY <1>2, <2>1 DEF Timely
  <2>2. CASE v # w
    BY <1>1, <2>2 DEF Timely
  <2> QED  BY <2>1, <2>2
<1>8. Requested'
  BY <1>1, <1>2 DEF Requested
<1>9. Waited'
  <2> SUFFICES ASSUME NEW v \in Handlers, work'[v].linked
               PROVE  /\ \A u \in Handlers : work'[u].linked => u = v
                      /\ Renews(v)' \/ SignsIn(v)'
    BY DEF Waited
  <2>1. work[v].linked /\ \A u \in Handlers : work'[u].linked => work[u].linked
    BY <1>1, <1>2
  <2>2. Renews(v) \/ SignsIn(v)
    BY <2>1 DEF Waited
  <2>3. ASSUME Renews(v)
        PROVE  Renews(v)'
    BY <1>1, <1>2, <2>3 DEF Renews
  <2>4. ASSUME SignsIn(v)
        PROVE  SignsIn(v)'
    BY <1>1, <1>2, <1>6, <2>4 DEF SignsIn
  <2> QED  BY <2>1, <2>2, <2>3, <2>4 DEF Waited
<1> QED  BY <1>5, <1>7, <1>8, <1>9

LEMMA FindKeepsInv ==
  ASSUME RenewalInv, NEW w \in Handlers, Find(w)
  PROVE  RenewalInv'
<1> USE DEF RenewalInv
<1>1. UNCHANGED <<now, device, token, issued, trusted, presented>> /\ work[w].step = "received"
  BY DEF Find
<1>2. CASE Refuse(w)
  BY <1>1, <1>2, RefuseEnds, OverKeepsInv DEF RenewalTypes
<1>3. CASE /\ Accepted(work[w].token)
           /\ work' = [work EXCEPT ![w].step = "found"] /\ UNCHANGED <<phone, ask>>
  <2>1. device.revoked = None
    BY <1>3 DEF Accepted
  <2>2. device' = [row |-> device.row, created |-> device.created, seen |-> device'.seen,
                   revoked |-> device.revoked]
    BY <1>1 DEF RenewalTypes
  <2>3. TokensKept'
    BY <1>1 DEF TokensKept, Live
  <2> QED  BY <1>1, <1>3, <2>1, <2>2, <2>3, GoesOnKeepsInv DEF RenewalTypes
<1> QED  BY <1>2, <1>3 DEF Find

LEMMA ResolveKeepsInv ==
  ASSUME RenewalInv, NEW w \in Handlers, Resolve(w)
  PROVE  RenewalInv'
<1> USE DEF RenewalInv
<1>1. /\ UNCHANGED <<now, device, token, issued, presented>>
      /\ work[w].step \in {"marked", "opened"}
  BY DEF Resolve
<1>2. trusted' \in Stamp
  BY RotationAssumption DEF Resolve, RenewalTypes, Stamp
<1>3. CASE Refuse(w)
  BY <1>1, <1>2, <1>3, RefuseEnds, OverKeepsInv
<1>4. CASE GiveUp(w)
  BY <1>1, <1>2, <1>4, GiveUpEnds, OverKeepsInv
<1>5. CASE work' = [work EXCEPT ![w].step = "resolved"] /\ UNCHANGED <<phone, ask>>
  <2>1. device' = [row |-> device.row, created |-> device.created, seen |-> device'.seen,
                   revoked |-> device.revoked]
    BY <1>1 DEF RenewalTypes
  <2>2. TokensKept'
    BY <1>1 DEF TokensKept, Live
  <2> QED  BY <1>1, <1>2, <1>5, <2>1, <2>2, GoesOnKeepsInv DEF RenewalTypes
<1> QED  BY <1>3, <1>4, <1>5 DEF Resolve

LEMMA FailKeepsInv ==
  ASSUME RenewalInv, NEW w \in Handlers, Fail(w)
  PROVE  RenewalInv'
BY GiveUpEnds, OverKeepsInv DEF RenewalInv, RenewalTypes, Fail

(* The first use of a token is dated: the phone presented it before.          *)
LEMMA MarkRotatedKeepsInv ==
  ASSUME RenewalInv, NEW w \in Handlers, MarkRotated(w)
  PROVE  RenewalInv'
<1> USE DEF RenewalInv
<1> DEFINE t == work[w].token
<1>1. /\ work[w].step = "found" /\ work' = [work EXCEPT ![w].step = "marked"]
      /\ UNCHANGED <<now, issued, trusted, phone, ask, presented>>
      /\ device' = Touched
      /\ token' = IF token[t].row /\ token[t].rotated = None
                  THEN [token EXCEPT ![t].rotated = now] ELSE token
  BY DEF MarkRotated
<1>2. t \in Tokens /\ presented[t] # None /\ presented[t] <= now
  <2>1. t \in 0..issued /\ issued \in 0..MaxTokens /\ t # 0
    BY <1>1 DEF RenewalTypes, Requested
  <2>2. t \in Tokens
    BY <2>1, SMT, RotationAssumption DEF Tokens
  <2> QED  BY <1>1, <2>2 DEF Requested, TokensKept
<1>3. /\ device' = [row |-> device.row, created |-> device.created, seen |-> device'.seen,
                    revoked |-> device.revoked]
      /\ device'.seen \in {device.seen, now}
  <2>1. device = [row |-> device.row, created |-> device.created, seen |-> device.seen,
                  revoked |-> device.revoked]
    BY DEF RenewalTypes
  <2>2. [device EXCEPT !.seen = now] = [row |-> device.row, created |-> device.created,
                                        seen |-> now, revoked |-> device.revoked]
    BY <2>1
  <2> QED  BY <1>1, <2>1, <2>2 DEF Touched
<1>4. /\ token' \in [Tokens -> TokenRow]
      /\ \A u \in Tokens : u # t => token'[u] = token[u]
      /\ token'[t].row = token[t].row /\ token'[t].expires = token[t].expires
      /\ token'[t].revoked = token[t].revoked
      /\ token'[t].rotated = token[t].rotated \/ (token[t].row /\ token'[t].rotated = now)
  <2>1. now \in Stamp /\ token[t] \in TokenRow
    BY <1>2 DEF RenewalTypes, Stamp
  <2>2. [token[t] EXCEPT !.rotated = now] = [row |-> token[t].row, expires |-> token[t].expires,
                                             revoked |-> token[t].revoked, rotated |-> now]
    BY <2>1
  <2>3. CASE token' = token
    BY <1>2, <2>3 DEF RenewalTypes
  <2>4. CASE token[t].row /\ token' = [token EXCEPT ![t] = [token[t] EXCEPT !.rotated = now]]
    BY <1>2, <2>1, <2>2, <2>4 DEF RenewalTypes
  <2> QED  BY <1>1, <2>3, <2>4
<1>5. TokensKept'
  <2> SUFFICES ASSUME NEW u \in Tokens
               PROVE  /\ presented[u] <= now
                      /\ token'[u].rotated # None =>
                           presented[u] # None /\ presented[u] <= token'[u].rotated
                      /\ u > issued => token'[u] = NoToken
                      /\ token'[u].revoked # None => ~Live
                      /\ u <= issued /\ ~token'[u].row =>
                           \/ ~Live
                           \/ token'[u].expires < now
                           \/ token'[u].rotated # None /\ token'[u].rotated + KeepFor < now
    BY <1>1, <1>3 DEF TokensKept, Live
  <2>1. CASE u # t
    BY <1>4, <2>1 DEF TokensKept
  <2>2. CASE u = t
    <3>1. t <= issued
      BY DEF RenewalTypes
    <3> QED  BY <1>2, <1>4, <2>2, <3>1 DEF TokensKept, RenewalTypes
  <2> QED  BY <2>1, <2>2
<1> QED  BY <1>1, <1>3, <1>4, <1>5, GoesOnKeepsInv DEF RenewalTypes

-----------------------------------------------------------------------------
(* A new token is stored, and reaches the phone.                              *)
LEMMA StoreTokenKeepsInv ==
  ASSUME RenewalInv, NEW w \in Handlers, StoreToken(w)
  PROVE  RenewalInv'
<1> USE DEF RenewalInv
<1>1. /\ UNCHANGED <<now, device, trusted, presented>> /\ work[w].step = "resolved"
      /\ issued < MaxTokens
  BY DEF StoreToken
<1>2. CASE GiveUp(w) /\ UNCHANGED <<issued, token>>
  BY <1>1, <1>2, GiveUpEnds, OverKeepsInv DEF RenewalTypes
<1>3. CASE device.row /\ ~(GiveUp(w) /\ UNCHANGED <<issued, token>>)
  <2> DEFINE n == issued + 1
             new == [row |-> TRUE, expires |-> now + Lifetime, revoked |-> None,
                     rotated |-> None]
  <2>1. /\ issued' = n /\ token' = [token EXCEPT ![n] = new]
        /\ work' = [work EXCEPT ![w].step = "stored", ![w].token = n]
        /\ UNCHANGED <<phone, ask>>
    BY <1>3 DEF StoreToken
  <2>2. /\ issued \in Nat /\ n \in Tokens /\ n \in 0..MaxTokens /\ n # 0
        /\ 0..issued \subseteq 0..n /\ n \in 0..n /\ n > issued
    <3>1. MaxTokens \in Nat /\ issued \in 0..MaxTokens /\ issued < MaxTokens
      BY <1>1, RotationAssumption DEF RenewalTypes
    <3>2. issued \in Nat /\ n \in 1..MaxTokens /\ n \in 0..MaxTokens /\ n # 0
      BY <3>1
    <3>3. n \in 0..n /\ n > issued /\ 0..issued \subseteq 0..n
      BY <3>2
    <3> QED  BY <3>2, <3>3 DEF Tokens
  <2>3. new \in TokenRow
    BY RotationAssumption DEF RenewalTypes, Stamp
  <2>4. new.row /\ new.rotated = None /\ new.revoked = None
    OBVIOUS
  <2> HIDE DEF n, new
  <2>5. /\ token' \in [Tokens -> TokenRow]
        /\ token'[n] = new /\ \A t \in Tokens : t # n => token'[t] = token[t]
    BY <2>1, <2>2, <2>3 DEF RenewalTypes
  <2>6. work'[w] = [step |-> "stored", token |-> n, linked |-> work[w].linked]
    <3>1. [[work[w] EXCEPT !.step = "stored"] EXCEPT !.token = n]
            = [step |-> "stored", token |-> n, linked |-> work[w].linked]
      <4>1. [work[w] EXCEPT !.step = "stored"]
              = [step |-> "stored", token |-> work[w].token, linked |-> work[w].linked]
        BY DEF RenewalTypes
      <4>2. [[step |-> "stored", token |-> work[w].token, linked |-> work[w].linked]
               EXCEPT !.token = n] = [step |-> "stored", token |-> n, linked |-> work[w].linked]
        OBVIOUS
      <4> QED  BY <4>1, <4>2
    <3>2. work' = [work EXCEPT ![w] = [[work[w] EXCEPT !.step = "stored"] EXCEPT !.token = n]]
      BY <2>1 DEF RenewalTypes
    <3> QED  BY <3>1, <3>2, WorkChanges
  <2>7. /\ \A v \in Handlers : v # w => work'[v] = work[v]
        /\ work'[w].step = "stored" /\ work'[w].token = n /\ work'[w].linked = work[w].linked
    BY <2>1, <2>6 DEF RenewalTypes
  <2>8. RenewalTypes'
    <3>1. \A v \in Handlers : work'[v] \in [step : Steps, token : 0..n, linked : BOOLEAN]
      <4>1. work'[w] \in [step : Steps, token : 0..n, linked : BOOLEAN]
        BY <2>2, <2>6 DEF RenewalTypes, Steps
      <4>2. \A v \in Handlers : work[v] \in [step : Steps, token : 0..issued, linked : BOOLEAN]
        BY DEF RenewalTypes
      <4>3. [step : Steps, token : 0..issued, linked : BOOLEAN]
              \subseteq [step : Steps, token : 0..n, linked : BOOLEAN]
        BY <2>2
      <4> QED  BY <2>7, <4>1, <4>2, <4>3
    <3>2. work' = [v \in Handlers |-> work'[v]]
      BY <2>1 DEF RenewalTypes
    <3>3. work' \in [Handlers -> [step : Steps, token : 0..n, linked : BOOLEAN]]
      BY <3>1, <3>2
    <3>4. /\ phone \in [refresh : 0..n, next : 0..n]
          /\ ask \in [step : {"none", "sent", "taken"}, token : 0..n]
      BY <2>2 DEF RenewalTypes
    <3> QED  BY <1>1, <2>1, <2>2, <2>5, <3>3, <3>4 DEF RenewalTypes
  <2>9. Timely'
    BY <1>1, <2>7 DEF Timely
  <2>10. TokensKept'
    <3> SUFFICES ASSUME NEW t \in Tokens
                 PROVE  /\ presented[t] <= now
                        /\ token'[t].rotated # None =>
                             presented[t] # None /\ presented[t] <= token'[t].rotated
                        /\ t > issued' => token'[t] = NoToken
                        /\ token'[t].revoked # None => ~Live
                        /\ t <= issued' /\ ~token'[t].row =>
                             \/ ~Live
                             \/ token'[t].expires < now
                             \/ token'[t].rotated # None /\ token'[t].rotated + KeepFor < now
      BY <1>1 DEF TokensKept, Live
    <3>1. CASE t = n
      BY <2>1, <2>2, <2>4, <2>5, <3>1 DEF TokensKept, Tokens
    <3>2. CASE t # n
      <4>1. t \in Int /\ (t > n => t > issued) /\ (t <= n => t <= issued)
        BY <2>2, <3>2 DEF Tokens, n
      <4> QED  BY <2>1, <2>5, <3>2, <4>1 DEF TokensKept
    <3> QED  BY <3>1, <3>2
  <2>11. Requested'
    BY <1>1, <2>1, <2>2, <2>7 DEF Requested
  <2>12. Waited'
    <3> SUFFICES ASSUME NEW v \in Handlers, work'[v].linked
                 PROVE  /\ \A u \in Handlers : work'[u].linked => u = v
                        /\ Renews(v)' \/ SignsIn(v)'
      BY DEF Waited
    <3>1. work[v].linked /\ \A u \in Handlers : work'[u].linked => work[u].linked
      BY <2>7
    <3>2. Renews(v) \/ SignsIn(v)
      BY <3>1 DEF Waited
    <3>3. ASSUME Renews(v)
          PROVE  Renews(v)'
      BY <2>1, <2>7, <3>3 DEF Renews
    <3>4. ASSUME SignsIn(v)
          PROVE  SignsIn(v)'
      BY <1>1, <2>1, <2>7, <3>4 DEF SignsIn
    <3> QED  BY <3>1, <3>2, <3>3, <3>4 DEF Waited
  <2> QED  BY <2>8, <2>9, <2>10, <2>11, <2>12
<1> QED  BY <1>2, <1>3 DEF StoreToken

LEMMA AnswerKeepsInv ==
  ASSUME RenewalInv, NEW w \in Handlers, Answer(w)
  PROVE  RenewalInv'
<1> USE DEF RenewalInv
<1>1. /\ UNCHANGED <<now, device, token, issued, trusted, presented>>
      /\ work[w].step = "stored" /\ work' = [work EXCEPT ![w] = Idle]
  BY DEF Answer
<1>2. CASE ~work[w].linked
  <2>1. UNCHANGED <<phone, ask>>
    BY <1>2 DEF Answer
  <2>2. phone' \in [refresh : {0, phone.refresh}, next : {phone.next}]
    BY <2>1 DEF RenewalTypes
  <2>3. Over(w)
    BY <1>1, <1>2, <2>1, <2>2, WorkChanges DEF Over
  <2> QED  BY <1>1, <2>3, OverKeepsInv DEF RenewalTypes
<1>3. CASE work[w].linked
  <2>1. ask' = NoAsk /\ phone' = [refresh |-> phone.refresh, next |-> work[w].token]
    <3>1. [phone EXCEPT !.next = work[w].token] = [refresh |-> phone.refresh, next |-> work[w].token]
      BY DEF RenewalTypes
    <3> QED  BY <1>3, <3>1 DEF Answer
  <2>2. /\ ask'.step = "none"
        /\ \A v \in Handlers \ {w} : work'[v] = work[v] /\ ~work[v].linked
        /\ work'[w].step = "idle" /\ ~work'[w].linked
    <3>1. work'[w] = Idle /\ \A v \in Handlers \ {w} : work'[v] = work[v]
      BY <1>1, WorkChanges DEF Others
    <3>2. \A v \in Handlers : work[v].linked => v = w
      BY <1>3 DEF Waited
    <3> QED  BY <2>1, <3>1, <3>2, RenewalRecords
  <2>3. RenewalTypes'
    <3>1. Idle \in WorkState
      BY DEF RenewalTypes, WorkState, Steps, Idle
    <3>2. work' \in [Handlers -> WorkState]
      BY <1>1, <3>1 DEF RenewalTypes, WorkState
    <3>3. phone' \in [refresh : 0..issued, next : 0..issued]
      BY <2>1 DEF RenewalTypes
    <3>4. ask' \in [step : {"none", "sent", "taken"}, token : 0..issued]
      BY <2>1 DEF RenewalTypes, NoAsk
    <3> QED  BY <1>1, <3>2, <3>3, <3>4 DEF RenewalTypes, WorkState
  <2>4. Timely'
    BY <1>1, <2>2 DEF Timely
  <2>5. TokensKept'
    BY <1>1 DEF TokensKept, Live
  <2>6. Requested'
    BY <1>1, <2>2 DEF Requested
  <2>7. Waited'
    BY <2>2 DEF Waited
  <2> QED  BY <2>3, <2>4, <2>5, <2>6, <2>7
<1> QED  BY <1>2, <1>3

-----------------------------------------------------------------------------
(* The phone asks, and a sign-in begins: nobody worked for it before.         *)
LEMMA ReceiveKeepsInv ==
  ASSUME RenewalInv, NEW w \in Handlers, Receive(w)
  PROVE  RenewalInv'
<1> USE DEF RenewalInv
<1> DEFINE new == [step |-> "received", token |-> ask.token, linked |-> TRUE]
<1>1. /\ UNCHANGED <<now, device, token, issued, trusted, phone, presented>>
      /\ work[w] = Idle /\ ask.step = "sent" /\ work' = [work EXCEPT ![w] = new]
  BY DEF Receive
<1>2. ask' = [step |-> "taken", token |-> ask.token]
  <2>1. [ask EXCEPT !.step = "taken"] = [step |-> "taken", token |-> ask.token]
    BY DEF RenewalTypes
  <2> QED  BY <2>1 DEF Receive
<1>3. \A v \in Handlers : ~work[v].linked
  BY <1>1 DEF Waited, Renews, SignsIn
<1>4. new \in WorkState
  BY DEF RenewalTypes, WorkState, Steps
<1>5. new.step = "received" /\ new.token = ask.token /\ new.linked
  OBVIOUS
<1> HIDE DEF new
<1>6. /\ \A v \in Handlers : v # w => work'[v] = work[v]
      /\ work'[w] = new /\ work' \in [Handlers -> WorkState]
  BY <1>1, <1>4 DEF RenewalTypes, WorkState
<1>7. RenewalTypes'
  BY <1>1, <1>2, <1>6 DEF RenewalTypes, WorkState
<1>8. Timely'
  BY <1>1, <1>5, <1>6 DEF Timely
<1>9. TokensKept'
  BY <1>1 DEF TokensKept, Live
<1>10. Requested'
  BY <1>1, <1>2, <1>5, <1>6 DEF Requested
<1>11. Waited'
  BY <1>2, <1>3, <1>5, <1>6 DEF Waited, Renews
<1> QED  BY <1>7, <1>8, <1>9, <1>10, <1>11

LEMMA LoginKeepsInv ==
  ASSUME RenewalInv, NEW w \in Handlers, Login(w)
  PROVE  RenewalInv'
<1> USE DEF RenewalInv
<1> DEFINE new == [step |-> "opened", token |-> 0, linked |-> TRUE]
<1>1. /\ UNCHANGED <<now, token, issued, trusted, phone, ask, presented>>
      /\ work[w] = Idle /\ work' = [work EXCEPT ![w] = new]
      /\ device = NoSession /\ issued = 0
      /\ device' = [row |-> TRUE, created |-> now, seen |-> now, revoked |-> None]
  BY DEF Login
<1>2. /\ phone.refresh = 0 /\ phone.next = 0 /\ ask.token = 0 /\ ask.step = "none"
      /\ \A v \in Handlers : work[v].token = 0
  BY <1>1, SMT DEF RenewalTypes, Requested
<1>3. \A v \in Handlers : ~work[v].linked
  BY <1>1, <1>2, RenewalRecords DEF Waited, Renews, SignsIn, Requested
<1>4. new \in WorkState /\ 0 \in 0..issued
  BY <1>1 DEF RenewalTypes, WorkState, Steps
<1>5. new.step = "opened" /\ new.linked
  OBVIOUS
<1> HIDE DEF new
<1>6. /\ \A v \in Handlers : v # w => work'[v] = work[v]
      /\ work'[w] = new /\ work' \in [Handlers -> WorkState]
  BY <1>1, <1>4 DEF RenewalTypes, WorkState
<1>7. device'.row /\ device'.created = now /\ device'.seen = now /\ device'.revoked = None
  BY <1>1
<1>8. RenewalTypes'
  <2>1. device' \in SessionRow
    BY <1>1 DEF RenewalTypes, Stamp
  <2> QED  BY <1>1, <1>6, <2>1 DEF RenewalTypes, WorkState
<1>9. Timely'
  BY <1>1, <1>6, <1>7 DEF Timely
<1>10. TokensKept'
  <2>1. \A t \in Tokens : t > issued /\ ~(t <= issued)
    BY <1>1 DEF Tokens
  <2> QED  BY <1>1, <2>1, RenewalRecords DEF TokensKept, Live
<1>11. Requested'
  BY <1>1, <1>2, <1>5, <1>6 DEF Requested
<1>12. Waited'
  BY <1>1, <1>2, <1>3, <1>5, <1>6, <1>7 DEF Waited, SignsIn
<1> QED  BY <1>8, <1>9, <1>10, <1>11, <1>12

-----------------------------------------------------------------------------
(* The phone alone acts.                                                      *)
LEMMA TokenOnThePhone ==
  ASSUME RenewalTypes, NEW t \in 0..issued, t # 0
  PROVE  t \in Tokens
BY RotationAssumption DEF RenewalTypes, Tokens

LEMMA AskKeepsInv ==
  ASSUME RenewalInv, AskRenewal
  PROVE  RenewalInv'
<1> USE DEF RenewalInv
<1> DEFINE t == phone.refresh
<1>1. /\ UNCHANGED <<now, device, token, issued, trusted, work, phone>>
      /\ t # 0 /\ phone.next = 0 /\ ask = NoAsk
      /\ ask' = [step |-> "sent", token |-> t]
      /\ presented' = IF presented[t] # None THEN presented
                      ELSE [presented EXCEPT ![t] = now]
  BY DEF AskRenewal
<1>2. ask.step = "none" /\ ask'.step = "sent" /\ ask'.token = t
  BY <1>1, RenewalRecords
<1>3. t \in 0..issued /\ t \in Tokens
  BY <1>1, TokenOnThePhone DEF RenewalTypes
<1>4. now \in Stamp /\ now # None
  BY DEF RenewalTypes, Stamp, None
<1> HIDE DEF t
<1>5. /\ presented' \in [Tokens -> Stamp] /\ presented'[t] # None
      /\ \A u \in Tokens :
           \/ presented'[u] = presented[u]
           \/ u = t /\ presented[u] = None /\ presented'[u] = now
  <2>1. CASE presented[t] # None
    BY <1>1, <2>1 DEF RenewalTypes
  <2>2. CASE presented[t] = None /\ presented' = [presented EXCEPT ![t] = now]
    BY <1>3, <1>4, <2>2 DEF RenewalTypes
  <2> QED  BY <1>1, <2>1, <2>2
<1>6. RenewalTypes'
  <2>1. ask' \in [step : {"none", "sent", "taken"}, token : 0..issued]
    BY <1>1, <1>3
  <2> QED  BY <1>1, <1>5, <2>1 DEF RenewalTypes
<1>7. Timely'
  BY <1>1 DEF Timely
<1>8. TokensKept'
  <2>1. now \in Nat
    BY DEF RenewalTypes
  <2> QED  BY <1>1, <1>5, <2>1 DEF TokensKept, Live
<1>9. Requested'
  <2>1. \A w \in Handlers : work[w].step \in {"received", "found", "marked"} =>
          work[w].token \in Tokens
    <3> SUFFICES ASSUME NEW w \in Handlers, work[w].step \in {"received", "found", "marked"}
                 PROVE  work[w].token \in Tokens
      OBVIOUS
    <3>1. work[w].token \in 0..issued /\ work[w].token # 0
      BY DEF RenewalTypes, Requested
    <3> QED  BY <3>1, TokenOnThePhone
  <2>2. \A u \in Tokens : presented[u] # None => presented'[u] # None
    BY <1>5
  <2> QED  BY <1>1, <1>2, <1>5, <2>1, <2>2 DEF Requested
<1>10. Waited'
  BY <1>1, <1>2 DEF Waited, Renews, SignsIn, t
<1> QED  BY <1>6, <1>7, <1>8, <1>9, <1>10

LEMMA WriteRefreshTokenKeepsInv ==
  ASSUME RenewalInv, WriteRefreshToken
  PROVE  RenewalInv'
<1> USE DEF RenewalInv
<1>1. /\ UNCHANGED <<now, device, token, issued, trusted, work, ask, presented>>
      /\ phone.next # 0 /\ phone' = [refresh |-> phone.next, next |-> 0]
  BY DEF WriteRefreshToken
<1>2. RenewalTypes'
  <2>1. 0 \in 0..issued
    BY DEF RenewalTypes
  <2>2. phone' \in [refresh : 0..issued, next : 0..issued]
    BY <1>1, <2>1 DEF RenewalTypes
  <2> QED  BY <1>1, <2>2 DEF RenewalTypes
<1>3. Timely' /\ TokensKept'
  BY <1>1 DEF Timely, TokensKept, Live
<1>4. Requested'
  BY <1>1 DEF Requested
<1>5. Waited'
  BY <1>1 DEF Waited, Renews, SignsIn
<1> QED  BY <1>2, <1>3, <1>4, <1>5

LEMMA InterruptedKeepsInv ==
  ASSUME RenewalInv, Interrupted
  PROVE  RenewalInv'
<1> USE DEF RenewalInv
<1>1. /\ UNCHANGED <<now, device, token, issued, trusted, presented>>
      /\ ask' = NoAsk
      /\ work' = [w \in Handlers |-> [work[w] EXCEPT !.linked = FALSE]]
  BY DEF Interrupted
<1>2. phone' = [refresh |-> phone.refresh, next |-> 0]
  <2>1. [phone EXCEPT !.next = 0] = [refresh |-> phone.refresh, next |-> 0]
    BY DEF RenewalTypes
  <2> QED  BY <2>1 DEF Interrupted
<1>3. \A w \in Handlers : /\ work'[w] \in WorkState /\ ~work'[w].linked
                         /\ work'[w].step = work[w].step /\ work'[w].token = work[w].token
  <2> DEFINE no == FALSE
  <2>1. no \in BOOLEAN
    OBVIOUS
  <2>2. work' = [w \in Handlers |-> [work[w] EXCEPT !.linked = no]]
    BY <1>1
  <2> HIDE DEF no
  <2>3. ASSUME NEW w \in Handlers
        PROVE  /\ work'[w] \in WorkState /\ work'[w].linked = no
               /\ work'[w].step = work[w].step /\ work'[w].token = work[w].token
    <3>1. work[w] \in WorkState
      BY DEF RenewalTypes, WorkState
    <3>2. [work[w] EXCEPT !.linked = no]
            = [step |-> work[w].step, token |-> work[w].token, linked |-> no]
      BY <3>1 DEF WorkState
    <3>3. work'[w] = [step |-> work[w].step, token |-> work[w].token, linked |-> no]
      BY <2>2, <3>2
    <3> QED  BY <2>1, <3>1, <3>3 DEF WorkState
  <2> QED  BY <2>3 DEF no
<1>5. RenewalTypes'
  <2>2. work' \in [Handlers -> WorkState]
    <3>1. work' = [w \in Handlers |-> work'[w]]
      BY <1>1
    <3> QED  BY <1>3, <3>1
  <2>3. phone' \in [refresh : 0..issued, next : 0..issued]
    BY <1>2 DEF RenewalTypes
  <2>4. ask' \in [step : {"none", "sent", "taken"}, token : 0..issued]
    BY <1>1 DEF RenewalTypes, NoAsk
  <2> QED  BY <1>1, <2>2, <2>3, <2>4 DEF RenewalTypes, WorkState
<1>6. Timely'
  BY <1>1, <1>3 DEF Timely
<1>7. TokensKept'
  BY <1>1 DEF TokensKept, Live
<1>8. Requested'
  BY <1>1, <1>2, <1>3, RenewalRecords DEF Requested
<1>9. Waited'
  BY <1>3 DEF Waited
<1> QED  BY <1>5, <1>6, <1>7, <1>8, <1>9

-----------------------------------------------------------------------------
(* The session ends, the rows are deleted.                                    *)
DeletedToken(t) == [row |-> FALSE, expires |-> token[t].expires,
                    revoked |-> token[t].revoked, rotated |-> token[t].rotated]

LEMMA DeletedTokenFacts ==
  ASSUME RenewalTypes, NEW t \in Tokens
  PROVE  /\ DeletedToken(t) \in TokenRow
         /\ DeletedToken(t) = [token[t] EXCEPT !.row = FALSE]
         /\ DeletedToken(t).expires = token[t].expires
         /\ DeletedToken(t).revoked = token[t].revoked
         /\ DeletedToken(t).rotated = token[t].rotated
         /\ token[t] = NoToken => DeletedToken(t) = NoToken
<1> DEFINE no == FALSE
           gone == [row |-> no, expires |-> token[t].expires,
                    revoked |-> token[t].revoked, rotated |-> token[t].rotated]
<1>1. no \in BOOLEAN
  OBVIOUS
<1>2. token[t] = NoToken => gone = NoToken
  BY DEF NoToken
<1>3. DeletedToken(t) = gone
  BY DEF DeletedToken
<1>4. [token[t] EXCEPT !.row = no] = [token[t] EXCEPT !.row = FALSE]
  OBVIOUS
<1> HIDE DEF no
<1>5. gone \in TokenRow
  BY <1>1 DEF RenewalTypes
<1>6. [token[t] EXCEPT !.row = no] = gone
  BY DEF RenewalTypes
<1>7. gone.expires = token[t].expires /\ gone.revoked = token[t].revoked
      /\ gone.rotated = token[t].rotated
  OBVIOUS
<1> QED  BY <1>2, <1>3, <1>4, <1>5, <1>6, <1>7

LEMMA RowsKeepInv ==
  ASSUME RenewalInv, UNCHANGED <<now, issued, work, ask, presented>>, RenewalTypes',
         phone'.next = phone.next, phone'.refresh \in {0, phone.refresh},
         device'.revoked \in {device.revoked, None, now},
         device'.row => device.row /\ device'.created = device.created,
         \A w \in Handlers : SignsIn(w) => SignsIn(w)',
         TokensKept'
  PROVE  RenewalInv'
<1> USE DEF RenewalInv
<1>1. Timely'
  BY DEF Timely
<1>2. Requested'
  BY DEF Requested
<1>3. Waited'
  <2>1. \A w \in Handlers : Renews(w) => Renews(w)'
    BY DEF Renews
  <2> QED  BY <2>1 DEF Waited
<1> QED  BY <1>1, <1>2, <1>3

LEMMA EndedKeepsInv ==
  ASSUME RenewalInv, Live, Ended, UNCHANGED <<now, issued, work, ask, presented>>,
         trusted' \in Stamp, phone' \in [refresh : {0, phone.refresh}, next : {phone.next}]
  PROVE  RenewalInv'
<1> USE DEF RenewalInv
<1>1. device' = [row |-> device.row, created |-> device.created, seen |-> device.seen,
                 revoked |-> now]
  <2>1. [device EXCEPT !.revoked = now] = [row |-> device.row, created |-> device.created,
                                           seen |-> device.seen, revoked |-> now]
    BY DEF RenewalTypes
  <2> QED  BY <2>1 DEF Ended
<1>2. now \in Nat /\ now \in Stamp /\ now # None
  BY DEF RenewalTypes, Stamp, None
<1>3. /\ DOMAIN token' = Tokens /\ token' = [t \in Tokens |-> token'[t]]
      /\ \A t \in Tokens :
           \/ token'[t] = token[t]
           \/ /\ token[t].row /\ token[t].revoked = None
              /\ token'[t] = [row |-> token[t].row, expires |-> token[t].expires,
                              revoked |-> now, rotated |-> token[t].rotated]
  <2>1. ASSUME NEW t \in Tokens
        PROVE  [token[t] EXCEPT !.revoked = now]
                 = [row |-> token[t].row, expires |-> token[t].expires, revoked |-> now,
                    rotated |-> token[t].rotated]
    BY DEF RenewalTypes
  <2>2. token' = [t \in Tokens |->
                    IF token[t].row /\ token[t].revoked = None
                    THEN [token[t] EXCEPT !.revoked = now] ELSE token[t]]
    BY DEF Ended
  <2>3. ASSUME NEW t \in Tokens
        PROVE  \/ token'[t] = token[t]
               \/ /\ token[t].row /\ token[t].revoked = None
                  /\ token'[t] = [row |-> token[t].row, expires |-> token[t].expires,
                                  revoked |-> now, rotated |-> token[t].rotated]
    <3>1. CASE token[t].row /\ token[t].revoked = None
      BY <2>1, <2>2, <3>1
    <3>2. CASE ~(token[t].row /\ token[t].revoked = None)
      BY <2>2, <3>2
    <3> QED  BY <3>1, <3>2
  <2> QED  BY <2>2, <2>3
<1>4. token' \in [Tokens -> TokenRow]
  <2>1. ASSUME NEW t \in Tokens
        PROVE  token'[t] \in TokenRow
    BY <1>2, <1>3 DEF RenewalTypes
  <2> QED  BY <1>3, <2>1
<1>5. RenewalTypes'
  <2>1. device' \in SessionRow
    BY <1>1, <1>2 DEF RenewalTypes
  <2>2. phone' \in [refresh : 0..issued, next : 0..issued]
    BY DEF RenewalTypes
  <2> QED  BY <1>4, <2>1, <2>2 DEF RenewalTypes
<1>6. /\ device'.row = device.row /\ device'.created = device.created
      /\ device'.seen = device.seen /\ device'.revoked = now
  BY <1>1
<1>7. TokensKept'
  <2>1. ~Live'
    BY <1>2, <1>6 DEF Live
  <2>2. ASSUME NEW t \in Tokens
        PROVE  /\ presented[t] <= now
               /\ token'[t].rotated # None =>
                    presented[t] # None /\ presented[t] <= token'[t].rotated
               /\ t > issued => token'[t] = NoToken
    <3>1. token'[t].rotated = token[t].rotated
      BY <1>3
    <3>2. t > issued => token'[t] = token[t]
      BY <1>3, RenewalRecords DEF TokensKept
    <3> QED  BY <3>1, <3>2 DEF TokensKept
  <2> QED  BY <2>1, <2>2 DEF TokensKept
<1>8. \A w \in Handlers : SignsIn(w) => SignsIn(w)'
  BY <1>6 DEF SignsIn
<1> QED  BY <1>5, <1>6, <1>7, <1>8, RowsKeepInv

LEMMA RevokeKeepsInv ==
  ASSUME RenewalInv, RevokeDevice
  PROVE  RenewalInv'
<1>1. trusted' \in Stamp
  BY DEF RevokeDevice, RenewalInv, RenewalTypes, Stamp
<1>2. phone' \in [refresh : {0, phone.refresh}, next : {phone.next}]
  BY DEF RevokeDevice, RenewalInv, RenewalTypes
<1> QED  BY <1>1, <1>2, EndedKeepsInv DEF RevokeDevice

LEMMA LogoutKeepsInv ==
  ASSUME RenewalInv, Logout
  PROVE  RenewalInv'
<1> USE DEF RenewalInv
<1>1. phone' = [refresh |-> 0, next |-> phone.next]
  <2>1. [phone EXCEPT !.refresh = 0] = [refresh |-> 0, next |-> phone.next]
    BY DEF RenewalTypes
  <2> QED  BY <2>1 DEF Logout
<1>2. phone' \in [refresh : {0, phone.refresh}, next : {phone.next}]
  BY <1>1
<1>3. UNCHANGED <<now, issued, work, ask, presented>>
  BY DEF Logout
<1>4. CASE Live /\ Ended /\ trusted' \in {trusted, None}
  <2>1. trusted' \in Stamp
    BY <1>4 DEF RenewalTypes, Stamp
  <2> QED  BY <1>2, <1>3, <1>4, <2>1, EndedKeepsInv
<1>5. CASE UNCHANGED <<device, token, trusted>>
  <2>1. RenewalTypes'
    <3>1. phone' \in [refresh : 0..issued, next : 0..issued]
      BY <1>2 DEF RenewalTypes
    <3> QED  BY <1>3, <1>5, <3>1 DEF RenewalTypes
  <2>2. TokensKept'
    BY <1>3, <1>5 DEF TokensKept, Live
  <2>3. \A w \in Handlers : SignsIn(w) => SignsIn(w)'
    BY <1>1, <1>3, <1>5 DEF SignsIn
  <2> QED  BY <1>1, <1>3, <1>5, <2>1, <2>2, <2>3, RowsKeepInv
<1> QED  BY <1>4, <1>5 DEF Logout

LEMMA PurgeTokensKeepsInv ==
  ASSUME RenewalInv, PurgeTokens
  PROVE  RenewalInv'
<1> USE DEF RenewalInv
<1>1. UNCHANGED <<now, device, issued, trusted, work, phone, ask, presented>>
  BY DEF PurgeTokens
<1>2. /\ token' = [t \in Tokens |-> token'[t]]
      /\ \A t \in Tokens :
           token'[t] = token[t] \/ (Dead(t) /\ token'[t] = DeletedToken(t))
  <2>1. token' = [t \in Tokens |->
                    IF Dead(t) THEN [token[t] EXCEPT !.row = FALSE] ELSE token[t]]
    BY DEF PurgeTokens
  <2>2. ASSUME NEW t \in Tokens
        PROVE  token'[t] = token[t] \/ (Dead(t) /\ token'[t] = DeletedToken(t))
    BY <2>1, DeletedTokenFacts
  <2> QED  BY <2>1, <2>2
<1>3. token' \in [Tokens -> TokenRow]
  <2>1. ASSUME NEW t \in Tokens
        PROVE  token'[t] \in TokenRow
    BY <1>2, DeletedTokenFacts DEF RenewalTypes
  <2> QED  BY <1>2, <2>1
<1>4. RenewalTypes'
  BY <1>1, <1>3 DEF RenewalTypes
<1>5. TokensKept'
  <2> SUFFICES ASSUME NEW t \in Tokens
               PROVE  /\ presented[t] <= now
                      /\ token'[t].rotated # None =>
                           presented[t] # None /\ presented[t] <= token'[t].rotated
                      /\ t > issued => token'[t] = NoToken
                      /\ token'[t].revoked # None => ~Live
                      /\ t <= issued /\ ~token'[t].row =>
                           \/ ~Live
                           \/ token'[t].expires < now
                           \/ token'[t].rotated # None /\ token'[t].rotated + KeepFor < now
    BY <1>1 DEF TokensKept, Live
  <2>1. CASE token'[t] = token[t]
    BY <2>1 DEF TokensKept
  <2>2. CASE Dead(t) /\ token'[t] = DeletedToken(t)
    <3>1. /\ token'[t].expires = token[t].expires /\ token'[t].revoked = token[t].revoked
          /\ token'[t].rotated = token[t].rotated
      BY <2>2, DeletedTokenFacts
    <3>2. token[t] = NoToken => token'[t] = NoToken
      BY <2>2, DeletedTokenFacts
    <3>3. \/ token[t].revoked # None
          \/ token[t].expires < now
          \/ token[t].rotated # None /\ token[t].rotated + KeepFor < now
      BY <2>2, RotationAssumption DEF Dead, RenewalTypes, Stamp, None
    <3> QED  BY <3>1, <3>2, <3>3 DEF TokensKept
  <2> QED  BY <1>2, <2>1, <2>2
<1>6. \A w \in Handlers : SignsIn(w) => SignsIn(w)'
  BY <1>1 DEF SignsIn
<1> QED  BY <1>1, <1>4, <1>5, <1>6, RowsKeepInv

(* A session that is still being opened is too young to be deleted.           *)
LEMMA SessionGoneKeepsInv ==
  ASSUME RenewalInv, UNCHANGED <<now, issued, trusted, work, phone, ask, presented>>,
         device' = NoSession,
         \A t \in Tokens : token'[t] \in {token[t], DeletedToken(t)},
         token' = [t \in Tokens |-> token'[t]],
         device.created < now \/ device.seen < now
  PROVE  RenewalInv'
<1> USE DEF RenewalInv
<1>1. token' \in [Tokens -> TokenRow]
  <2>1. ASSUME NEW t \in Tokens
        PROVE  token'[t] \in TokenRow
    BY DeletedTokenFacts DEF RenewalTypes
  <2> QED  BY <2>1
<1>2. RenewalTypes'
  BY <1>1, RenewalRecords DEF RenewalTypes
<1>3. TokensKept'
  <2>1. ~Live'
    BY RenewalRecords DEF Live
  <2>2. ASSUME NEW t \in Tokens
        PROVE  /\ presented[t] <= now
               /\ token'[t].rotated # None =>
                    presented[t] # None /\ presented[t] <= token'[t].rotated
               /\ t > issued => token'[t] = NoToken
    <3>1. token'[t].rotated = token[t].rotated
      BY DeletedTokenFacts
    <3>2. token[t] = NoToken => token'[t] = NoToken
      BY DeletedTokenFacts
    <3> QED  BY <3>1, <3>2 DEF TokensKept
  <2> QED  BY <2>1, <2>2 DEF TokensKept
<1>4. \A w \in Handlers : SignsIn(w) => SignsIn(w)'
  <2>1. ~(device.created = now /\ device.seen = now)
    BY DEF RenewalTypes
  <2> QED  BY <2>1 DEF SignsIn
<1> QED  BY <1>2, <1>3, <1>4, RenewalRecords, RowsKeepInv

LEMMA PurgeSessionsKeepsInv ==
  ASSUME RenewalInv, PurgeSessions
  PROVE  RenewalInv'
<1>1. device.created < now
  BY RotationAssumption DEF PurgeSessions, RenewalInv, RenewalTypes
<1>2. token' = [t \in Tokens |-> token'[t]]
  BY DEF PurgeSessions, RenewalInv, RenewalTypes
<1> QED  BY <1>1, <1>2, SessionGoneKeepsInv DEF PurgeSessions

LEMMA SweepKeepsInv ==
  ASSUME RenewalInv, Sweep
  PROVE  RenewalInv'
<1>1. device.seen < now
  BY RotationAssumption DEF Sweep, RenewalInv, RenewalTypes
<1>2. token' = [t \in Tokens |-> [token[t] EXCEPT !.row = FALSE]]
  BY DEF Sweep
<1>3. /\ token' = [t \in Tokens |-> token'[t]]
      /\ \A t \in Tokens : token'[t] = DeletedToken(t)
  BY <1>2, DeletedTokenFacts DEF RenewalInv
<1> QED  BY <1>1, <1>3, SessionGoneKeepsInv DEF Sweep

LEMMA TickKeepsInv ==
  ASSUME RenewalInv, NextDay
  PROVE  RenewalInv'
<1> USE DEF RenewalInv
<1>1. /\ UNCHANGED <<device, token, issued, trusted, work, phone, ask, presented>>
      /\ \A w \in Handlers : work[w] = Idle
      /\ now \in Nat /\ now' = now + 1 /\ now' \in Nat /\ KeepFor \in Nat
  BY RotationAssumption DEF NextDay, RenewalTypes
<1>2. RenewalTypes'
  BY <1>1 DEF RenewalTypes
<1>3. Timely'
  BY <1>1, RenewalRecords DEF Timely
<1>4. TokensKept'
  <2>1. \A t \in Tokens : /\ presented[t] \in Int /\ token[t].expires \in Int
                                  /\ token[t].rotated \in Int
    BY DEF RenewalTypes, Stamp, None
  <2> QED  BY <1>1, <2>1 DEF TokensKept, Live
<1>5. Requested' /\ Waited'
  BY <1>1, RenewalRecords DEF Requested, Waited
<1> QED  BY <1>2, <1>3, <1>4, <1>5

-----------------------------------------------------------------------------
LEMMA RenewalBegins == RotationInit => RenewalInv
<1> SUFFICES ASSUME RotationInit
             PROVE  RenewalInv
  OBVIOUS
<1>1. RenewalTypes
  <2>1. Idle \in [step : Steps, token : 0..0, linked : BOOLEAN]
    BY DEF Idle, Steps
  <2>2. NoAsk \in [step : {"none", "sent", "taken"}, token : 0..0]
    BY DEF NoAsk
  <2>3. 0 \in 0..MaxTokens /\ 0 \in 0..0 /\ None \in Stamp
    BY RotationAssumption DEF Stamp
  <2>4. phone \in [refresh : 0..0, next : 0..0]
    BY <2>3 DEF RotationInit
  <2>5. /\ work \in [Handlers -> [step : Steps, token : 0..0, linked : BOOLEAN]]
        /\ presented \in [Tokens -> Stamp]
        /\ token \in [Tokens -> TokenRow]
    BY <2>1, <2>3, RenewalRecords DEF RotationInit
  <2> QED  BY <2>2, <2>3, <2>4, <2>5, RenewalRecords DEF RotationInit, RenewalTypes
<1>2. \A w \in Handlers : work[w].step = "idle" /\ ~work[w].linked
  BY RenewalRecords DEF RotationInit
<1>3. TokensKept
  <2>1. \A t \in Tokens : presented[t] <= now /\ ~(t <= issued)
    BY DEF RotationInit, Tokens, None
  <2>2. \A t \in Tokens : token[t] = NoToken
    BY DEF RotationInit
  <2> QED  BY <2>1, <2>2, RenewalRecords DEF TokensKept
<1>4. Timely /\ Requested /\ Waited
  BY <1>2, RenewalRecords DEF RotationInit, Timely, Requested, Waited
<1> QED  BY <1>1, <1>3, <1>4 DEF RenewalInv

LEMMA RenewalGoesOn ==
  RenewalInv /\ [RotationNext]_rotationVars => RenewalInv'
<1> SUFFICES ASSUME RenewalInv, [RotationNext]_rotationVars
             PROVE  RenewalInv'
  OBVIOUS
<1>1. ASSUME NEW w \in Handlers, ServerStep(w) \/ Fail(w) \/ Login(w)
      PROVE  RenewalInv'
  BY <1>1, ReceiveKeepsInv, FindKeepsInv, MarkRotatedKeepsInv, ResolveKeepsInv,
     StoreTokenKeepsInv, AnswerKeepsInv, FailKeepsInv, LoginKeepsInv DEF ServerStep
<1>2. CASE AskRenewal \/ WriteRefreshToken \/ Interrupted
  BY <1>2, AskKeepsInv, WriteRefreshTokenKeepsInv, InterruptedKeepsInv
<1>3. CASE RevokeDevice \/ Logout \/ PurgeTokens \/ PurgeSessions
           \/ Sweep \/ NextDay
  BY <1>3, RevokeKeepsInv, LogoutKeepsInv, PurgeTokensKeepsInv, PurgeSessionsKeepsInv,
     SweepKeepsInv, TickKeepsInv
<1>4. CASE UNCHANGED rotationVars
  BY <1>4 DEF rotationVars, RenewalInv, RenewalTypes, Timely, TokensKept, Requested, Waited,
     Renews, SignsIn, Live
<1> QED  BY <1>1, <1>2, <1>3, <1>4 DEF RotationNext, RotationStep

LEMMA RenewalInductive == RotationSpec => []RenewalInv
<1>1. RotationInit => RenewalInv
  BY RenewalBegins
<1>2. RenewalInv /\ [RotationNext]_rotationVars => RenewalInv'
  BY RenewalGoesOn
<1> QED  BY <1>1, <1>2, PTL DEF RotationSpec

-----------------------------------------------------------------------------
(* A signed-in phone is shown the sign-in form only when its session was      *)
(* ended or its token ran out, or a grace period after it first presented the *)
(* token, every answer since being lost (auth_service.rs refresh,             *)
(* auth_interceptor.dart).                                                    *)
THEOREM PhoneStaysSignedIn == RotationSpec => KeepsThePhoneSignedIn
<1>1. RenewalInv /\ [RotationNext]_rotationVars =>
        [phone.refresh # 0 /\ phone'.refresh = 0 /\ ~Logout =>
           \/ ~Live
           \/ token[ask.token].expires <= now
           \/ presented[ask.token] + Grace <= now]_rotationVars
  <2> SUFFICES ASSUME RenewalInv, RotationNext, phone.refresh # 0, phone'.refresh = 0,
                      ~Logout
               PROVE  \/ ~Live
                      \/ token[ask.token].expires <= now
                      \/ presented[ask.token] + Grace <= now
    OBVIOUS
  <2> USE DEF RenewalInv
  <2>1. PICK w \in Handlers : work[w].linked /\ (Find(w) \/ Resolve(w))
                             /\ Refuse(w)
    <3>1. phone' # phone
      OBVIOUS
    <3>2. ASSUME NEW w \in Handlers, ServerStep(w)
          PROVE  work[w].linked /\ (Find(w) \/ Resolve(w)) /\ Refuse(w)
      <4>1. ~Receive(w) /\ ~MarkRotated(w)
        BY <3>1 DEF Receive, MarkRotated
      <4>2. ~GiveUp(w)
        BY <3>1 DEF GiveUp
      <4>3. ~StoreToken(w)
        BY <3>1, <4>2 DEF StoreToken
      <4>4. ~Answer(w)
        <5>1. [phone EXCEPT !.next = work[w].token].refresh = phone.refresh
          BY DEF RenewalTypes
        <5> QED  BY <3>1, <5>1 DEF Answer
      <4>5. CASE Find(w)
        BY <3>1, <4>5 DEF Find, Refuse
      <4>6. CASE Resolve(w)
        BY <3>1, <4>2, <4>6 DEF Resolve, Refuse
      <4> QED  BY <3>2, <4>1, <4>3, <4>4, <4>5, <4>6 DEF ServerStep
    <3>3. \A w \in Handlers : ~Fail(w) /\ ~Login(w)
      BY <3>1 DEF Fail, GiveUp, Login
    <3>4. ~AskRenewal /\ ~RevokeDevice
      BY <3>1 DEF AskRenewal, RevokeDevice
    <3>5. ~PurgeTokens /\ ~PurgeSessions /\ ~Sweep /\ ~NextDay
      BY <3>1 DEF PurgeTokens, PurgeSessions, Sweep, NextDay
    <3>6. ~WriteRefreshToken
      BY DEF WriteRefreshToken
    <3>7. ~Interrupted
      <4>1. [phone EXCEPT !.next = 0].refresh = phone.refresh
        BY DEF RenewalTypes
      <4> QED  BY <4>1 DEF Interrupted
    <3> QED  BY <3>2, <3>3, <3>4, <3>5, <3>6, <3>7 DEF RotationNext, RotationStep
  <2>2. CASE Resolve(w)
    <3>1. CASE Live \/ trusted >= now
      <4>1. UNCHANGED phone
        BY <2>2, <3>1 DEF Resolve
      <4> QED  BY <4>1
    <3>2. CASE ~Live
      BY <3>2
    <3> QED  BY <3>1, <3>2
  <2>3. CASE Find(w)
    <3>1. work[w].step = "received" /\ ~Accepted(work[w].token)
      <4>1. phone' # phone
        OBVIOUS
      <4> QED  BY <2>3, <4>1 DEF Find
    <3>2. /\ ask.token = work[w].token /\ ask.token # 0 /\ ask.token \in 0..issued
          /\ presented[ask.token] # None
      BY <2>1, <3>1 DEF Waited, Renews, SignsIn, Requested, RenewalTypes
    <3>3. ask.token \in Tokens /\ ask.token <= issued
      BY <3>2, TokenOnThePhone
    <3> DEFINE t == ask.token
    <3>4. \/ ~token[t].row \/ ~device.row \/ token[t].revoked # None
          \/ token[t].expires <= now
          \/ token[t].rotated # None /\ token[t].rotated + Grace <= now
          \/ device.revoked # None
      BY <3>1, <3>2, <3>3, RotationAssumption DEF Accepted, RenewalTypes, Stamp, None
    <3>5. /\ presented[t] \in Int /\ token[t].rotated \in Int /\ token[t].expires \in Int
          /\ now \in Int /\ Grace \in Int /\ KeepFor \in Int /\ Grace <= KeepFor
      BY <3>3, RotationAssumption DEF RenewalTypes, Stamp, None
    <3>6. /\ token[t].rotated # None => presented[t] <= token[t].rotated
          /\ token[t].revoked # None => ~Live
          /\ ~token[t].row => \/ ~Live
                              \/ token[t].expires < now
                              \/ token[t].rotated # None /\ token[t].rotated + KeepFor < now
      BY <3>3 DEF TokensKept
    <3> HIDE DEF t
    <3>7. \/ ~Live \/ token[t].expires <= now \/ presented[t] + Grace <= now
      BY <3>4, <3>5, <3>6 DEF Live
    <3> QED  BY <3>7 DEF t
  <2> QED  BY <2>1, <2>2, <2>3
<1> QED  BY <1>1, RenewalInductive, PTL DEF RotationSpec, KeepsThePhoneSignedIn

-----------------------------------------------------------------------------
(* Whoever may still store a token after the sign-out is known.               *)
LateKnown == \A w \in Handlers : work[w].step \in LetThrough /\ device.revoked # None => w \in late

(* No request is let through once the session is signed out.                  *)
LEMMA NoneLetThrough ==
  ASSUME RenewalTypes, RotationStep, device'.revoked # None, NEW v \in Handlers, work'[v].step \in LetThrough
  PROVE  work[v].step \in LetThrough
<1>1. ASSUME NEW w \in Handlers, NEW s, work' = [work EXCEPT ![w].step = s],
             work[w].step \in LetThrough \/ v # w
      PROVE  work[v].step \in LetThrough
  BY <1>1, StepChanges DEF LetThrough, Others
<1>2. ASSUME NEW w \in Handlers, work' = [work EXCEPT ![w] = Idle] PROVE work[v].step \in LetThrough
  BY <1>2, WorkChanges, RenewalRecords DEF LetThrough, Others
<1>3. ASSUME UNCHANGED work PROVE work[v].step \in LetThrough
  BY <1>3 DEF LetThrough
<1>4. ASSUME NEW w \in Handlers, ServerStep(w) \/ Fail(w) \/ Login(w) PROVE work[v].step \in LetThrough
  <2>1. CASE Find(w)
    <3>1. CASE work' = [work EXCEPT ![w].step = "found"] /\ Accepted(work[w].token)
      BY <2>1, <3>1 DEF Find, Accepted
    <3> QED  BY <1>2, <2>1, <3>1 DEF Find, Refuse
  <2>2. CASE Receive(w)
    <3>1. work' = [work EXCEPT ![w] = [step |-> "received", token |-> ask.token, linked |-> TRUE]]
      BY <2>2 DEF Receive
    <3> QED  BY <3>1, WorkChanges DEF LetThrough, Others
  <2>3. CASE MarkRotated(w)
    BY <1>1, <2>3 DEF MarkRotated, LetThrough
  <2>4. CASE Resolve(w)
    BY <1>1, <1>2, <2>4 DEF Resolve, LetThrough, Refuse, GiveUp
  <2>5. CASE StoreToken(w)
    <3>1. CASE work' = [work EXCEPT ![w].step = "stored", ![w].token = issued + 1]
      BY <2>5, <3>1 DEF StoreToken, LetThrough, RenewalTypes
    <3> QED  BY <1>2, <2>5, <3>1 DEF StoreToken, GiveUp
  <2>6. CASE Answer(w) \/ Fail(w)
    BY <1>2, <2>6 DEF Answer, Fail, GiveUp
  <2>7. CASE Login(w)
    BY <2>7 DEF Login
  <2> QED  BY <1>4, <2>1, <2>2, <2>3, <2>4, <2>5, <2>6, <2>7 DEF ServerStep
<1>5. CASE AskRenewal \/ WriteRefreshToken \/ RevokeDevice \/ Logout \/ PurgeTokens
           \/ PurgeSessions \/ Sweep \/ NextDay
  BY <1>3, <1>5 DEF AskRenewal, WriteRefreshToken, RevokeDevice, Logout, PurgeTokens,
     PurgeSessions, Sweep, NextDay
<1>6. CASE Interrupted
  <2>1. work' = [w \in Handlers |-> [work[w] EXCEPT !.linked = FALSE]]
    BY <1>6 DEF Interrupted
  <2> QED  BY <2>1 DEF LetThrough, RenewalTypes
<1> QED  BY <1>4, <1>5, <1>6 DEF RotationStep

LEMMA LateKept ==
  ASSUME RenewalInv, LateKnown, [RotationNext]_rotationVars
  PROVE  LateKnown'
<1>1. CASE UNCHANGED rotationVars
  BY <1>1 DEF rotationVars, LateKnown, LetThrough
<1>2. CASE RotationNext
  <2> SUFFICES ASSUME NEW w \in Handlers, work'[w].step \in LetThrough, device'.revoked # None
               PROVE  w \in late'
    BY DEF LateKnown
  <2>1. work[w].step \in LetThrough
    BY <1>2, NoneLetThrough DEF RotationNext, RenewalInv
  <2>2. CASE device.revoked = None
    BY <1>2, <2>1, <2>2 DEF RotationNext, NoteSignOut
  <2>3. CASE device.revoked # None
    BY <1>2, <2>1, <2>3 DEF RotationNext, NoteSignOut, LateKnown
  <2> QED  BY <2>2, <2>3
<1> QED  BY <1>1, <1>2

LEMMA LateInductive == RotationSpec => []LateKnown
<1>1. RotationInit => LateKnown
  BY RenewalRecords DEF RotationInit, LateKnown
<1>2. RenewalInv /\ LateKnown /\ [RotationNext]_rotationVars => LateKnown'
  BY LateKept
<1> QED  BY <1>1, <1>2, RenewalInductive, PTL DEF RotationSpec

(* After the sign-out a token is stored only for a request that was let       *)
(* through before it, one for each (auth_service.rs refresh, issue).          *)
THEOREM SignedOutIsOut == RotationSpec => SignedOutGetsNothing
<1>1. RenewalInv /\ LateKnown /\ [RotationNext]_rotationVars =>
        [issued' > issued /\ device.revoked # None =>
           \E w \in late : work[w].step = "resolved" /\ work'[w].step = "stored"]_rotationVars
  <2> SUFFICES ASSUME RenewalInv, LateKnown, RotationNext, issued' > issued,
                      device.revoked # None
               PROVE  \E w \in late : work[w].step = "resolved" /\ work'[w].step = "stored"
    OBVIOUS
  <2>1. issued \in Nat /\ issued' # issued
    BY DEF RenewalInv, RenewalTypes
  <2>2. PICK w \in Handlers : StoreToken(w)
    <3>1. ASSUME NEW w \in Handlers, ServerStep(w) \/ Fail(w) \/ Login(w)
          PROVE  StoreToken(w)
      BY <2>1, <3>1 DEF ServerStep, Receive, Find, MarkRotated,
         Resolve, Answer, Fail, Login
    <3>2. ~AskRenewal /\ ~WriteRefreshToken /\ ~Interrupted /\ ~RevokeDevice
          /\ ~Logout
      BY <2>1 DEF AskRenewal, WriteRefreshToken, Interrupted, RevokeDevice,
         Logout
    <3>3. ~PurgeTokens /\ ~PurgeSessions /\ ~Sweep /\ ~NextDay
      BY <2>1 DEF PurgeTokens, PurgeSessions, Sweep, NextDay
    <3> QED  BY <3>1, <3>2, <3>3 DEF RotationNext, RotationStep
  <2>3. work[w].step = "resolved" /\ w \in late
    BY <2>2 DEF StoreToken, LateKnown, LetThrough
  <2>4. work' = [work EXCEPT ![w].step = "stored", ![w].token = issued + 1]
    BY <2>1, <2>2 DEF StoreToken
  <2>5. work'[w].step = "stored"
    BY <2>4 DEF RenewalInv, RenewalTypes
  <2> QED  BY <2>3, <2>5
<1> QED  BY <1>1, RenewalInductive, LateInductive, PTL DEF RotationSpec, SignedOutGetsNothing

(* Housekeeping takes no token that would be accepted, no session of one, and *)
(* no session that is just being opened (auth_repository.rs                   *)
(* purge_dead_sessions, retention.rs).                                        *)
THEOREM OnlyTheDeadGo == RotationSpec => PurgeTakesOnlyTheDead
<1>1. RenewalInv /\ [RotationNext]_rotationVars =>
        [/\ \A t \in Tokens : token[t].row /\ ~token'[t].row => ~Accepted(t)
         /\ device.row /\ ~device'.row =>
              /\ \A t \in Tokens : ~Accepted(t)
              /\ Live => \A w \in Handlers : work[w].step # "opened"]_rotationVars
  <2> SUFFICES ASSUME RenewalInv, RotationNext
               PROVE  /\ \A t \in Tokens :
                           token[t].row /\ ~token'[t].row => ~Accepted(t)
                      /\ device.row /\ ~device'.row =>
                           /\ \A t \in Tokens : ~Accepted(t)
                           /\ Live => \A w \in Handlers : work[w].step # "opened"
    OBVIOUS
  <2> USE DEF RenewalInv
  <2>1. CASE PurgeTokens
    <3>1. device' = device
      BY <2>1 DEF PurgeTokens
    <3>2. ASSUME NEW t \in Tokens, token[t].row, ~token'[t].row
          PROVE  ~Accepted(t)
      <4>1. Dead(t)
        BY <2>1, <3>2 DEF PurgeTokens
      <4> QED  BY <4>1, RotationAssumption DEF Dead, Accepted, RenewalTypes, Stamp, None
    <3> QED  BY <3>1, <3>2
  <2>2. CASE PurgeSessions
    <3>1. token' = token /\ \A t \in Tokens : ~Accepted(t)
      BY <2>2 DEF PurgeSessions, Accepted
    <3>2. device.row /\ device.created # now
      BY <2>2, RotationAssumption DEF PurgeSessions, RenewalTypes
    <3> QED  BY <3>1, <3>2 DEF Timely
  <2>3. CASE Sweep
    BY <2>3 DEF Sweep, Accepted, Live
  <2>4. CASE ~PurgeTokens /\ ~PurgeSessions /\ ~Sweep
    <3>1. device.row => device'.row
      <4>1. CASE UNCHANGED device
        BY <4>1
      <4>2. CASE device' = Touched
        BY <4>2 DEF Touched, RenewalTypes
      <4>3. CASE Ended
        BY <4>3 DEF Ended, RenewalTypes
      <4>4. CASE device = NoSession
        BY <4>4, RenewalRecords
      <4> QED  BY <2>4, <4>1, <4>2, <4>3, <4>4 DEF RotationNext, RotationStep, ServerStep,
                  Receive, Find, MarkRotated, Resolve,
                  StoreToken, Answer, Fail, Login, AskRenewal,
                  WriteRefreshToken, Interrupted, RevokeDevice,
                  Logout, NextDay
    <3>2. \A t \in Tokens : token[t].row => token'[t].row
      <4>1. CASE UNCHANGED token
        BY <4>1
      <4>2. CASE \E w \in Handlers : MarkRotated(w)
        <5>1. PICK u : token' = token \/ token' = [token EXCEPT ![u].rotated = now]
          BY <4>2 DEF MarkRotated
        <5>2. \A t \in Tokens : [token[t] EXCEPT !.rotated = now].row = token[t].row
          BY DEF RenewalTypes
        <5>3. \A t \in Tokens :
                token'[t] = token[t] \/ token'[t] = [token[t] EXCEPT !.rotated = now]
          BY <5>1 DEF RenewalTypes
        <5> QED  BY <5>2, <5>3
      <4>3. CASE \E w \in Handlers : StoreToken(w)
        <5>1. PICK n, x : token' = token \/ (x.row /\ token' = [token EXCEPT ![n] = x])
          <6>1. [row |-> TRUE, expires |-> now + Lifetime, revoked |-> None,
                 rotated |-> None].row
            OBVIOUS
          <6> QED  BY <4>3, <6>1 DEF StoreToken
        <5> QED  BY <5>1 DEF RenewalTypes
      <4>4. CASE Ended
        <5>1. \A t \in Tokens : [token[t] EXCEPT !.revoked = now].row = token[t].row
          BY DEF RenewalTypes
        <5> QED  BY <4>4, <5>1 DEF Ended
      <4> QED  BY <2>4, <4>1, <4>2, <4>3, <4>4 DEF RotationNext, RotationStep, ServerStep,
                  Receive, Find, Resolve,
                  Answer, Fail, Login, AskRenewal,
                  WriteRefreshToken, Interrupted, RevokeDevice,
                  Logout, NextDay
    <3> QED  BY <3>1, <3>2
  <2> QED  BY <2>1, <2>2, <2>3, <2>4
<1> QED  BY <1>1, RenewalInductive, PTL DEF RotationSpec, PurgeTakesOnlyTheDead
=============================================================================
