-------------------------- MODULE RefreshRotation --------------------------
(* One device session and its refresh tokens: a phone signs in, exchanges its *)
(* token for a new one over a network that loses answers, may die between     *)
(* writing the two new tokens, signs out or is signed out from elsewhere,     *)
(* while other sign-ins and the retention sweep delete what they take to be   *)
(* dead (auth_service.rs, auth_repository.rs, device_repository.rs,           *)
(* retention.rs, auth_interceptor.dart, secure_token_store.dart).             *)
EXTENDS Integers

CONSTANTS
    Handlers,      \* requests the server works on at the same time
    Grace,         \* ROTATION_GRACE: a day
    Lifetime,      \* refresh_lifetime
    KeepFor,       \* how long a used or revoked token is kept: seven days
    NewFor,        \* how long a session without a token is kept: a day
    Dormant,       \* how long a revoked session is kept after it was seen
    Trust,         \* how long a server trusts a session it remembers
    MaxTokens,     \* bound: tokens ever issued
    MaxTime        \* bound: the clock

ASSUME RotationAssumption ==
    /\ {Grace, Lifetime, KeepFor, NewFor, Dormant, Trust, MaxTokens, MaxTime} \subseteq Nat
    /\ Grace <= KeepFor /\ NewFor > 0 /\ Lifetime > 0

VARIABLES
    now,
    device,        \* the row of device_sessions
    token,         \* the rows of refresh_tokens, by the order they were issued
    issued,        \* how many were
    trusted,       \* until when the server's memory answers for the session
    work,          \* per worker: step, token presented, whether the phone waits
    phone,         \* the refresh token in its keystore, and one not yet written
    ask,           \* the phone's renewal: "none", "sent" or "taken", and its token
    presented,     \* when the phone first presented each token
    late           \* requests let through before the sign-out that were not over then

rotationVars == <<now, device, token, issued, trusted, work, phone, ask, presented, late>>

None == -1
Tokens == 1..MaxTokens
NoToken == [row |-> FALSE, expires |-> 0, revoked |-> None, rotated |-> None]
NoSession == [row |-> FALSE, created |-> 0, seen |-> 0, revoked |-> None]
Idle == [step |-> "idle", token |-> 0, linked |-> FALSE]

NoAsk == [step |-> "none", token |-> 0]

Live == device.row /\ device.revoked = None

-----------------------------------------------------------------------------
(* refresh() *)

(* Mutant: a token stops working once it was exchanged. *)
AcceptedOnce(t) ==
    /\ token[t].row /\ device.row
    /\ token[t].revoked = None /\ token[t].expires > now
    /\ token[t].rotated = None
    /\ device.revoked = None

(* Mutant: the token is checked, the session it belongs to is not. *)
AcceptedAlone(t) ==
    /\ token[t].row /\ device.row
    /\ token[t].revoked = None /\ token[t].expires > now
    /\ token[t].rotated = None \/ token[t].rotated + Grace > now

Accepted(t) ==
    /\ token[t].row /\ device.row
    /\ token[t].revoked = None /\ token[t].expires > now
    /\ token[t].rotated = None \/ token[t].rotated + Grace > now
    /\ device.revoked = None

(* A request ends without a token: the phone hears a refusal, which clears    *)
(* its tokens, or an error, which says nothing about the session.             *)
Refuse(w) ==
    /\ work' = [work EXCEPT ![w] = Idle]
    /\ IF work[w].linked
       THEN phone' = [phone EXCEPT !.refresh = 0] /\ ask' = NoAsk
       ELSE UNCHANGED <<phone, ask>>

GiveUp(w) ==
    /\ work' = [work EXCEPT ![w] = Idle]
    /\ ask' = IF work[w].linked THEN NoAsk ELSE ask
    /\ UNCHANGED phone

Receive(w) ==
    /\ work[w] = Idle /\ ask.step = "sent"
    /\ work' = [work EXCEPT ![w] = [step |-> "received", token |-> ask.token, linked |-> TRUE]]
    /\ ask' = [ask EXCEPT !.step = "taken"]
    /\ UNCHANGED <<now, device, token, issued, trusted, phone, presented>>

Find(w) ==
    /\ work[w].step = "received"
    /\ IF Accepted(work[w].token)
       THEN work' = [work EXCEPT ![w].step = "found"] /\ UNCHANGED <<phone, ask>>
       ELSE Refuse(w)
    /\ UNCHANGED <<now, device, token, issued, trusted, presented>>

Touched == IF device.row THEN [device EXCEPT !.seen = now] ELSE device

(* The first use is dated, later ones leave the date; the session was seen.   *)
MarkRotated(w) ==
    LET t == work[w].token
    IN  /\ work[w].step = "found"
        /\ token' = IF token[t].row /\ token[t].rotated = None
                    THEN [token EXCEPT ![t].rotated = now] ELSE token
        /\ device' = Touched
        /\ work' = [work EXCEPT ![w].step = "marked"]
        /\ UNCHANGED <<now, issued, trusted, phone, ask, presented>>

(* The session resolves to an actor, from memory or from its row.             *)
Resolve(w) ==
    /\ work[w].step \in {"marked", "opened"}
    /\ IF trusted >= now \/ Live
       THEN /\ work' = [work EXCEPT ![w].step = "resolved"]
            /\ trusted' = IF trusted >= now THEN trusted ELSE now + Trust
            /\ UNCHANGED <<phone, ask>>
       ELSE /\ IF work[w].step = "marked" THEN Refuse(w) ELSE GiveUp(w)
            /\ UNCHANGED trusted
    /\ UNCHANGED <<now, device, token, issued, presented>>

(* issue(): the new token refers to its session and cannot outlive its row.   *)
StoreToken(w) ==
    /\ work[w].step = "resolved"
    /\ issued < MaxTokens
    /\ IF device.row
       THEN /\ issued' = issued + 1
            /\ token' = [token EXCEPT ![issued + 1] =
                  [row |-> TRUE, expires |-> now + Lifetime, revoked |-> None, rotated |-> None]]
            /\ work' = [work EXCEPT ![w].step = "stored", ![w].token = issued + 1]
            /\ UNCHANGED <<phone, ask>>
       ELSE GiveUp(w) /\ UNCHANGED <<issued, token>>
    /\ UNCHANGED <<now, device, trusted, presented>>

(* The answer reaches the phone, unless it stopped waiting for it.            *)
Answer(w) ==
    /\ work[w].step = "stored"
    /\ work' = [work EXCEPT ![w] = Idle]
    /\ IF work[w].linked
       THEN phone' = [phone EXCEPT !.next = work[w].token] /\ ask' = NoAsk
       ELSE UNCHANGED <<phone, ask>>
    /\ UNCHANGED <<now, device, token, issued, trusted, presented>>

(* The server stops, or a query fails: the phone learns nothing.              *)
Fail(w) ==
    /\ work[w].step # "idle"
    /\ GiveUp(w)
    /\ UNCHANGED <<now, device, token, issued, trusted, presented>>

-----------------------------------------------------------------------------
(* The phone *)

AskRenewal ==
    /\ phone.refresh # 0 /\ phone.next = 0 /\ ask = NoAsk
    /\ ask' = [step |-> "sent", token |-> phone.refresh]
    /\ presented' = IF presented[phone.refresh] # None THEN presented
                    ELSE [presented EXCEPT ![phone.refresh] = now]
    /\ UNCHANGED <<now, device, token, issued, trusted, work, phone>>

(* saveTokens: the access token was written, now the refresh token is.        *)
WriteRefreshToken ==
    /\ phone.next # 0
    /\ phone' = [refresh |-> phone.next, next |-> 0]
    /\ UNCHANGED <<now, device, token, issued, trusted, work, ask, presented>>

(* The phone gives up waiting, or the app is killed, also between the two     *)
(* writes; whatever the server is doing for it goes on.                       *)
Interrupted ==
    /\ ask # NoAsk \/ phone.next # 0
    /\ ask' = NoAsk
    /\ phone' = [phone EXCEPT !.next = 0]
    /\ work' = [w \in Handlers |-> [work[w] EXCEPT !.linked = FALSE]]
    /\ UNCHANGED <<now, device, token, issued, trusted, presented>>

(* The password was right and the session's row is inserted; its token        *)
(* follows as for a renewal.                                                  *)
Login(w) ==
    /\ work[w] = Idle /\ device = NoSession /\ issued = 0
    /\ device' = [row |-> TRUE, created |-> now, seen |-> now, revoked |-> None]
    /\ work' = [work EXCEPT ![w] = [step |-> "opened", token |-> 0, linked |-> TRUE]]
    /\ UNCHANGED <<now, token, issued, trusted, phone, ask, presented>>

(* A session and every token of it that is not revoked yet.                   *)
Ended ==
    /\ device' = [device EXCEPT !.revoked = now]
    /\ token' = [t \in Tokens |-> IF token[t].row /\ token[t].revoked = None
                                 THEN [token[t] EXCEPT !.revoked = now] ELSE token[t]]

(* The owner signs the device out from elsewhere; only the instance that      *)
(* serves this forgets the session.                                           *)
RevokeDevice ==
    /\ Live
    /\ Ended
    /\ trusted' \in {trusted, None}
    /\ UNCHANGED <<now, issued, work, phone, ask, presented>>

(* The phone signs out: it tells the server if it can and clears its tokens.  *)
(* A renewal under way is not stopped by this.                                *)
Logout ==
    /\ phone.refresh # 0
    /\ \/ /\ Live /\ token[phone.refresh].row
          /\ Ended /\ trusted' \in {trusted, None}
       \/ UNCHANGED <<device, token, trusted>>
    /\ phone' = [phone EXCEPT !.refresh = 0]
    /\ UNCHANGED <<now, issued, work, ask, presented>>

-----------------------------------------------------------------------------
(* Housekeeping: on another sign-in of the owner, and by the sweep.           *)

Dead(t) ==
    \/ token[t].expires < now
    \/ token[t].revoked # None /\ token[t].revoked < now - KeepFor
    \/ token[t].rotated # None /\ token[t].rotated < now - KeepFor

PurgeTokens ==
    /\ \E t \in Tokens : token[t].row /\ Dead(t)
    /\ token' = [t \in Tokens |-> IF Dead(t) THEN [token[t] EXCEPT !.row = FALSE] ELSE token[t]]
    /\ UNCHANGED <<now, device, issued, trusted, work, phone, ask, presented>>

(* Mutant: a session without a token is deleted however new it is. *)
PurgeNewSessions ==
    /\ device.row
    /\ \A t \in Tokens : ~token[t].row
    /\ device' = NoSession
    /\ UNCHANGED <<now, token, issued, trusted, work, phone, ask, presented>>

PurgeSessions ==
    /\ device.row /\ device.created < now - NewFor
    /\ \A t \in Tokens : ~token[t].row
    /\ device' = NoSession
    /\ UNCHANGED <<now, token, issued, trusted, work, phone, ask, presented>>

Sweep ==
    /\ device.row /\ device.revoked # None /\ device.seen < now - Dormant
    /\ device' = NoSession
    /\ token' = [t \in Tokens |-> [token[t] EXCEPT !.row = FALSE]]
    /\ UNCHANGED <<now, issued, trusted, work, phone, ask, presented>>

(* Requests are short next to a day, the unit of the clock.                   *)
NextDay ==
    /\ now < MaxTime
    /\ \A w \in Handlers : work[w] = Idle
    /\ now' = now + 1
    /\ UNCHANGED <<device, token, issued, trusted, work, phone, ask, presented>>

-----------------------------------------------------------------------------
RotationInit ==
    /\ now = 0
    /\ device = NoSession
    /\ token = [t \in Tokens |-> NoToken]
    /\ issued = 0
    /\ trusted = None
    /\ work = [w \in Handlers |-> Idle]
    /\ phone = [refresh |-> 0, next |-> 0]
    /\ ask = NoAsk
    /\ presented = [t \in Tokens |-> None]
    /\ late = {}

ServerStep(w) ==
    Receive(w) \/ Find(w) \/ MarkRotated(w) \/ Resolve(w) \/ StoreToken(w) \/ Answer(w)

RotationStep ==
    \/ \E w \in Handlers : ServerStep(w) \/ Fail(w) \/ Login(w)
    \/ AskRenewal \/ WriteRefreshToken \/ Interrupted \/ RevokeDevice \/ Logout
    \/ PurgeTokens \/ PurgeSessions \/ Sweep \/ NextDay

(* A sign-out overtakes the requests that found the session live, or opened   *)
(* it, and have not stored their token.                                       *)
LetThrough == {"found", "marked", "opened", "resolved"}
NoteSignOut ==
    late' = IF device.revoked = None /\ device'.revoked # None
            THEN {w \in Handlers : work[w].step \in LetThrough}
            ELSE {w \in late : work'[w].step \in LetThrough}

RotationNext == RotationStep /\ NoteSignOut

RotationSpec == RotationInit /\ [][RotationNext]_rotationVars

-----------------------------------------------------------------------------
(* A signed-in phone is shown the sign-in form only when its session was      *)
(* ended or its token expired, or when it first presented this token a grace  *)
(* period ago and every answer since was lost: losing answers, dying between  *)
(* the two writes of the keystore and other sign-ins' housekeeping cost it    *)
(* nothing sooner (ROTATION_GRACE, auth_service.rs refresh).                  *)
KeepsThePhoneSignedIn ==
    [][phone.refresh # 0 /\ phone'.refresh = 0 /\ ~Logout =>
         \/ ~Live
         \/ token[ask.token].expires <= now
         \/ presented[ask.token] + Grace <= now]_rotationVars

(* A sign-out, on the phone or from elsewhere, ends the chain of renewals:    *)
(* after it a token is stored only for a request that was let through before  *)
(* it, one for each.  Such a token is not revoked, and neither it nor what a  *)
(* server still remembers of the session ever gets another one                *)
(* (auth_service.rs refresh, auth_repository.rs end_session_for_token).       *)
SignedOutGetsNothing ==
    [][issued' > issued /\ device.revoked # None =>
         \E w \in late : work[w].step = "resolved" /\ work'[w].step = "stored"]_rotationVars

(* Housekeeping never takes a token that would be accepted, nor the session   *)
(* of one, nor a session that is just being opened ("nothing here can ever    *)
(* be used again", auth_repository.rs purge_dead_sessions).                   *)
PurgeTakesOnlyTheDead ==
    [][/\ \A t \in Tokens : token[t].row /\ ~token'[t].row => ~Accepted(t)
       /\ device.row /\ ~device'.row =>
             /\ \A t \in Tokens : ~Accepted(t)
             /\ Live => \A w \in Handlers : work[w].step # "opened"]_rotationVars
=============================================================================
