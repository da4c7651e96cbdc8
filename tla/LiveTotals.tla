----------------------------- MODULE LiveTotals -----------------------------
(* The dashboard totals of one store, kept in Redis for a short time, and the *)
(* events that tell the store's open sockets of a write (dashboard_service.rs *)
(* summary, dashboard_cache.rs, event_broadcaster.rs, websocket_route.rs      *)
(* pump_events, and the tail of every service that moves money). A write is   *)
(* committed, then invalidates the cache, then is published: on its own       *)
(* server at once, on the others through Redis. Redis may fail at any call.   *)
EXTENDS Integers, Sequences, FiniteSets

CONSTANTS
    Scopes,        \* keys of the cache: a period and a UTC offset
    Writers,       \* requests that move money
    Readers,       \* requests for the totals
    Here,          \* writers on the server that the sockets are connected to
    Sockets,
    Ttl,           \* dashboard_cache_ttl_seconds
    MaxCompute,    \* no request for the totals takes longer
    Capacity,      \* CHANNEL_CAPACITY
    MaxWrites      \* bound: writes

ASSUME TotalsAssumption ==
    /\ Here \subseteq Writers
    /\ {Ttl, Capacity} \subseteq Nat \ {0}
    /\ {MaxCompute, MaxWrites} \subseteq Nat

VARIABLES
    commits,       \* commits[n]: how long ago the n-th write was committed
    cache,         \* per scope: the entry in Redis and how long it has left
    index,         \* the set under index_key and how long it has left
    writer,        \* per writer: its step, its write, what it found in the index
    reader,        \* per reader: its step, scope, the totals it read and how long ago
    announced,     \* the newest write that was published after clearing the cache
    channel,       \* how many events were sent on the store's channel of that server
    socket         \* per socket: open, the next event to take, and up to which event
                   \*   its phone has heard of all

redis == <<cache, index>>
vars == <<commits, redis, writer, reader, announced, channel, socket>>

Latest == Len(commits)
NoEntry == [value |-> -1, left |-> 0, excused |-> FALSE]
NoIndex == [keys |-> {}, left |-> 0]
IdleWriter == [step |-> "idle", write |-> 0, found |-> {}]
IdleReader == [step |-> "idle", scope |-> CHOOSE k \in Scopes : TRUE, value |-> 0, age |-> 0]
Closed == [open |-> FALSE, next |-> 0, known |-> 0]

Cached(k) == cache[k] # NoEntry
Listed == index.keys

-----------------------------------------------------------------------------
(* Reading the totals *)

(* Mutant: a hit keeps the entry for another while. *)
HitRenews(r, k) ==
    /\ reader[r].step = "idle" /\ Cached(k)
    /\ cache' = [cache EXCEPT ![k].left = Ttl]
    /\ UNCHANGED <<commits, index, writer, reader, announced, channel, socket>>

(* The entry is the answer. *)
Hit(r, k) ==
    /\ reader[r].step = "idle" /\ Cached(k)
    /\ UNCHANGED vars

(* No entry, or Redis does not answer: the totals are read from the tables.   *)
Compute(r, k) ==
    /\ reader[r].step = "idle"
    /\ reader' = [reader EXCEPT ![r] = [step |-> "computed", scope |-> k, value |-> Latest,
                                        age |-> 0]]
    /\ UNCHANGED <<commits, redis, writer, announced, channel, socket>>

(* Mutant: the index gets its expiry when it is made. *)
StoreOnce(r) ==
    LET k == reader[r].scope
    IN  /\ reader[r].step = "computed"
        /\ cache' = [cache EXCEPT ![k] = [value |-> reader[r].value, left |-> Ttl,
              excused |-> reader[r].value < Latest
                          \/ \E w \in Writers : writer[w].step = "listed"]]
        /\ index' = [keys |-> Listed \cup {k},
                     left |-> IF Listed = {} THEN Ttl ELSE index.left]
        /\ reader' = [reader EXCEPT ![r] = IdleReader]
        /\ UNCHANGED <<commits, writer, announced, channel, socket>>

(* SETEX, SADD and EXPIRE in one MULTI. An entry is excused if it is old when *)
(* it is stored, or stored while an invalidation is about to clear the index. *)
Store(r) ==
    LET k == reader[r].scope
    IN  /\ reader[r].step = "computed"
        /\ cache' = [cache EXCEPT ![k] = [value |-> reader[r].value, left |-> Ttl,
              excused |-> reader[r].value < Latest
                          \/ \E w \in Writers : writer[w].step = "listed"]]
        /\ index' = [keys |-> Listed \cup {k}, left |-> 4 * Ttl]
        /\ reader' = [reader EXCEPT ![r] = IdleReader]
        /\ UNCHANGED <<commits, writer, announced, channel, socket>>

StoreFails(r) ==
    /\ reader[r].step = "computed"
    /\ reader' = [reader EXCEPT ![r] = IdleReader]
    /\ UNCHANGED <<commits, redis, writer, announced, channel, socket>>

-----------------------------------------------------------------------------
(* Moving money *)

Write(w) ==
    /\ writer[w].step = "idle" /\ Latest < MaxWrites
    /\ commits' = Append(commits, 0)
    /\ writer' = [writer EXCEPT ![w] = [step |-> "committed", write |-> Latest + 1, found |-> {}]]
    /\ UNCHANGED <<redis, reader, announced, channel, socket>>

(* invalidate_store: SMEMBERS... *)
List(w) ==
    /\ writer[w].step = "committed"
    /\ writer' = [writer EXCEPT ![w].step = "listed", ![w].found = Listed]
    /\ UNCHANGED <<commits, redis, reader, announced, channel, socket>>

(* ... then the entries found and the index are deleted. *)
Clear(w) ==
    /\ writer[w].step = "listed"
    /\ cache' = [k \in Scopes |-> IF k \in writer[w].found THEN NoEntry ELSE cache[k]]
    /\ index' = NoIndex
    /\ writer' = [writer EXCEPT ![w].step = "cleared"]
    /\ UNCHANGED <<commits, reader, announced, channel, socket>>

(* Redis does not answer: what is cached stays. *)
ClearFails(w) ==
    /\ writer[w].step \in {"committed", "listed"}
    /\ cache' = [k \in Scopes |-> [cache[k] EXCEPT !.excused = Cached(k)]]
    /\ writer' = [writer EXCEPT ![w].step = "cleared"]
    /\ UNCHANGED <<commits, index, reader, announced, channel, socket>>

Publish(w) ==
    /\ writer[w].step = "cleared"
    /\ channel' = IF w \in Here THEN channel + 1 ELSE channel
    /\ announced' = IF writer[w].write > announced THEN writer[w].write ELSE announced
    /\ writer' = [writer EXCEPT ![w].step = "published"]
    /\ UNCHANGED <<commits, redis, reader, socket>>

(* A sale after which products run low is followed by a second event,         *)
(* published the same way: how many more events reach the channel.            *)
AnnounceLowStock(w, low, bridged) ==
    Cardinality({way \in {"local", "redis"} :
        low /\ (IF way = "local" THEN w \in Here ELSE bridged)})

(* PUBLISH: the bridge passes on what any server published, its own too,      *)
(* unless it has ended or Redis failed.                                       *)
Fan(w, bridged, low) ==
    /\ writer[w].step = "published"
    /\ channel' = channel + (IF bridged THEN 1 ELSE 0) + AnnounceLowStock(w, low, bridged)
    /\ writer' = [writer EXCEPT ![w] = IdleWriter]
    /\ UNCHANGED <<commits, redis, reader, announced, socket>>

-----------------------------------------------------------------------------
(* Sockets *)

Subscribe(s) ==
    /\ ~socket[s].open
    /\ socket' = [socket EXCEPT ![s] = [
          open |-> TRUE, next |-> channel + 1, known |-> channel]]
    /\ UNCHANGED <<commits, redis, writer, reader, announced, channel>>

(* The oldest event the channel still holds. *)
Oldest == IF channel > Capacity THEN channel - Capacity + 1 ELSE 1

Deliver(s) ==
    /\ socket[s].open
    /\ socket[s].next <= channel
    /\ socket[s].next >= Oldest
    /\ socket' = [socket EXCEPT ![s].next = @ + 1,
                                ![s].known = IF socket[s].next = @ + 1 THEN @ + 1 ELSE @]
    /\ UNCHANGED <<commits, redis, writer, reader, announced, channel>>

(* Mutant: a receiver that fell behind goes on where it can. *)
SkipLagged(s) ==
    /\ socket[s].open
    /\ socket[s].next < Oldest
    /\ socket' = [socket EXCEPT ![s].next = Oldest]
    /\ UNCHANGED <<commits, redis, writer, reader, announced, channel>>

(* RecvError::Lagged: the phone is told to download everything, and the       *)
(* receiver goes on with the oldest event that is left.                       *)
Lagged(s) ==
    /\ socket[s].open
    /\ socket[s].next < Oldest
    /\ socket' = [socket EXCEPT ![s].next = Oldest, ![s].known = channel]
    /\ UNCHANGED <<commits, redis, writer, reader, announced, channel>>

Close(s) ==
    /\ socket[s].open
    /\ socket' = [socket EXCEPT ![s] = Closed]
    /\ UNCHANGED <<commits, redis, writer, reader, announced, channel>>

(* Ages stop growing where no property looks further. *)
Older(n) == IF n > Ttl + MaxCompute THEN n ELSE n + 1

(* Time passes; what has no time left is gone from Redis. *)
Tick ==
    /\ \A r \in Readers : reader[r].step = "computed" => reader[r].age < MaxCompute
    /\ commits' = [n \in DOMAIN commits |-> Older(commits[n])]
    /\ cache' = [k \in Scopes |-> IF cache[k].left <= 1 THEN NoEntry
                                  ELSE [cache[k] EXCEPT !.left = @ - 1]]
    /\ index' = IF index.left <= 1 THEN NoIndex ELSE [index EXCEPT !.left = @ - 1]
    /\ reader' = [r \in Readers |-> IF reader[r].step = "computed"
                                    THEN [reader[r] EXCEPT !.age = @ + 1] ELSE reader[r]]
    /\ UNCHANGED <<writer, announced, channel, socket>>

-----------------------------------------------------------------------------
Init ==
    /\ commits = <<>>
    /\ cache = [k \in Scopes |-> NoEntry]
    /\ index = NoIndex
    /\ writer = [w \in Writers |-> IdleWriter]
    /\ reader = [r \in Readers |-> IdleReader]
    /\ announced = 0
    /\ channel = 0
    /\ socket = [s \in Sockets |-> Closed]

Next ==
    \/ \E r \in Readers :
          \/ \E k \in Scopes : Hit(r, k) \/ Compute(r, k)
          \/ Store(r) \/ StoreFails(r)
    \/ \E w \in Writers :
          \/ Write(w) \/ List(w) \/ Clear(w) \/ ClearFails(w) \/ Publish(w)
          \/ \E bridged, low \in BOOLEAN : Fan(w, bridged, low)
    \/ \E s \in Sockets : Subscribe(s) \/ Deliver(s) \/ Lagged(s) \/ Close(s)
    \/ Tick

Spec == Init /\ [][Next]_vars

-----------------------------------------------------------------------------
(* Cached totals leave out nothing older than the lifetime of an entry and    *)
(* the time it takes to compute it, whatever happens to invalidations: a      *)
(* computation that overlaps a write, an entry no index lists, Redis failing  *)
(* (dashboard_cache.rs write).                                                *)
StaleAtMostTtl ==
    \A k \in Scopes, n \in DOMAIN commits :
        Cached(k) /\ cache[k].value < n => commits[n] <= Ttl + MaxCompute

(* Whoever is told of a write does not then read totals without it: when its  *)
(* event goes out, every entry is gone that was up to date when it was stored *)
(* and was not stored while another invalidation was clearing the index       *)
(* (sale_service.rs, expense_service.rs: invalidation before publication;     *)
(* dashboard_cache.rs invalidate_store).                                      *)
ToldMeansCleared ==
    \A k \in Scopes : Cached(k) /\ ~cache[k].excused => cache[k].value >= announced

(* A socket that falls behind is told so: of every event sent on its channel  *)
(* since it opened its phone has heard, is yet to hear, or was told by a      *)
(* "dashboard_stale" that left after the event ("rather than silently missing *)
(* writes", websocket_route.rs pump_events).                                  *)
NeverSilentlyMissed == \A s \in Sockets : socket[s].open => socket[s].next <= socket[s].known + 1
=============================================================================
