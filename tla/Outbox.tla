------------------------------- MODULE Outbox -------------------------------
(***************************************************************************)
(* The outbox of a phone (sync_queue) and the coordinator that empties it  *)
(* into the cloud while its owner keeps selling, editing and removing.     *)
(*                                                                         *)
(* A product stands for any row that may be edited, a sale for any row     *)
(* that the server takes only when the product it names is there (stock    *)
(* movements too).  The server is seen from the phone: it works through a  *)
(* request row by row, each in its own transaction (see StockLedger), and  *)
(* tells in its answer which rows it applied and which it refused.         *)
(*                                                                         *)
(* Left out: the download that follows an upload (see PullCursor), the     *)
(* length of the backoff, the counters on the screen, and the loss of the  *)
(* session.                                                                *)
(***************************************************************************)
EXTENDS Naturals, FiniteSets

CONSTANTS
  Products, Sales,
  Of,             \* Of[s]: the product that sale s sells
  Stores,
  StoreOf,        \* StoreOf[e]: the store in which e is written
  Refusing,       \* stores the plan does not include: a push of theirs answers 402
  Malformed,      \* <<e, v>>: what version v of e says breaks a rule of the server's
                  \* payloads (a name of 121 letters), which no form of the phone asks
  Coordinators,   \* instances of the coordinator: the open store may change
                  \* during a sync, which builds another while the old one runs on
  BatchSize,      \* _pushBatchSize
  MaxBatches,     \* _maxPushBatches
  MaxAttempts,    \* SyncQueueDao.maxAttempts
  MaxVersion,     \* bound: MaxVersion[p], how often product p is saved
  Incidents,      \* which happen: "lost" connections, "fault"s of the server, and
                  \* the "owner" acting on the sync problems screen
  MaxIncidents    \* bound on the number of incidents

Entities == Products \cup Sales
Late == "late"

ASSUME EntityAssumption == Products \cap Sales = {}
ASSUME StoreAssumption ==
  /\ Of \in [Sales -> Products]
  /\ StoreOf \in [Entities -> Stores]
  /\ \A s \in Sales : StoreOf[s] = StoreOf[Of[s]]
  /\ Refusing \subseteq Stores
  /\ Malformed \subseteq Entities \X Nat
ASSUME CoordinatorAssumption == Late \notin Coordinators
ASSUME IncidentAssumption ==
  /\ Incidents \subseteq {"lost", "fault", "owner"}
ASSUME BoundAssumption ==
  /\ {BatchSize, MaxBatches, MaxAttempts} \subseteq Nat \ {0}
  /\ MaxVersion \in [Products -> Nat]
  /\ MaxIncidents \in Nat

VARIABLES
  local,      \* local[e]: what the phone shows
  queue,      \* rows of sync_queue
  nextId,     \* AUTOINCREMENT of sync_queue
  dropped,    \* entries whose queued change the owner chose to give up
  cloud,      \* cloud[e]: what the server holds
  pass,       \* pass[c]: where coordinator c is in its push
  request,    \* request[c]: what c sent; request[Late]: one it gave up on
  incidents,  \* incidents so far
  overlap     \* whether two requests of the phone were ever served side by side

user == <<local, queue, nextId, dropped>>
mishaps == <<incidents, overlap>>
vars == <<local, queue, nextId, dropped, cloud, pass, request, mishaps>>

Content == [status : {"none", "live", "gone"}, version : Nat]
Row == [id : Nat, kind : {"put", "delete"}, of : Entities, version : Nat,
        attempts : Nat]
NoRequest == [store |-> "none"]
Request == [store : Stores, rows : SUBSET Row, todo : SUBSET Row, applied : SUBSET Row]
Idle == [at |-> "idle", batch |-> 0, todo |-> {}, accepted |-> FALSE]

TypeOK ==
  /\ local \in [Entities -> Content]
  /\ queue \subseteq Row
  /\ nextId \in Nat
  /\ dropped \subseteq Entities
  /\ cloud \in [Entities -> Content]
  /\ pass \in [Coordinators -> [at : {"idle", "ready", "batch", "wait"}, batch : 0..MaxBatches,
                                todo : SUBSET Row, accepted : BOOLEAN]]
  /\ request \in [Coordinators \cup {Late} -> {NoRequest} \cup Request]
  /\ incidents \in 0..MaxIncidents /\ overlap \in BOOLEAN
  /\ \A r, q \in queue : r.id = q.id \/ (r.kind = q.kind /\ r.of = q.of) => r = q

Init ==
  /\ local = [e \in Entities |-> [status |-> "none", version |-> 0]]
  /\ queue = {}
  /\ nextId = 1
  /\ dropped = {}
  /\ cloud = local
  /\ pass = [c \in Coordinators |-> Idle]
  /\ request = [c \in Coordinators \cup {Late} |-> NoRequest]
  /\ incidents = 0 /\ overlap = FALSE

Incident(kind) ==
  /\ kind \in Incidents
  /\ incidents < MaxIncidents
  /\ incidents' = incidents + 1

(***************************************************************************)
(* What the owner does.  The local row and the outbox row are written in   *)
(* one SQLite transaction.                                                 *)
(***************************************************************************)
KeepOld(q, kind, e) == q
Without(q, kind, e) == {r \in q : ~(r.kind = kind /\ r.of = e)}

\* UNIQUE (entity, entity_id) with ConflictAlgorithm.replace: the replacement
\* has a new id and no attempts.
Queued(q, kind, e, version) ==
  Without(q, kind, e) \cup
    {[id |-> nextId, kind |-> kind, of |-> e, version |-> version, attempts |-> 0]}

Write(e, content, q) ==
  /\ local' = [local EXCEPT ![e] = content]
  /\ queue' = q
  /\ nextId' = nextId + 1
  /\ dropped' = dropped \ {e}
  /\ UNCHANGED <<cloud, pass, request, mishaps>>

SaveProduct(p) ==
  LET version == local[p].version + 1
  IN  /\ local[p].status # "gone"
      /\ version <= MaxVersion[p]
      /\ Write(p, [status |-> "live", version |-> version], Queued(queue, "put", p, version))

Sell(s) ==
  /\ local[Of[s]].status = "live"
  /\ local[s].status = "none"
  /\ Write(s, [status |-> "live", version |-> 1], Queued(queue, "put", s, 1))

\* Leaving the unsent version in the outbox.
RemoveBeside(e) ==
  /\ local[e].status = "live"
  /\ Write(e, [local[e] EXCEPT !.status = "gone"], Queued(queue, "delete", e, 0))

\* A void or a removal: the unsent version is discarded, a deletion queued.
Remove(e) ==
  /\ local[e].status = "live"
  /\ Write(e, [local[e] EXCEPT !.status = "gone"],
           Queued(Without(queue, "put", e), "delete", e, 0))

Retry(r) ==
  /\ r.attempts > 0
  /\ Incident("owner")
  /\ queue' = (queue \ {r}) \cup {[r EXCEPT !.attempts = 0]}
  /\ UNCHANGED <<local, nextId, dropped, cloud, pass, request, overlap>>

Drop(r) ==
  /\ r.attempts > 0
  /\ Incident("owner")
  /\ queue' = queue \ {r}
  /\ dropped' = dropped \cup {r.of}
  /\ UNCHANGED <<local, nextId, cloud, pass, request, overlap>>

(***************************************************************************)
(* The coordinator.                                                        *)
(***************************************************************************)
Pending == {r \in queue : r.attempts < MaxAttempts}
Oldest(rows, n) == {r \in rows : Cardinality({q \in rows : q.id < r.id}) < n}

Enter(c, p) == pass' = [pass EXCEPT ![c] = p]

\* _running guards one instance; a rebuilt coordinator has a flag of its own.
NotRunning(c) == pass[c].at = "idle"

Start(c) ==
  /\ NotRunning(c)
  /\ Enter(c, [Idle EXCEPT !.at = "ready"])
  /\ overlap' = (overlap \/ \E d \in Coordinators \ {c} : ~NotRunning(d))
  /\ UNCHANGED <<user, cloud, request, incidents>>

Collect(c) ==
  /\ pass[c].at = "ready"
  /\ Pending # {}
  /\ pass[c].batch < MaxBatches
  /\ Enter(c, [at |-> "batch", batch |-> pass[c].batch, todo |-> Oldest(Pending, BatchSize),
               accepted |-> FALSE])
  /\ UNCHANGED <<user, cloud, request, mishaps>>

Finish(c) ==
  /\ pass[c].at = "ready"
  /\ Pending = {} \/ pass[c].batch = MaxBatches
  /\ Enter(c, Idle)
  /\ UNCHANGED <<user, cloud, request, mishaps>>

\* The next group of a batch is that of the store whose row is the oldest.
NextGroup(rows) ==
  LET oldest == CHOOSE r \in rows : \A q \in rows : r.id <= q.id
  IN  {r \in rows : StoreOf[r.of] = StoreOf[oldest.of]}

Send(c) ==
  /\ pass[c].at = "batch"
  /\ LET group == NextGroup(pass[c].todo)
         store == StoreOf[(CHOOSE r \in group : TRUE).of]
     IN  /\ request' = [request EXCEPT ![c] = [store |-> store, rows |-> group,
                                               todo |-> group, applied |-> {}]]
         /\ Enter(c, [pass[c] EXCEPT !.at = "wait", !.todo = @ \ group])
  /\ UNCHANGED <<user, cloud, mishaps>>

\* Clearing by entity id instead.
AnsweredByEntity(q, applied, refused) ==
  LET Among(rows, r) == \E a \in rows : a.kind = r.kind /\ a.of = r.of
  IN  {IF Among(refused, r) THEN [r EXCEPT !.attempts = @ + 1] ELSE r :
         r \in {x \in q : ~Among(applied, x)}}

\* Forgetting to count the refusals.
AnsweredUncounted(q, applied, refused) == {r \in q : ~\E a \in applied : a.id = r.id}

\* Rows that were refused get one more attempt, rows that were applied go,
\* both by row id: a row queued meanwhile is not touched.
Answered(q, applied, refused) ==
  LET Among(rows, r) == \E a \in rows : a.id = r.id
  IN  {IF Among(refused, r) THEN [r EXCEPT !.attempts = @ + 1] ELSE r :
         r \in {x \in q : ~Among(applied, x)}}

\* Another group, another batch if something got through, or the end.
AfterAnswer(p, applied) ==
  LET accepted == p.accepted \/ applied # {}
  IN  IF p.todo # {} THEN [p EXCEPT !.at = "batch", !.accepted = accepted]
      ELSE IF accepted THEN [Idle EXCEPT !.at = "ready", !.batch = p.batch + 1]
      ELSE Idle

\* The payload is validated as a whole, before any of its rows is looked at.
Invalid(r) == r.kind = "put" /\ <<r.of, r.version>> \in Malformed
Refused(sent) == sent.store \in Refusing \/ \E r \in sent.rows : Invalid(r)

Receive(c) ==
  /\ pass[c].at = "wait"
  /\ ~Refused(request[c])
  /\ request[c].todo = {}
  /\ LET applied == request[c].applied
     IN  /\ queue' = Answered(queue, applied, request[c].rows \ applied)
         /\ Enter(c, AfterAnswer(pass[c], applied))
  /\ request' = [request EXCEPT ![c] = NoRequest]
  /\ UNCHANGED <<local, nextId, dropped, cloud, mishaps>>

\* The refusal of a whole request, 402 or 400, is an exception: it ends the push
\* of every store before a failure is counted against any row.
PushRefused(c) ==
  /\ pass[c].at = "wait"
  /\ Refused(request[c])
  /\ Enter(c, Idle)
  /\ request' = [request EXCEPT ![c] = NoRequest]
  /\ UNCHANGED <<user, cloud, mishaps>>

\* The connection fails, the phone's 15 s pass, or the app is closed.  The
\* request is lost wherever it is, or is still being served.
GiveUp(c) ==
  /\ pass[c].at = "wait"
  /\ Incident("lost")
  /\ Enter(c, Idle)
  /\ \/ /\ request' = [request EXCEPT ![c] = NoRequest]
        /\ UNCHANGED overlap
     \/ /\ request[Late] = NoRequest
        /\ request' = [request EXCEPT ![c] = NoRequest, ![Late] = request[c]]
        /\ overlap' = TRUE
  /\ UNCHANGED <<user, cloud>>

(***************************************************************************)
(* The server.                                                             *)
(***************************************************************************)
\* Deletions before sales.
Listed(r) == IF r.kind = "delete" THEN 1 ELSE IF r.of \in Sales THEN 2 ELSE 0

\* Products first, then sales in the order they happened, deletions last.
Rank(r) == IF r.kind = "delete" THEN 2 ELSE IF r.of \in Sales THEN 1 ELSE 0

First(rows) ==
  CHOOSE r \in rows :
    \A q \in rows : Rank(r) < Rank(q) \/ (Rank(r) = Rank(q) /\ r.id <= q.id)

\* A sale is refused unless its product is live; a save revives a product.
Accepts(r) == r.kind = "put" /\ r.of \in Sales => cloud[Of[r.of]].status = "live"

\* A voided sale is final; what is not there is gone already.
Applied(content, r) ==
  CASE r.kind = "delete" ->
         IF content.status = "live" THEN [content EXCEPT !.status = "gone"] ELSE content
    [] r.kind = "put" /\ r.of \in Sales /\ content.status = "gone" -> content
    [] OTHER -> [status |-> "live", version |-> r.version]

Serve(x) ==
  /\ request[x] # NoRequest
  /\ ~Refused(request[x])
  /\ request[x].todo # {}
  /\ LET r == First(request[x].todo)
     IN  \/ /\ Accepts(r)
            /\ cloud' = [cloud EXCEPT ![r.of] = Applied(@, r)]
            /\ request' = [request EXCEPT ![x].todo = @ \ {r}, ![x].applied = @ \cup {r}]
            /\ UNCHANGED mishaps
         \/ /\ ~Accepts(r)
            /\ request' = [request EXCEPT ![x].todo = @ \ {r}]
            /\ UNCHANGED <<cloud, mishaps>>
         \/ /\ Incident("fault")    \* an internal error is reported as a refusal
            /\ request' = [request EXCEPT ![x].todo = @ \ {r}]
            /\ UNCHANGED <<cloud, overlap>>
  /\ UNCHANGED <<user, pass>>

\* A request nobody waits for ends.
Forget ==
  /\ request[Late] # NoRequest
  /\ request' = [request EXCEPT ![Late] = NoRequest]
  /\ UNCHANGED <<user, cloud, pass, mishaps>>

Owner ==
  \/ \E p \in Products : SaveProduct(p)
  \/ \E s \in Sales : Sell(s)
  \/ \E e \in Entities : Remove(e)
  \/ \E r \in queue : Retry(r) \/ Drop(r)

Advance(c) == Start(c) \/ Collect(c) \/ Finish(c) \/ Send(c) \/ Receive(c) \/ PushRefused(c)

Next ==
  \/ Owner
  \/ \E c \in Coordinators : Advance(c) \/ GiveUp(c)
  \/ \E x \in Coordinators \cup {Late} : Serve(x)
  \/ Forget

Spec == Init /\ [][Next]_vars

\* The timer starts a sync again and again; requests are served and answered.
FairSpec ==
  /\ Spec
  /\ \A c \in Coordinators : WF_vars(Advance(c)) /\ WF_vars(Serve(c))

(***************************************************************************)
(* Properties.                                                             *)
(***************************************************************************)
StillQueued(e) ==
  \E r \in queue :
    /\ r.of = e
    /\ IF local[e].status = "gone" THEN r.kind = "delete"
       ELSE r.kind = "put" /\ r.version = local[e].version

Delivered(e) ==
  IF local[e].status = "gone" THEN cloud[e].status # "live" ELSE cloud[e] = local[e]

\* The owner's last word on an entry is in the outbox or in the cloud,
\* whatever was being uploaded when it was spoken (SyncQueueDao.clearRows),
\* unless the owner gave it up or requests of the phone overtook one another.
NothingLost ==
  ~overlap => \A e \in Entities \ dropped :
    local[e].status = "none" \/ StillQueued(e) \/ Delivered(e)

\* In the cloud an edit is never undone by an older one and what was removed
\* never comes back, although rows are refused, retried and sent again (the
\* batches, their order on the server), as long as requests do not overtake
\* one another.
CloudInOrder ==
  [][~overlap =>
       \A e \in Entities :
         /\ cloud'[e].version >= cloud[e].version
         /\ cloud[e].status = "gone" => cloud'[e].status = "gone"]_vars

\* Within a request a product is there before its sales and until after them:
\* unless something goes wrong on the way, no sale is refused whose product the
\* server has ever held (SyncService::push, into_timeline).
SalesMeetProducts ==
  [][incidents' = 0 /\ ~overlap =>
       \A r \in queue, q \in queue' :
         r.id = q.id /\ r.attempts < q.attempts /\ r.kind = "put" /\ r.of \in Sales =>
           cloud[Of[r.of]].status = "none"]_vars

\* Every queued row reaches the cloud or is parked for the owner to see, also
\* when two coordinators upload at once, unless a row waits that has its whole
\* request refused, one of a store the plan does not include or one that breaks
\* a rule of the payloads: that one may hold up all the others.
Waiting(r) == r.attempts < MaxAttempts
Drains ==
  <>[]((\E r \in queue : Waiting(r)) =>
         \E r \in queue : Waiting(r) /\ (StoreOf[r.of] \in Refusing \/ Invalid(r)))

\* What the comment of PushRequest promises: "Rows are applied one by one, so a
\* single bad row never blocks the rest of the batch."
BadRowBlocksNobody == <>[](\A r \in queue : Waiting(r) => Invalid(r))
=============================================================================
