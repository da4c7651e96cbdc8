---------------------------- MODULE OutboxProofs ----------------------------
(***************************************************************************)
(* Proofs about Outbox: the owner's last word is never lost, the cloud     *)
(* never goes back in time and no sale is refused for a product that was   *)
(* removed after it, for any number of products, sales, stores and         *)
(* coordinators and any sizes of batches.                                  *)
(*                                                                         *)
(* The invariant has three parts.  The first holds always: a queued row    *)
(* says what the phone shows, and a coordinator waits exactly when it has  *)
(* a request out.  The second holds until requests overlap: the rows of a  *)
(* batch are about different entries, each is in the outbox until its      *)
(* answer or was superseded there, and what the server still has to apply  *)
(* is newer than what it holds.  The third holds as long as nothing goes   *)
(* wrong besides: a sale goes up with the removal of its product or before *)
(* it, and is taken first.                                                 *)
(***************************************************************************)
EXTENDS Outbox, FiniteSetTheorems, WellFoundedInduction, TLAPS

(***************************************************************************)
(* The inductive invariant.                                                *)
(***************************************************************************)
Numbered == \A q \in queue : q.id < nextId

Current(q) ==
  IF q.kind = "delete" THEN local[q.of].status = "gone"
  ELSE local[q.of] = [status |-> "live", version |-> q.version]

QueueCurrent == \A q \in queue : Current(q)

Fresh == \A e \in Entities : local[e].status = "none" => local[e].version = 0

Phases ==
  \A c \in Coordinators :
    /\ pass[c].at = "wait" <=> request[c] # NoRequest
    /\ pass[c].at \in {"idle", "ready"} => pass[c].todo = {}
    /\ pass[c].at = "batch" => pass[c].todo # {}
    /\ pass[c].at \in {"batch", "wait"} => pass[c].batch < MaxBatches

\* The rows of a pass that were collected and not answered, and those of them
\* that the server has yet to take.
Flight(c) == pass[c].todo \cup (IF pass[c].at = "wait" THEN request[c].rows ELSE {})
Ahead(c) == pass[c].todo \cup (IF pass[c].at = "wait" THEN request[c].todo ELSE {})

Alone ==
  /\ request[Late] = NoRequest
  /\ \A c, d \in Coordinators : c = d \/ NotRunning(c) \/ NotRunning(d)

Divided ==
  \A c \in Coordinators : pass[c].at = "wait" =>
    /\ request[c].todo \subseteq request[c].rows
    /\ request[c].applied \subseteq request[c].rows
    /\ request[c].todo \cap request[c].applied = {}
    /\ pass[c].todo \cap request[c].rows = {}

OneEach == \A c \in Coordinators : \A r, q \in Flight(c) : r.of = q.of => r = q

SameRow ==
  \A c \in Coordinators : \A r \in Flight(c) :
    /\ r.id < nextId
    /\ \A q \in queue : q.id = r.id => q.kind = r.kind /\ q.of = r.of /\ q.version = r.version

Superseded ==
  \A c \in Coordinators : \A r \in Flight(c) :
    r.of \in dropped \/ \E q \in queue : q.of = r.of

SaidBefore ==
  \A c \in Coordinators : \A r \in Flight(c) :
    IF r.kind = "delete" THEN local[r.of].status = "gone"
    ELSE r.version <= local[r.of].version

CloudBehind ==
  \A e \in Entities :
    /\ cloud[e].version <= local[e].version
    /\ cloud[e].status = "gone" => local[e].status = "gone"

AheadIsNewer ==
  \A c \in Coordinators : \A r \in Ahead(c) :
    r.kind = "put" => cloud[r.of].version <= r.version /\ cloud[r.of].status # "gone"

AppliedDelivered ==
  \A c \in Coordinators : pass[c].at = "wait" =>
    \A a \in request[c].applied, q \in queue : q.id = a.id => Delivered(a.of)

Kept ==
  \A e \in Entities \ dropped :
    local[e].status = "none" \/ (\E q \in queue : q.of = e) \/ Delivered(e)

Orderly ==
  /\ Alone /\ Divided /\ OneEach /\ SameRow /\ Superseded /\ SaidBefore
  /\ CloudBehind /\ AheadIsNewer /\ AppliedDelivered /\ Kept

Always == TypeOK /\ Numbered /\ QueueCurrent /\ Fresh /\ Phases

(***************************************************************************)
(* What is so besides as long as nothing goes wrong on the way: a sale is  *)
(* taken before its product is removed.                                    *)
(***************************************************************************)
SalePut(r) == r.kind = "put" /\ r.of \in Sales
RemovalFor(d, r) == d.kind = "delete" /\ d.of = Of[r.of]

SoldBeforeRemoved == \A q, d \in queue : SalePut(q) /\ RemovalFor(d, q) => q.id < d.id

\* A pending sale goes up with the removal of its product or before it.
RemovedTogether ==
  \A c \in Coordinators : \A d \in Flight(c), q \in queue :
    SalePut(q) /\ RemovalFor(d, q) /\ q.attempts < MaxAttempts =>
      \E r \in Flight(c) : r.id = q.id

\* When the server has removed a product, its pending sales are stored already.
GoneAfterSale ==
  \A q \in queue :
    SalePut(q) /\ q.attempts < MaxAttempts /\ cloud[Of[q.of]].status = "gone" =>
      \E c \in Coordinators : pass[c].at = "wait" /\ \E a \in request[c].applied : a.id = q.id

RefusedForNone ==
  \A c \in Coordinators : pass[c].at = "wait" =>
    \A r \in request[c].rows \ (request[c].todo \cup request[c].applied) :
      SalePut(r) => cloud[Of[r.of]].status = "none"

AheadNotGone ==
  \A c \in Coordinators : \A r \in Ahead(c) : SalePut(r) => cloud[Of[r.of]].status # "gone"

\* A request has all rows of its store in the batch, the server takes them by
\* their rank, and it takes none of a request that it refuses.
Grouped ==
  \A c \in Coordinators : pass[c].at = "wait" =>
    /\ \A r \in request[c].rows : StoreOf[r.of] = request[c].store
    /\ \A r \in pass[c].todo : StoreOf[r.of] # request[c].store
    /\ \A r \in request[c].rows \ request[c].todo, q \in request[c].todo : Rank(r) <= Rank(q)
    /\ Refused(request[c]) => request[c].applied = {}

Clean ==
  /\ SoldBeforeRemoved /\ RemovedTogether /\ GoneAfterSale /\ RefusedForNone
  /\ AheadNotGone /\ Grouped

IInv == Always /\ (~overlap => Orderly) /\ (~overlap /\ incidents = 0 => Clean)

(***************************************************************************)
(* Rows, batches and the order of the server.                              *)
(***************************************************************************)
\* The fields of a row.
LEMMA RowFields ==
  ASSUME NEW r \in Row
  PROVE  /\ r.id \in Nat /\ r.kind \in {"put", "delete"} /\ r.of \in Entities
         /\ r.version \in Nat /\ r.attempts \in Nat
         /\ \A n \in Nat : LET q == [r EXCEPT !.attempts = n]
                           IN  /\ q \in Row /\ q.attempts = n /\ q.id = r.id
                               /\ q.kind = r.kind /\ q.of = r.of /\ q.version = r.version
BY DEF Row

\* Every set of numbers has a least one.
LEMMA LeastNumber ==
  ASSUME NEW S, S \subseteq Nat, S # {}
  PROVE  \E m \in S : \A n \in S : m <= n
<1>1. PICK m \in S : \A n \in S : ~(<<n, m>> \in OpToRel(<, Nat))
  BY NatLessThanWellFounded, WFMin
<1>2. \A n \in S : ~(n < m)
  BY <1>1 DEF OpToRel
<1> QED  BY <1>2

\* Rows have an oldest one.
LEMMA OldestRow ==
  ASSUME NEW rows \in SUBSET Row, rows # {}
  PROVE  \E r \in rows : \A q \in rows : r.id <= q.id
<1>1. {r.id : r \in rows} \subseteq Nat /\ {r.id : r \in rows} # {}
  BY RowFields
<1>2. PICK m \in {r.id : r \in rows} : \A n \in {r.id : r \in rows} : m <= n
  BY <1>1, LeastNumber
<1> QED  BY <1>2

\* A batch of what is pending is never empty.
LEMMA BatchNotEmpty ==
  ASSUME NEW rows \in SUBSET Row, rows # {}, NEW n \in Nat \ {0}
  PROVE  Oldest(rows, n) # {} /\ Oldest(rows, n) \subseteq rows
<1>1. PICK r \in rows : \A q \in rows : r.id <= q.id
  BY OldestRow
<1>2. {q \in rows : q.id < r.id} = {}
  BY <1>1, RowFields
<1>3. Cardinality({q \in rows : q.id < r.id}) = 0
  BY <1>2, FS_EmptySet
<1>4. Cardinality({q \in rows : q.id < r.id}) < n
  BY <1>3
<1>5. r \in Oldest(rows, n)
  BY <1>4, Zenon DEF Oldest
<1> QED  BY <1>5, Zenon DEF Oldest

\* The next group is of one store, and not empty.
LEMMA GroupNotEmpty ==
  ASSUME NEW rows \in SUBSET Row, rows # {}
  PROVE  /\ NextGroup(rows) # {} /\ NextGroup(rows) \subseteq rows
         /\ \E store \in Stores :
              \A r \in rows : r \in NextGroup(rows) <=> StoreOf[r.of] = store
<1> DEFINE oldest == CHOOSE r \in rows : \A q \in rows : r.id <= q.id
<1>1. oldest \in rows
  BY OldestRow
<1> HIDE DEF oldest
<1>2. NextGroup(rows) = {r \in rows : StoreOf[r.of] = StoreOf[oldest.of]}
  BY DEF NextGroup, oldest
<1>3. StoreOf[oldest.of] \in Stores
  BY <1>1, RowFields, StoreAssumption
<1> QED  BY <1>1, <1>2, <1>3

\* The server takes the rows of a request one by one: there is a next one, no
\* row of a lower rank is left behind it.
LEMMA FirstRow ==
  ASSUME NEW rows \in SUBSET Row, rows # {}
  PROVE  First(rows) \in rows /\ \A q \in rows : Rank(First(rows)) <= Rank(q)
<1>1. \A r \in rows : Rank(r) \in Nat
  BY DEF Rank
<1>2. {Rank(r) : r \in rows} \subseteq Nat /\ {Rank(r) : r \in rows} # {}
  BY <1>1
<1>3. PICK m \in {Rank(r) : r \in rows} : \A n \in {Rank(r) : r \in rows} : m <= n
  BY <1>2, LeastNumber
<1> DEFINE low == {r \in rows : Rank(r) = m}
<1>4. low # {} /\ low \in SUBSET Row
  OBVIOUS
<1>5. PICK r \in low : \A q \in low : r.id <= q.id
  BY <1>4, OldestRow
<1>6. \A q \in rows : Rank(r) < Rank(q) \/ (Rank(r) = Rank(q) /\ r.id <= q.id)
  BY <1>1, <1>3, <1>5
<1>7. /\ First(rows) \in rows
      /\ \A q \in rows : \/ Rank(First(rows)) < Rank(q)
                         \/ (Rank(First(rows)) = Rank(q) /\ First(rows).id <= q.id)
  BY <1>5, <1>6 DEF First
<1> QED  BY <1>1, <1>7

(***************************************************************************)
(* What the owner's writes have in common.                                 *)
(***************************************************************************)
\* Entry e has been written: its row is the only one of e in the outbox.
OwnerWrote(e) ==
  \E kind \in {"put", "delete"}, version \in Nat, content \in Content :
    /\ queue' = {r \in queue : r.of # e} \cup
                  {[id |-> nextId, kind |-> kind, of |-> e, version |-> version,
                    attempts |-> 0]}
    /\ local' = [local EXCEPT ![e] = content]
    /\ content.version >= local[e].version
    /\ content.status # "none"
    /\ local[e].status # "gone"
    /\ IF kind = "delete" THEN content.status = "gone"
       ELSE content = [status |-> "live", version |-> version]
    /\ kind = "put" /\ e \in Sales => local[Of[e]].status = "live"
    /\ nextId' = nextId + 1
    /\ dropped' = dropped \ {e}
    /\ UNCHANGED <<cloud, pass, request, mishaps>>

\* Saving, selling and removing leave no older row of the entry queued.
LEMMA OwnerWrites ==
  ASSUME Always
  PROVE  /\ \A p \in Products : SaveProduct(p) => OwnerWrote(p)
         /\ \A s \in Sales : Sell(s) => OwnerWrote(s)
         /\ \A e \in Entities : Remove(e) => OwnerWrote(e)
<1> USE DEF Always
<1>0. queue \in SUBSET Row /\ local \in [Entities -> Content]
  BY DEF TypeOK
<1>1. \A r \in queue : /\ r \in Row /\ r.of \in Entities /\ r.kind \in {"put", "delete"}
                       /\ IF r.kind = "delete" THEN local[r.of].status = "gone"
                          ELSE local[r.of].status = "live"
  <2> SUFFICES ASSUME NEW r \in queue
               PROVE  /\ r \in Row /\ r.of \in Entities /\ r.kind \in {"put", "delete"}
                      /\ IF r.kind = "delete" THEN local[r.of].status = "gone"
                         ELSE local[r.of].status = "live"
    OBVIOUS
  <2>1. r \in Row /\ r.of \in Entities /\ r.kind \in {"put", "delete"}
    BY <1>0, RowFields
  <2>2. Current(r)
    BY DEF QueueCurrent
  <2> QED  BY <2>1, <2>2 DEF Current
<1>2. ASSUME NEW p \in Products, SaveProduct(p) PROVE OwnerWrote(p)
  <2> DEFINE version == local[p].version + 1
             content == [status |-> "live", version |-> version]
  <2>1. p \in Entities /\ version \in Nat /\ content \in Content /\ version >= local[p].version
        /\ local[p].status # "gone"
    BY <1>0, <1>2 DEF Entities, Content, SaveProduct
  <2>2. Without(queue, "put", p) = {r \in queue : r.of # p}
    BY <1>1, <2>1 DEF Without
  <2>3. Write(p, content, Queued(queue, "put", p, version)) /\ p \notin Sales
    BY <1>2, EntityAssumption DEF SaveProduct
  <2> QED  BY <2>1, <2>2, <2>3 DEF OwnerWrote, Write, Queued
<1>3. ASSUME NEW s \in Sales, Sell(s) PROVE OwnerWrote(s)
  <2> DEFINE content == [status |-> "live", version |-> 1]
  <2>1. s \in Entities /\ 1 \in Nat /\ content \in Content /\ local[s].status = "none"
        /\ local[s].version = 0
    BY <1>0, <1>3 DEF Entities, Content, Sell, Fresh
  <2>2. Without(queue, "put", s) = {r \in queue : r.of # s}
    BY <1>1, <2>1 DEF Without
  <2>3. Write(s, content, Queued(queue, "put", s, 1)) /\ local[Of[s]].status = "live"
    BY <1>3 DEF Sell
  <2>4. content.version >= local[s].version /\ content.status # "none"
    BY <2>1
  <2> HIDE DEF content
  <2>5. content = [status |-> "live", version |-> 1]
    BY DEF content
  <2> QED  BY <2>1, <2>2, <2>3, <2>4, <2>5 DEF OwnerWrote, Write, Queued
<1>4. ASSUME NEW e \in Entities, Remove(e) PROVE OwnerWrote(e)
  <2> DEFINE content == [local[e] EXCEPT !.status = "gone"]
  <2>1. 0 \in Nat /\ content \in Content /\ content.status = "gone"
        /\ content.version = local[e].version /\ local[e].version \in Nat
        /\ local[e].status = "live"
    BY <1>0, <1>4 DEF Content, Remove
  <2>2. Without(Without(queue, "put", e), "delete", e) = {r \in queue : r.of # e}
    BY <1>1, <2>1 DEF Without
  <2>3. Write(e, content, Queued(Without(queue, "put", e), "delete", e, 0))
    BY <1>4 DEF Remove
  <2>4. content.version >= local[e].version /\ content.status # "none"
    BY <2>1
  <2> HIDE DEF content
  <2> QED  BY <2>1, <2>2, <2>3, <2>4 DEF OwnerWrote, Write, Queued
<1> QED  BY <1>2, <1>3, <1>4

(***************************************************************************)
(* The part of the invariant that holds always.                            *)
(***************************************************************************)
LEMMA AlwaysInit == Init => Always
<1> SUFFICES ASSUME Init PROVE Always
  OBVIOUS
<1> USE DEF Init
<1>1. local \in [Entities -> Content] /\ cloud \in [Entities -> Content]
  BY DEF Content
<1>2. \A c \in Coordinators : pass[c] = Idle /\ request[c] = NoRequest
  OBVIOUS
<1>3. Idle \in [at : {"idle", "ready", "batch", "wait"}, batch : 0..MaxBatches,
                todo : SUBSET Row, accepted : BOOLEAN]
  BY BoundAssumption DEF Idle
<1>4. TypeOK
  <2>1. incidents \in 0..MaxIncidents /\ nextId \in Nat
    BY BoundAssumption
  <2>2. pass \in [Coordinators -> [at : {"idle", "ready", "batch", "wait"},
                  batch : 0..MaxBatches, todo : SUBSET Row, accepted : BOOLEAN]]
    BY <1>3
  <2>3. request \in [Coordinators \cup {Late} -> {NoRequest} \cup Request]
    OBVIOUS
  <2>4. overlap \in BOOLEAN /\ queue \subseteq Row /\ dropped \subseteq Entities
    OBVIOUS
  <2> QED  BY <1>1, <2>1, <2>2, <2>3, <2>4 DEF TypeOK
<1> QED  BY <1>2, <1>4 DEF Always, Numbered, QueueCurrent, Fresh, Phases, Idle

LEMMA OwnerWroteKeepsAlways ==
  ASSUME Always, NEW e \in Entities, OwnerWrote(e)
  PROVE  Always'
<1> USE DEF Always
<1>1. PICK kind \in {"put", "delete"}, version \in Nat, content \in Content :
        /\ queue' = {r \in queue : r.of # e} \cup
                      {[id |-> nextId, kind |-> kind, of |-> e, version |-> version,
                        attempts |-> 0]}
        /\ local' = [local EXCEPT ![e] = content]
        /\ content.status # "none"
        /\ IF kind = "delete" THEN content.status = "gone"
           ELSE content = [status |-> "live", version |-> version]
        /\ nextId' = nextId + 1
        /\ dropped' = dropped \ {e}
        /\ UNCHANGED <<cloud, pass, request, mishaps>>
  BY DEF OwnerWrote
<1> DEFINE row == [id |-> nextId, kind |-> kind, of |-> e, version |-> version, attempts |-> 0]
<1>2. row \in Row /\ row.id = nextId /\ row.of = e /\ row.kind = kind /\ row.version = version
  BY DEF TypeOK, Row
<1> HIDE DEF row
<1>3. queue' = {r \in queue : r.of # e} \cup {row}
  BY <1>1 DEF row
<1>4. \A q \in queue : q \in Row /\ q.id < nextId
  BY DEF TypeOK, Numbered
<1>5. TypeOK'
  <2>1. queue' \subseteq Row /\ local' \in [Entities -> Content] /\ nextId' \in Nat
        /\ dropped' \subseteq Entities
    BY <1>1, <1>2, <1>3 DEF TypeOK
  <2>2. \A r, q \in queue' : r.id = q.id \/ (r.kind = q.kind /\ r.of = q.of) => r = q
    BY <1>2, <1>3, <1>4, RowFields DEF TypeOK
  <2> QED  BY <1>1, <2>1, <2>2 DEF TypeOK, mishaps
<1>6. Numbered'
  BY <1>1, <1>2, <1>3, <1>4, RowFields DEF Numbered, TypeOK
<1>7. QueueCurrent'
  BY <1>1, <1>2, <1>3, <1>4, RowFields DEF QueueCurrent, Current, TypeOK
<1>8. Fresh' /\ Phases'
  BY <1>1 DEF Fresh, Phases, TypeOK
<1> QED  BY <1>5, <1>6, <1>7, <1>8

PassType ==
  [at : {"idle", "ready", "batch", "wait"}, batch : 0..MaxBatches, todo : SUBSET Row,
   accepted : BOOLEAN]

\* What a coordinator and its request are made of.
LEMMA PassFacts ==
  ASSUME Always, NEW c \in Coordinators
  PROVE  /\ pass \in [Coordinators -> PassType]
         /\ pass[c].at \in {"idle", "ready", "batch", "wait"}
         /\ pass[c].batch \in 0..MaxBatches
         /\ pass[c].todo \in SUBSET Row
         /\ pass[c].accepted \in BOOLEAN
         /\ pass[c].at = "wait" => request[c] \in Request
         /\ c # Late /\ c \in Coordinators \cup {Late} /\ Late \in Coordinators \cup {Late}
<1>1. pass \in [Coordinators -> PassType]
      /\ request \in [Coordinators \cup {Late} -> {NoRequest} \cup Request]
  BY DEF Always, TypeOK, PassType
<1>2. pass[c] \in PassType
  BY <1>1
<1> QED  BY <1>1, <1>2, CoordinatorAssumption DEF PassType, Always, Phases

LEMMA RequestFields ==
  ASSUME NEW x \in Request
  PROVE  /\ x.store \in Stores /\ x.rows \in SUBSET Row /\ x.todo \in SUBSET Row
         /\ x.applied \in SUBSET Row
         /\ x # NoRequest
BY DEF Request, NoRequest

\* The ends of a pass: nothing is left to do, for the pass or for its batch.
LEMMA IdlePasses ==
  /\ Idle \in PassType /\ Idle.at = "idle" /\ Idle.todo = {}
  /\ \A n \in 0..MaxBatches :
       LET ready == [Idle EXCEPT !.at = "ready", !.batch = n]
       IN  ready \in PassType /\ ready.at = "ready" /\ ready.todo = {}
  /\ LET ready == [Idle EXCEPT !.at = "ready"]
     IN  ready \in PassType /\ ready.at = "ready" /\ ready.todo = {}
<1>1. MaxBatches \in Nat
  BY BoundAssumption
<1>2. Idle = [at |-> "idle", batch |-> 0, todo |-> {}, accepted |-> FALSE]
  BY DEF Idle
<1>3. Idle \in PassType
  BY <1>1, <1>2 DEF PassType
<1> QED  BY <1>2, <1>3 DEF PassType

\* Rows left the outbox or had their attempts counted.
QueueThinned ==
  /\ queue' \subseteq Row
  /\ \A q \in queue' : \E r \in queue : r.id = q.id /\ r.kind = q.kind /\ r.of = q.of
                                        /\ r.version = q.version
  /\ \A r, q \in queue' : r.id = q.id => r = q

LEMMA ThinnedKeepsQueue ==
  ASSUME Always, QueueThinned, UNCHANGED <<local, nextId>>
  PROVE  /\ \A r, q \in queue' : r.id = q.id \/ (r.kind = q.kind /\ r.of = q.of) => r = q
         /\ Numbered' /\ QueueCurrent' /\ Fresh'
<1>1. ASSUME NEW r \in queue', NEW q \in queue', r.kind = q.kind, r.of = q.of
      PROVE  r = q
  <2>1. PICK r0 \in queue : r0.id = r.id /\ r0.kind = r.kind /\ r0.of = r.of
    BY DEF QueueThinned
  <2>2. PICK q0 \in queue : q0.id = q.id /\ q0.kind = q.kind /\ q0.of = q.of
    BY DEF QueueThinned
  <2>3. r0 = q0
    BY <1>1, <2>1, <2>2 DEF Always, TypeOK
  <2> QED  BY <2>1, <2>2, <2>3 DEF QueueThinned
<1>2. Numbered'
  BY DEF Always, Numbered, QueueThinned
<1>3. QueueCurrent' /\ Fresh'
  <2> SUFFICES ASSUME NEW q \in queue' PROVE Current(q)'
    BY DEF QueueCurrent, Fresh, Always
  <2>1. PICK r \in queue : r.kind = q.kind /\ r.of = q.of /\ r.version = q.version
    BY DEF QueueThinned
  <2>2. Current(r)
    BY DEF Always, QueueCurrent
  <2> QED  BY <2>1, <2>2 DEF Current
<1> QED  BY <1>1, <1>2, <1>3 DEF QueueThinned

\* Row r of the outbox, which was not applied, is q after the answer.
Counted(r, q, applied, refused) ==
  /\ r.id = q.id /\ r.kind = q.kind /\ r.of = q.of
  /\ ~\E a \in applied : a.id = r.id
  /\ r.attempts <= q.attempts
  /\ r.attempts < q.attempts => \E a \in refused : a.id = r.id

\* The answer to a request thins the outbox.
LEMMA AnsweredThins ==
  ASSUME Always, NEW applied \in SUBSET Row, NEW refused \in SUBSET Row,
         queue' = Answered(queue, applied, refused)
  PROVE  /\ QueueThinned
         /\ \A r \in queue : (~\E a \in applied : a.id = r.id) =>
              \E q \in queue' : q.id = r.id /\ q.of = r.of
         /\ \A q \in queue' : \E r \in queue : Counted(r, q, applied, refused)
<1> DEFINE Among(rows, r) == \E a \in rows : a.id = r.id
           Next1(r) == IF Among(refused, r) THEN [r EXCEPT !.attempts = @ + 1] ELSE r
<1>1. queue' = {Next1(r) : r \in {x \in queue : ~Among(applied, x)}}
  BY DEF Answered
<1>2. ASSUME NEW r \in queue
      PROVE  /\ Next1(r) \in Row /\ Next1(r).id = r.id /\ Next1(r).kind = r.kind
             /\ Next1(r).of = r.of /\ Next1(r).version = r.version
             /\ r.attempts <= Next1(r).attempts
             /\ r.attempts < Next1(r).attempts => Among(refused, r)
  <2>1. r \in Row
    BY DEF Always, TypeOK
  <2>2. r.attempts + 1 \in Nat
    BY <2>1, RowFields
  <2>3. CASE Among(refused, r)
    BY <2>1, <2>2, <2>3, RowFields
  <2>4. CASE ~Among(refused, r)
    BY <2>1, <2>4, RowFields
  <2> QED  BY <2>3, <2>4
<1> HIDE DEF Among, Next1
<1>3. queue' \subseteq Row
  BY <1>1, <1>2
<1>4. \A q \in queue' : \E r \in queue : q = Next1(r) /\ r.id = q.id /\ r.kind = q.kind
                          /\ r.of = q.of /\ r.version = q.version
  BY <1>1, <1>2
<1>5. \A r, q \in queue' : r.id = q.id => r = q
  BY <1>4 DEF Always, TypeOK
<1>6. ASSUME NEW r \in queue, ~\E a \in applied : a.id = r.id
      PROVE  \E q \in queue' : q.id = r.id /\ q.of = r.of
  <2>1. Next1(r) \in queue'
    BY <1>1, <1>6 DEF Among
  <2> QED  BY <2>1, <1>2
<1>7. ASSUME NEW q \in queue'
      PROVE  \E r \in queue : Counted(r, q, applied, refused)
  <2>1. PICK r \in queue : q = Next1(r) /\ ~Among(applied, r)
    BY <1>1
  <2>2. Counted(r, q, applied, refused)
    BY <1>2, <2>1 DEF Counted, Among
  <2> QED  BY <2>2
<1> QED  BY <1>3, <1>4, <1>5, <1>6, <1>7 DEF QueueThinned

\* What the owner does about a row that was refused thins it too.
LEMMA OwnerThins ==
  ASSUME Always, NEW r \in queue
  PROVE  /\ Retry(r) => /\ QueueThinned
                        /\ \A q \in queue : \E p \in queue' : p.id = q.id /\ p.of = q.of
         /\ Drop(r) => QueueThinned
<1>1. r \in Row /\ queue \subseteq Row
  BY DEF Always, TypeOK
<1> DEFINE again == [r EXCEPT !.attempts = 0]
<1>2. again \in Row /\ again.id = r.id /\ again.kind = r.kind /\ again.of = r.of
      /\ again.version = r.version
  BY <1>1, RowFields
<1> HIDE DEF again
<1>3. ASSUME Retry(r) PROVE QueueThinned
                        /\ \A q \in queue : \E p \in queue' : p.id = q.id /\ p.of = q.of
  <2>1. queue' = (queue \ {r}) \cup {again}
    BY <1>3 DEF Retry, again
  <2> QED  BY <1>1, <1>2, <2>1 DEF QueueThinned, Always, TypeOK
<1>4. ASSUME Drop(r) PROVE QueueThinned
  <2>1. queue' = queue \ {r}
    BY <1>4 DEF Drop
  <2> QED  BY <1>1, <2>1 DEF QueueThinned, Always, TypeOK
<1> QED  BY <1>3, <1>4

\* The coordinator's steps, and what follows of the type invariant.
LEMMA RetryOrDropKeepsAlways ==
  ASSUME Always, NEW r \in queue, Retry(r) \/ Drop(r)
  PROVE  Always'
<1>1. QueueThinned /\ UNCHANGED <<local, nextId, cloud, pass, request, overlap>>
  BY OwnerThins DEF Retry, Drop
<1>2. /\ \A a, q \in queue' : a.id = q.id \/ (a.kind = q.kind /\ a.of = q.of) => a = q
      /\ Numbered' /\ QueueCurrent' /\ Fresh'
  BY <1>1, ThinnedKeepsQueue
<1>3. incidents' \in 0..MaxIncidents
  BY BoundAssumption DEF Always, TypeOK, Retry, Drop, Incident
<1>4. dropped' \subseteq Entities
  BY RowFields DEF Always, TypeOK, Retry, Drop
<1>5. TypeOK'
  BY <1>1, <1>2, <1>3, <1>4 DEF Always, TypeOK, QueueThinned
<1> QED  BY <1>1, <1>2, <1>5 DEF Always, Phases

LEMMA StartKeepsAlways ==
  ASSUME Always, NEW c \in Coordinators, Start(c)
  PROVE  Always'
<1> DEFINE ready == [Idle EXCEPT !.at = "ready"]
<1>1. ready \in PassType /\ ready.at = "ready" /\ ready.todo = {}
  BY IdlePasses
<1> HIDE DEF ready
<1>2. pass' = [pass EXCEPT ![c] = ready] /\ pass[c].at = "idle"
      /\ overlap' \in BOOLEAN
      /\ UNCHANGED <<local, queue, nextId, dropped, cloud, request, incidents>>
  BY DEF Start, Enter, NotRunning, user, ready, Always, TypeOK
<1>3. pass' \in [Coordinators -> PassType]
  BY <1>1, <1>2, PassFacts
<1>4. TypeOK'
  BY <1>2, <1>3 DEF Always, TypeOK, PassType
<1>5. Phases'
  BY <1>1, <1>2, PassFacts DEF Always, Phases
<1> QED  BY <1>2, <1>4, <1>5 DEF Always, Numbered, QueueCurrent, Current, Fresh

LEMMA CollectKeepsAlways ==
  ASSUME Always, NEW c \in Coordinators, Collect(c)
  PROVE  Always'
<1> DEFINE batch == Oldest(Pending, BatchSize)
           p == [at |-> "batch", batch |-> pass[c].batch, todo |-> batch, accepted |-> FALSE]
<1>1. Pending \subseteq Row /\ Pending # {}
  BY DEF Collect, Pending, Always, TypeOK
<1>2. batch # {} /\ batch \subseteq Row
  BY <1>1, BatchNotEmpty, BoundAssumption
<1> HIDE DEF batch
<1>3. p \in PassType /\ p.at = "batch" /\ p.todo = batch /\ p.batch < MaxBatches
  BY <1>2, PassFacts DEF PassType, Collect
<1> HIDE DEF p
<1>4. pass' = [pass EXCEPT ![c] = p] /\ pass[c].at = "ready"
      /\ UNCHANGED <<local, queue, nextId, dropped, cloud, request, incidents, overlap>>
  BY DEF Collect, Enter, user, mishaps, p, batch
<1>5. pass' \in [Coordinators -> PassType]
  BY <1>3, <1>4, PassFacts
<1>6. TypeOK'
  BY <1>4, <1>5 DEF Always, TypeOK, PassType
<1>7. Phases'
  BY <1>2, <1>3, <1>4, PassFacts DEF Always, Phases
<1> QED  BY <1>4, <1>6, <1>7 DEF Always, Numbered, QueueCurrent, Current, Fresh

LEMMA FinishKeepsAlways ==
  ASSUME Always, NEW c \in Coordinators, Finish(c)
  PROVE  Always'
<1>1. Idle \in PassType /\ Idle.at = "idle" /\ Idle.todo = {}
  BY IdlePasses
<1>2. pass' = [pass EXCEPT ![c] = Idle] /\ pass[c].at = "ready"
      /\ UNCHANGED <<local, queue, nextId, dropped, cloud, request, incidents, overlap>>
  BY DEF Finish, Enter, user, mishaps
<1>3. pass' \in [Coordinators -> PassType]
  BY <1>1, <1>2, PassFacts
<1>4. TypeOK'
  BY <1>2, <1>3 DEF Always, TypeOK, PassType
<1>5. Phases'
  BY <1>1, <1>2, PassFacts DEF Always, Phases
<1> QED  BY <1>2, <1>4, <1>5 DEF Always, Numbered, QueueCurrent, Current, Fresh

\* A group of the batch goes out as a request, the rest stays.
SentGroup(c, group, store) ==
  /\ group # {} /\ group \subseteq pass[c].todo
  /\ \A r \in pass[c].todo : r \in group <=> StoreOf[r.of] = store
  /\ request' = [request EXCEPT ![c] = [store |-> store, rows |-> group, todo |-> group,
                                        applied |-> {}]]
  /\ pass' = [pass EXCEPT ![c] = [pass[c] EXCEPT !.at = "wait", !.todo = @ \ group]]
  /\ pass[c].at = "batch"
  /\ UNCHANGED <<local, queue, nextId, dropped, cloud, incidents, overlap>>

LEMMA SendFacts ==
  ASSUME Always, NEW c \in Coordinators, Send(c)
  PROVE  \E group \in SUBSET Row, store \in Stores : SentGroup(c, group, store)
<1> DEFINE group == NextGroup(pass[c].todo)
           one == CHOOSE r \in group : TRUE
<1>1. pass[c].at = "batch" /\ pass[c].todo \in SUBSET Row /\ pass[c].todo # {}
  BY PassFacts DEF Send, Always, Phases
<1>2. /\ group # {} /\ group \subseteq pass[c].todo
      /\ \E store \in Stores : \A r \in pass[c].todo : r \in group <=> StoreOf[r.of] = store
  BY <1>1, GroupNotEmpty
<1>3. /\ request' = [request EXCEPT ![c] = [store |-> StoreOf[one.of], rows |-> group,
                                            todo |-> group, applied |-> {}]]
      /\ pass' = [pass EXCEPT ![c] = [pass[c] EXCEPT !.at = "wait", !.todo = @ \ group]]
      /\ UNCHANGED <<local, queue, nextId, dropped, cloud, incidents, overlap>>
  BY DEF Send, Enter, user, mishaps
<1> HIDE DEF group
<1>4. one \in group
  BY <1>2
<1> HIDE DEF one
<1>5. \A r \in pass[c].todo : r \in group <=> StoreOf[r.of] = StoreOf[one.of]
  BY <1>2, <1>4
<1>6. StoreOf[one.of] \in Stores /\ group \in SUBSET Row
  BY <1>1, <1>2, <1>4
<1>7. SentGroup(c, group, StoreOf[one.of])
  BY <1>1, <1>2, <1>3, <1>5 DEF SentGroup
<1> QED  BY <1>6, <1>7

LEMMA SendKeepsAlways ==
  ASSUME Always, NEW c \in Coordinators, Send(c)
  PROVE  Always'
<1>0. PICK group \in SUBSET Row, store \in Stores : SentGroup(c, group, store)
  BY SendFacts
<1>1. pass[c].at = "batch"
      /\ UNCHANGED <<local, queue, nextId, dropped, cloud, incidents, overlap>>
  BY <1>0 DEF SentGroup
<1> DEFINE p == [pass[c] EXCEPT !.at = "wait", !.todo = @ \ group]
           x == [store |-> store, rows |-> group, todo |-> group, applied |-> {}]
<1>2. x \in Request /\ x # NoRequest
  BY RequestFields DEF Request
<1>3. p \in PassType /\ p.at = "wait" /\ p.batch = pass[c].batch
  BY PassFacts DEF PassType
<1> HIDE DEF x, p
<1>4. request' = [request EXCEPT ![c] = x] /\ pass' = [pass EXCEPT ![c] = p]
  BY <1>0 DEF x, p, SentGroup
<1>5. pass' \in [Coordinators -> PassType]
      /\ request' \in [Coordinators \cup {Late} -> {NoRequest} \cup Request]
  BY <1>2, <1>3, <1>4, PassFacts DEF Always, TypeOK
<1>6. TypeOK'
  BY <1>1, <1>5 DEF Always, TypeOK, PassType
<1>7. pass[c].batch < MaxBatches
  BY <1>1 DEF Always, Phases
<1>8. Phases'
  BY <1>1, <1>2, <1>3, <1>4, <1>7, PassFacts DEF Always, TypeOK, Phases
<1> QED  BY <1>1, <1>6, <1>8 DEF Always, Numbered, QueueCurrent, Current, Fresh

\* After an answer the pass goes on with what is left of its batch.
LEMMA AfterAnswerFacts ==
  ASSUME NEW p \in PassType, p.batch < MaxBatches, NEW applied
  PROVE  LET q == AfterAnswer(p, applied)
         IN  /\ q \in PassType /\ q.todo = p.todo
             /\ q.at \in {"idle", "ready"} => q.todo = {}
             /\ q.at = "batch" => q.todo # {} /\ q.batch < MaxBatches
             /\ q.at # "wait"
<1> DEFINE accepted == p.accepted \/ applied # {}
           q == AfterAnswer(p, applied)
<1>1. p.batch + 1 \in 0..MaxBatches /\ accepted \in BOOLEAN
  BY BoundAssumption DEF PassType
<1> HIDE DEF accepted
<1>2. CASE p.todo # {}
  <2>1. q = [p EXCEPT !.at = "batch", !.accepted = accepted]
    BY <1>2 DEF AfterAnswer, accepted
  <2> QED  BY <1>1, <1>2, <2>1 DEF PassType
<1>3. CASE p.todo = {} /\ accepted
  <2>1. q = [Idle EXCEPT !.at = "ready", !.batch = p.batch + 1]
    BY <1>3 DEF AfterAnswer, accepted
  <2> QED  BY <1>1, <1>3, <2>1, IdlePasses
<1>4. CASE p.todo = {} /\ ~accepted
  <2>1. q = Idle
    BY <1>4 DEF AfterAnswer, accepted
  <2> QED  BY <1>4, <2>1, IdlePasses
<1> QED  BY <1>2, <1>3, <1>4

\* A request of c is over, and c does something else.
LEMMA RequestOver ==
  ASSUME Always, NEW c \in Coordinators, NEW p \in PassType,
         pass' = [pass EXCEPT ![c] = p],
         p.at \in {"idle", "ready"} => p.todo = {},
         p.at = "batch" => p.todo # {} /\ p.batch < MaxBatches,
         p.at # "wait",
         \/ request' = [request EXCEPT ![c] = NoRequest]
         \/ request' = [request EXCEPT ![c] = NoRequest, ![Late] = request[c]]
  PROVE  /\ pass' \in [Coordinators -> PassType]
         /\ request' \in [Coordinators \cup {Late} -> {NoRequest} \cup Request]
         /\ Phases'
<1>1. request \in [Coordinators \cup {Late} -> {NoRequest} \cup Request]
  BY DEF Always, TypeOK
<1>2. pass' \in [Coordinators -> PassType]
      /\ request' \in [Coordinators \cup {Late} -> {NoRequest} \cup Request]
  BY <1>1, PassFacts
<1>3. \A d \in Coordinators : d # c => request'[d] = request[d] /\ pass'[d] = pass[d]
  BY <1>1, PassFacts
<1>4. request'[c] = NoRequest /\ pass'[c] = p
  BY <1>1, PassFacts
<1> QED  BY <1>2, <1>3, <1>4 DEF Always, Phases, PassType

LEMMA ReceiveKeepsAlways ==
  ASSUME Always, NEW c \in Coordinators, Receive(c)
  PROVE  Always'
<1> DEFINE applied == request[c].applied
<1>1. pass[c].at = "wait" /\ request[c] \in Request /\ pass[c] \in PassType
      /\ pass[c].batch < MaxBatches
  BY PassFacts DEF Receive, Always, Phases
<1>2. /\ queue' = Answered(queue, applied, request[c].rows \ applied)
      /\ pass' = [pass EXCEPT ![c] = AfterAnswer(pass[c], applied)]
      /\ request' = [request EXCEPT ![c] = NoRequest]
      /\ UNCHANGED <<local, nextId, dropped, cloud, incidents, overlap>>
  BY DEF Receive, Enter, mishaps
<1>3. QueueThinned
  BY <1>1, <1>2, RequestFields, AnsweredThins
<1>4. /\ \A a, q \in queue' : a.id = q.id \/ (a.kind = q.kind /\ a.of = q.of) => a = q
      /\ Numbered' /\ QueueCurrent' /\ Fresh'
  BY <1>2, <1>3, ThinnedKeepsQueue
<1>5. /\ pass' \in [Coordinators -> PassType]
      /\ request' \in [Coordinators \cup {Late} -> {NoRequest} \cup Request]
      /\ Phases'
  <2> DEFINE p == AfterAnswer(pass[c], applied)
  <2>1. /\ p \in PassType
        /\ p.at \in {"idle", "ready"} => p.todo = {}
        /\ p.at = "batch" => p.todo # {} /\ p.batch < MaxBatches
        /\ p.at # "wait"
    BY <1>1, AfterAnswerFacts
  <2> HIDE DEF p
  <2>2. pass' = [pass EXCEPT ![c] = p]
    BY <1>2 DEF p
  <2> QED  BY <1>2, <2>1, <2>2, RequestOver
<1>6. TypeOK'
  BY <1>2, <1>3, <1>4, <1>5 DEF Always, TypeOK, QueueThinned, PassType
<1> QED  BY <1>4, <1>5, <1>6 DEF Always

LEMMA GivingUpKeepsAlways ==
  ASSUME Always, NEW c \in Coordinators, PushRefused(c) \/ GiveUp(c)
  PROVE  Always'
<1>1. /\ pass' = [pass EXCEPT ![c] = Idle]
      /\ \/ request' = [request EXCEPT ![c] = NoRequest]
         \/ request' = [request EXCEPT ![c] = NoRequest, ![Late] = request[c]]
      /\ UNCHANGED <<local, queue, nextId, dropped, cloud>>
  BY DEF PushRefused, GiveUp, Enter, user
<1>2. incidents' \in 0..MaxIncidents /\ overlap' \in BOOLEAN
  <2>1. incidents \in 0..MaxIncidents /\ overlap \in BOOLEAN
    BY DEF Always, TypeOK
  <2>2. incidents' = incidents \/ (incidents < MaxIncidents /\ incidents' = incidents + 1)
    BY DEF PushRefused, GiveUp, Incident, mishaps
  <2>3. overlap' = overlap \/ overlap' = TRUE
    BY DEF PushRefused, GiveUp, mishaps
  <2>4. incidents' \in 0..MaxIncidents
    BY <2>1, <2>2, BoundAssumption
  <2> QED  BY <2>1, <2>3, <2>4, Zenon
<1>3. /\ pass' \in [Coordinators -> PassType]
      /\ request' \in [Coordinators \cup {Late} -> {NoRequest} \cup Request]
      /\ Phases'
  BY <1>1, IdlePasses, RequestOver
<1>4. TypeOK'
  BY <1>1, <1>2, <1>3 DEF Always, TypeOK, PassType
<1> QED  BY <1>1, <1>3, <1>4 DEF Always, Numbered, QueueCurrent, Current, Fresh

\* The server has taken row r of request x, and applied it or not.
TookRow(x, r, ok) ==
  /\ request[x] \in Request
  /\ r \in request[x].todo /\ ~Refused(request[x])
  /\ \A q \in request[x].todo : Rank(r) <= Rank(q)
  /\ request' = [request EXCEPT ![x] =
       [store |-> request[x].store, rows |-> request[x].rows,
        todo |-> request[x].todo \ {r},
        applied |-> IF ok THEN request[x].applied \cup {r} ELSE request[x].applied]]
  /\ IF ok THEN Accepts(r) /\ cloud' = [cloud EXCEPT ![r.of] = Applied(cloud[r.of], r)]
     ELSE UNCHANGED cloud /\ (incidents' = 0 => ~Accepts(r))
  /\ incidents' \in 0..MaxIncidents /\ incidents <= incidents'
  /\ UNCHANGED <<local, queue, nextId, dropped, pass, overlap>>

\* Updating fields of a request.
LEMMA RequestUpdates ==
  ASSUME NEW D, NEW f \in [D -> {NoRequest} \cup Request], NEW x \in D, f[x] \in Request,
         NEW r
  PROVE  /\ [f EXCEPT ![x].todo = @ \ {r}]
              = [f EXCEPT ![x] = [store |-> f[x].store, rows |-> f[x].rows,
                                  todo |-> f[x].todo \ {r}, applied |-> f[x].applied]]
         /\ [f EXCEPT ![x].todo = @ \ {r}, ![x].applied = @ \cup {r}]
              = [f EXCEPT ![x] = [store |-> f[x].store, rows |-> f[x].rows,
                                  todo |-> f[x].todo \ {r}, applied |-> f[x].applied \cup {r}]]
<1> DEFINE y == f[x]
           z == [store |-> y.store, rows |-> y.rows, todo |-> y.todo \ {r},
                 applied |-> y.applied]
<1>1. [y EXCEPT !.todo = y.todo \ {r}] = z
  BY DEF Request
<1>2. [f EXCEPT ![x].todo = @ \ {r}] = [f EXCEPT ![x] = [y EXCEPT !.todo = y.todo \ {r}]]
  OBVIOUS
<1>3. [f EXCEPT ![x].todo = @ \ {r}] = [f EXCEPT ![x] = z]
  BY <1>1, <1>2
<1>4. [z EXCEPT !.applied = z.applied \cup {r}]
        = [store |-> y.store, rows |-> y.rows, todo |-> y.todo \ {r},
           applied |-> y.applied \cup {r}]
  OBVIOUS
<1>5. [f EXCEPT ![x].todo = @ \ {r}, ![x].applied = @ \cup {r}]
        = [[f EXCEPT ![x].todo = @ \ {r}] EXCEPT ![x].applied = @ \cup {r}]
  OBVIOUS
<1>6. [[f EXCEPT ![x] = z] EXCEPT ![x].applied = @ \cup {r}]
        = [f EXCEPT ![x] = [z EXCEPT !.applied = z.applied \cup {r}]]
  OBVIOUS
<1> QED  BY <1>3, <1>4, <1>5, <1>6

LEMMA ServeFacts ==
  ASSUME Always, NEW x \in Coordinators \cup {Late}, Serve(x)
  PROVE  \E r \in Row, ok \in BOOLEAN : TookRow(x, r, ok)
<1> DEFINE r == First(request[x].todo)
           y == request[x]
<1>1. request \in [Coordinators \cup {Late} -> {NoRequest} \cup Request]
      /\ incidents \in 0..MaxIncidents
  BY DEF Always, TypeOK
<1>2. y \in Request /\ y.todo \in SUBSET Row /\ y.applied \in SUBSET Row /\ y.todo # {}
  BY <1>1, RequestFields DEF Serve
<1>3. r \in y.todo /\ r \in Row /\ \A q \in y.todo : Rank(r) <= Rank(q)
  BY <1>2, FirstRow
<1>4. UNCHANGED <<local, queue, nextId, dropped, pass>> /\ ~Refused(y)
  BY DEF Serve, user
<1>5. \/ /\ Accepts(r)
         /\ cloud' = [cloud EXCEPT ![r.of] = Applied(@, r)]
         /\ request' = [request EXCEPT ![x].todo = @ \ {r}, ![x].applied = @ \cup {r}]
         /\ UNCHANGED mishaps
      \/ /\ ~Accepts(r)
         /\ request' = [request EXCEPT ![x].todo = @ \ {r}]
         /\ UNCHANGED <<cloud, mishaps>>
      \/ /\ Incident("fault")
         /\ request' = [request EXCEPT ![x].todo = @ \ {r}]
         /\ UNCHANGED <<cloud, overlap>>
  BY DEF Serve
<1> HIDE DEF r
<1>6. CASE /\ Accepts(r)
           /\ cloud' = [cloud EXCEPT ![r.of] = Applied(@, r)]
           /\ request' = [request EXCEPT ![x].todo = @ \ {r}, ![x].applied = @ \cup {r}]
           /\ UNCHANGED mishaps
  <2>1. request' = [request EXCEPT ![x] =
                      [store |-> y.store, rows |-> y.rows, todo |-> y.todo \ {r},
                       applied |-> y.applied \cup {r}]]
    BY <1>1, <1>2, <1>6, RequestUpdates
  <2>2. incidents' = incidents /\ overlap' = overlap
    BY <1>6 DEF mishaps
  <2>3. incidents' \in 0..MaxIncidents /\ incidents <= incidents'
    BY <1>1, <2>2
  <2>4. cloud' = [cloud EXCEPT ![r.of] = Applied(cloud[r.of], r)] /\ Accepts(r)
    BY <1>6
  <2>5. TookRow(x, r, TRUE)
    BY <1>2, <1>3, <1>4, <2>1, <2>2, <2>3, <2>4, Zenon DEF TookRow
  <2> QED  BY <1>3, <2>5
<1>7. ASSUME request' = [request EXCEPT ![x].todo = @ \ {r}], UNCHANGED <<cloud, overlap>>,
             \/ ~Accepts(r) /\ UNCHANGED incidents
             \/ incidents < MaxIncidents /\ incidents' = incidents + 1
      PROVE  \E q \in Row, ok \in BOOLEAN : TookRow(x, q, ok)
  <2>1. request' = [request EXCEPT ![x] =
                      [store |-> y.store, rows |-> y.rows, todo |-> y.todo \ {r},
                       applied |-> y.applied]]
    <3>1. [request EXCEPT ![x].todo = @ \ {r}]
            = [request EXCEPT ![x] =
                 [store |-> y.store, rows |-> y.rows, todo |-> y.todo \ {r},
                  applied |-> y.applied]]
      BY <1>1, <1>2, RequestUpdates
    <3> QED  BY <1>7, <3>1, Zenon
  <2>2. /\ incidents' \in 0..MaxIncidents /\ incidents <= incidents'
        /\ incidents' = 0 => ~Accepts(r)
    BY <1>1, <1>7, BoundAssumption
  <2>3. TookRow(x, r, FALSE)
    BY <1>2, <1>3, <1>4, <1>7, <2>1, <2>2 DEF TookRow
  <2> QED  BY <1>3, <2>3
<1> QED  BY <1>5, <1>6, <1>7 DEF Incident, mishaps

\* A row that is applied leaves the entry live with its version, or gone.
LEMMA AppliedFacts ==
  ASSUME NEW content \in Content, NEW r \in Row
  PROVE  /\ Applied(content, r) \in Content
         /\ r.kind = "delete" => /\ Applied(content, r).status # "live"
                                 /\ Applied(content, r).version = content.version
                                 /\ content.status # "live" => Applied(content, r) = content
         /\ r.kind = "put" =>
              Applied(content, r) = IF r.of \in Sales /\ content.status = "gone" THEN content
                                    ELSE [status |-> "live", version |-> r.version]
<1>1. r.kind \in {"put", "delete"} /\ r.version \in Nat
  BY RowFields
<1>2. CASE r.kind = "delete"
  <2>1. Applied(content, r) =
          IF content.status = "live" THEN [content EXCEPT !.status = "gone"] ELSE content
    BY <1>2 DEF Applied
  <2> QED  BY <1>2, <2>1 DEF Content
<1>3. CASE r.kind = "put"
  <2>1. Applied(content, r) = IF r.of \in Sales /\ content.status = "gone" THEN content
                              ELSE [status |-> "live", version |-> r.version]
    BY <1>3 DEF Applied
  <2> QED  BY <1>1, <1>3, <2>1 DEF Content
<1> QED  BY <1>1, <1>2, <1>3

LEMMA ServeKeepsAlways ==
  ASSUME Always, NEW x \in Coordinators \cup {Late}, Serve(x)
  PROVE  Always'
<1>1. PICK r \in Row, ok \in BOOLEAN : TookRow(x, r, ok)
  BY ServeFacts
<1> DEFINE y == [store |-> request[x].store, rows |-> request[x].rows,
                 todo |-> request[x].todo \ {r},
                 applied |-> IF ok THEN request[x].applied \cup {r} ELSE request[x].applied]
<1>2. y \in Request /\ y # NoRequest
  <2>1. y \in Request
    BY <1>1 DEF TookRow, Request
  <2> QED  BY <2>1, RequestFields
<1> HIDE DEF y
<1>3. /\ request' = [request EXCEPT ![x] = y]
      /\ UNCHANGED <<local, queue, nextId, dropped, pass, overlap>>
      /\ incidents' \in 0..MaxIncidents
      /\ request[x] # NoRequest
  BY <1>1, RequestFields DEF TookRow, y
<1>4. request' \in [Coordinators \cup {Late} -> {NoRequest} \cup Request]
      /\ request \in [Coordinators \cup {Late} -> {NoRequest} \cup Request]
  BY <1>2, <1>3 DEF Always, TypeOK
<1>5. cloud' \in [Entities -> Content]
  <2>1. cloud[r.of] \in Content /\ cloud \in [Entities -> Content]
    BY RowFields DEF Always, TypeOK
  <2>2. Applied(cloud[r.of], r) \in Content
    BY <2>1, AppliedFacts
  <2> QED  BY <1>1, <2>1, <2>2 DEF TookRow
<1>6. TypeOK'
  BY <1>3, <1>4, <1>5 DEF Always, TypeOK
<1>7. Phases'
  BY <1>2, <1>3, <1>4 DEF Always, Phases
<1> QED  BY <1>3, <1>6, <1>7 DEF Always, Numbered, QueueCurrent, Current, Fresh

LEMMA ForgetKeepsAlways ==
  ASSUME Always, Forget
  PROVE  Always'
<1>1. /\ request' = [request EXCEPT ![Late] = NoRequest]
      /\ UNCHANGED <<local, queue, nextId, dropped, cloud, pass, incidents, overlap>>
  BY DEF Forget, user, mishaps
<1>2. request \in [Coordinators \cup {Late} -> {NoRequest} \cup Request]
  BY DEF Always, TypeOK
<1>3. request' \in [Coordinators \cup {Late} -> {NoRequest} \cup Request]
      /\ \A c \in Coordinators : request'[c] = request[c]
  BY <1>1, <1>2, CoordinatorAssumption
<1>4. TypeOK'
  BY <1>1, <1>3 DEF Always, TypeOK
<1> QED  BY <1>1, <1>3, <1>4 DEF Always, Numbered, QueueCurrent, Current, Fresh, Phases

LEMMA AlwaysStep ==
  ASSUME Always, [Next]_vars
  PROVE  Always'
<1>1. ASSUME Owner PROVE Always'
  <2>1. ASSUME NEW e \in Entities, OwnerWrote(e) PROVE Always'
    BY <2>1, OwnerWroteKeepsAlways
  <2>2. CASE \E r \in queue : Retry(r) \/ Drop(r)
    BY <2>2, RetryOrDropKeepsAlways
  <2> QED  BY <1>1, <2>1, <2>2, OwnerWrites DEF Owner, Entities
<1>2. ASSUME NEW c \in Coordinators, Advance(c) \/ GiveUp(c) PROVE Always'
  BY <1>2, StartKeepsAlways, CollectKeepsAlways, FinishKeepsAlways, SendKeepsAlways,
     ReceiveKeepsAlways, GivingUpKeepsAlways DEF Advance
<1>3. ASSUME NEW x \in Coordinators \cup {Late}, Serve(x) PROVE Always'
  BY <1>3, ServeKeepsAlways
<1>4. CASE Forget
  BY <1>4, ForgetKeepsAlways
<1>5. CASE UNCHANGED vars
  BY <1>5 DEF vars, mishaps, Always, TypeOK, Numbered, QueueCurrent, Current, Fresh, Phases
<1> QED  BY <1>1, <1>2, <1>3, <1>4, <1>5 DEF Next

(***************************************************************************)
(* The part of the invariant that holds until requests overlap.            *)
(***************************************************************************)
\* What is in flight are rows, the ones the server has yet to take among them.
LEMMA FlightFacts ==
  ASSUME Always, NEW c \in Coordinators
  PROVE  /\ Flight(c) \subseteq Row
         /\ Divided => Ahead(c) \subseteq Flight(c)
         /\ Divided /\ pass[c].at = "wait" =>
              request[c].applied \subseteq Flight(c) /\ request[c].rows \subseteq Flight(c)
         /\ pass[c].at \in {"idle", "ready"} => Flight(c) = {} /\ Ahead(c) = {}
         /\ pass[c].at = "batch" => Flight(c) = pass[c].todo /\ Ahead(c) = pass[c].todo
<1>1. pass[c].todo \subseteq Row
  BY PassFacts
<1>2. pass[c].at = "wait" => request[c].rows \subseteq Row
  BY PassFacts, RequestFields
<1>3. pass[c].at \in {"idle", "ready"} => pass[c].todo = {}
  BY DEF Always, Phases
<1> QED  BY <1>1, <1>2, <1>3 DEF Flight, Ahead, Divided

LEMMA OrderlyInit == Init => Orderly
<1> SUFFICES ASSUME Init PROVE Orderly
  OBVIOUS
<1>1. \A c \in Coordinators : pass[c].at = "idle" /\ Flight(c) = {} /\ Ahead(c) = {}
  BY DEF Init, Idle, Flight, Ahead
<1>2. request[Late] = NoRequest
  BY DEF Init
<1>3. \A e \in Entities : local[e] = [status |-> "none", version |-> 0] /\ cloud[e] = local[e]
  BY DEF Init
<1>4. Alone /\ Divided
  BY <1>1, <1>2 DEF Alone, Divided, NotRunning
<1>5. OneEach /\ SameRow /\ Superseded /\ SaidBefore /\ AheadIsNewer /\ AppliedDelivered
  BY <1>1 DEF OneEach, SameRow, Superseded, SaidBefore, AheadIsNewer, AppliedDelivered
<1>6. CloudBehind /\ Kept
  BY <1>3 DEF CloudBehind, Kept
<1> QED  BY <1>4, <1>5, <1>6 DEF Orderly

LEMMA OwnerWroteKeepsOrderly ==
  ASSUME Always, Orderly, NEW e \in Entities, OwnerWrote(e)
  PROVE  Orderly'
<1> USE DEF Orderly
<1>1. PICK kind \in {"put", "delete"}, version \in Nat, content \in Content :
        /\ queue' = {r \in queue : r.of # e} \cup
                      {[id |-> nextId, kind |-> kind, of |-> e, version |-> version,
                        attempts |-> 0]}
        /\ local' = [local EXCEPT ![e] = content]
        /\ content.version >= local[e].version
        /\ content.status # "none"
        /\ local[e].status # "gone"
        /\ nextId' = nextId + 1
        /\ dropped' = dropped \ {e}
        /\ UNCHANGED <<cloud, pass, request>>
  BY DEF OwnerWrote
<1> DEFINE row == [id |-> nextId, kind |-> kind, of |-> e, version |-> version, attempts |-> 0]
<1>2. row.id = nextId /\ row.of = e
  OBVIOUS
<1> HIDE DEF row
<1>3. queue' = {r \in queue : r.of # e} \cup {row}
  BY <1>1 DEF row
<1>4. \A c \in Coordinators : Flight(c)' = Flight(c) /\ Ahead(c)' = Ahead(c)
  BY <1>1 DEF Flight, Ahead
<1>5. \A c \in Coordinators : \A r \in Flight(c) :
        r.id \in Nat /\ r.of \in Entities /\ r.version \in Nat
  BY FlightFacts, RowFields
<1>6. nextId \in Nat /\ local \in [Entities -> Content] /\ cloud \in [Entities -> Content]
  BY DEF Always, TypeOK
<1>7. \A f \in Entities : /\ local[f].version \in Nat /\ cloud[f].version \in Nat
                          /\ f # e => local'[f] = local[f]
  BY <1>1, <1>6 DEF Content
<1>8. local'[e] = content /\ content.version \in Nat
  BY <1>1, <1>6 DEF Content
<1>a. Alone' /\ Divided' /\ OneEach'
  BY <1>1, <1>4 DEF Alone, NotRunning, Divided, OneEach
<1>b. SameRow'
  BY <1>1, <1>2, <1>3, <1>4, <1>5, <1>6 DEF SameRow
<1>c. Superseded'
  <2> SUFFICES ASSUME NEW c \in Coordinators, NEW r \in Flight(c)
               PROVE  r.of \in dropped' \/ \E q \in queue' : q.of = r.of
    BY <1>4 DEF Superseded
  <2>1. CASE r.of = e
    BY <1>2, <1>3, <2>1
  <2>2. CASE r.of # e
    BY <1>1, <1>3, <2>2 DEF Superseded
  <2> QED  BY <2>1, <2>2
<1>d. SaidBefore'
  <2> SUFFICES ASSUME NEW c \in Coordinators, NEW r \in Flight(c)
               PROVE  IF r.kind = "delete" THEN local'[r.of].status = "gone"
                      ELSE r.version <= local'[r.of].version
    BY <1>4 DEF SaidBefore
  <2>1. IF r.kind = "delete" THEN local[r.of].status = "gone"
        ELSE r.version <= local[r.of].version
    BY DEF SaidBefore
  <2> QED  BY <1>1, <1>5, <1>7, <1>8, <2>1
<1>e. CloudBehind'
  BY <1>1, <1>7, <1>8 DEF CloudBehind
<1>f. AheadIsNewer'
  BY <1>1, <1>4 DEF AheadIsNewer
<1>g. AppliedDelivered'
  <2> SUFFICES ASSUME NEW c \in Coordinators, pass[c].at = "wait",
                      NEW a \in request[c].applied, NEW q \in queue', q.id = a.id
               PROVE  Delivered(a.of)'
    BY <1>1 DEF AppliedDelivered
  <2>1. a \in Flight(c)
    BY FlightFacts
  <2>2. a.id < nextId /\ a.of \in Entities
    BY <1>5, <2>1 DEF SameRow
  <2>3. q \in queue /\ q.of # e
    BY <1>2, <1>3, <1>6, <2>2
  <2>4. a.of # e
    BY <2>1, <2>3 DEF SameRow
  <2>5. Delivered(a.of)
    BY <2>3 DEF AppliedDelivered
  <2> QED  BY <1>1, <1>7, <2>2, <2>4, <2>5 DEF Delivered
<1>h. Kept'
  <2> SUFFICES ASSUME NEW f \in Entities \ dropped'
               PROVE  local'[f].status = "none" \/ (\E q \in queue' : q.of = f) \/ Delivered(f)'
    BY DEF Kept
  <2>1. CASE f = e
    BY <1>2, <1>3, <2>1
  <2>2. CASE f # e
    <3>1. local[f].status = "none" \/ (\E q \in queue : q.of = f) \/ Delivered(f)
      BY <1>1, <2>2 DEF Kept
    <3>2. local'[f] = local[f] /\ cloud'[f] = cloud[f]
      BY <1>1, <1>7, <2>2
    <3> QED  BY <1>3, <2>2, <3>1, <3>2 DEF Delivered
  <2> QED  BY <2>1, <2>2
<1> QED  BY <1>a, <1>b, <1>c, <1>d, <1>e, <1>f, <1>g, <1>h

\* Rows that stay in the outbox keep their meaning for what is in flight.
LEMMA ThinnedKeepsSameRow ==
  ASSUME SameRow, QueueThinned, UNCHANGED nextId,
         \A c \in Coordinators : Flight(c)' \subseteq Flight(c)
  PROVE  SameRow'
<1> SUFFICES ASSUME NEW c \in Coordinators, NEW r \in Flight(c)'
             PROVE  /\ r.id < nextId'
                    /\ \A q \in queue' : q.id = r.id =>
                         q.kind = r.kind /\ q.of = r.of /\ q.version = r.version
  BY DEF SameRow
<1>1. r \in Flight(c)
  OBVIOUS
<1>2. ASSUME NEW q \in queue', q.id = r.id
      PROVE  q.kind = r.kind /\ q.of = r.of /\ q.version = r.version
  <2>1. PICK p \in queue : p.id = q.id /\ p.kind = q.kind /\ p.of = q.of /\ p.version = q.version
    BY DEF QueueThinned
  <2> QED  BY <1>1, <1>2, <2>1 DEF SameRow
<1> QED  BY <1>1, <1>2 DEF SameRow

LEMMA RetryOrDropKeepsOrderly ==
  ASSUME Always, Orderly, NEW r \in queue, Retry(r) \/ Drop(r)
  PROVE  Orderly'
<1> USE DEF Orderly
<1>1. /\ UNCHANGED <<local, nextId, cloud, pass, request>>
      /\ QueueThinned
  BY OwnerThins DEF Retry, Drop
<1>2. /\ dropped \subseteq dropped'
      /\ \A q \in queue : q.of \in dropped' \/ \E p \in queue' : p.of = q.of
  <2>1. CASE Retry(r)
    BY <2>1, OwnerThins DEF Retry
  <2>2. CASE Drop(r)
    BY <2>2 DEF Drop
  <2> QED  BY <2>1, <2>2
<1>3. \A c \in Coordinators : Flight(c)' = Flight(c) /\ Ahead(c)' = Ahead(c)
  BY <1>1 DEF Flight, Ahead
<1>a. Alone' /\ Divided' /\ OneEach' /\ SaidBefore' /\ CloudBehind' /\ AheadIsNewer'
  BY <1>1, <1>3 DEF Alone, NotRunning, Divided, OneEach, SaidBefore, CloudBehind, AheadIsNewer
<1>b. SameRow'
  BY <1>1, <1>3, ThinnedKeepsSameRow
<1>c. Superseded'
  BY <1>2, <1>3 DEF Superseded
<1>d. AppliedDelivered'
  <2> SUFFICES ASSUME NEW c \in Coordinators, pass[c].at = "wait",
                      NEW a \in request[c].applied, NEW q \in queue', q.id = a.id
               PROVE  Delivered(a.of)'
    BY <1>1 DEF AppliedDelivered
  <2>1. PICK p \in queue : p.id = q.id
    BY <1>1 DEF QueueThinned
  <2>2. Delivered(a.of)
    BY <2>1 DEF AppliedDelivered
  <2> QED  BY <1>1, <2>2 DEF Delivered
<1>e. Kept'
  <2> SUFFICES ASSUME NEW f \in Entities \ dropped'
               PROVE  local[f].status = "none" \/ (\E q \in queue' : q.of = f) \/ Delivered(f)
    BY <1>1 DEF Kept, Delivered
  <2>1. local[f].status = "none" \/ (\E q \in queue : q.of = f) \/ Delivered(f)
    BY <1>2 DEF Kept
  <2> QED  BY <1>2, <2>1
<1> QED  BY <1>a, <1>b, <1>c, <1>d, <1>e

LEMMA StartKeepsOrderly ==
  ASSUME Always, Always', Orderly, NEW c \in Coordinators, Start(c), ~overlap'
  PROVE  Orderly'
<1> USE DEF Orderly
<1>1. /\ pass' = [pass EXCEPT ![c] = [Idle EXCEPT !.at = "ready"]]
      /\ UNCHANGED <<local, queue, nextId, dropped, cloud, request>>
      /\ pass[c].at = "idle" /\ \A d \in Coordinators \ {c} : NotRunning(d)
  BY DEF Start, Enter, NotRunning, user
<1>2. \A d \in Coordinators : d # c => pass'[d] = pass[d]
  BY <1>1, PassFacts
<1>3. pass'[c].at = "ready"
  BY <1>1, PassFacts, IdlePasses
<1>4. \A d \in Coordinators : pass'[d].at \in {"idle", "ready"}
  BY <1>1, <1>2, <1>3 DEF NotRunning
<1>5. \A d \in Coordinators : Flight(d)' = {} /\ Ahead(d)' = {}
  BY <1>4 DEF Always, Phases, Flight, Ahead
<1>a. Alone' /\ Divided'
  BY <1>1, <1>2, <1>4 DEF Alone, NotRunning, Divided
<1>b. OneEach' /\ SameRow' /\ Superseded' /\ SaidBefore' /\ AheadIsNewer' /\ AppliedDelivered'
  BY <1>4, <1>5 DEF OneEach, SameRow, Superseded, SaidBefore, AheadIsNewer, AppliedDelivered
<1>c. CloudBehind' /\ Kept'
  BY <1>1 DEF CloudBehind, Kept, Delivered
<1> QED  BY <1>a, <1>b, <1>c

LEMMA CollectKeepsOrderly ==
  ASSUME Always, Always', Orderly, NEW c \in Coordinators, Collect(c)
  PROVE  Orderly'
<1> USE DEF Orderly
<1> DEFINE batch == Oldest(Pending, BatchSize)
<1>1. /\ pass' = [pass EXCEPT ![c] = [at |-> "batch", batch |-> pass[c].batch, todo |-> batch,
                                      accepted |-> FALSE]]
      /\ UNCHANGED <<local, queue, nextId, dropped, cloud, request>>
      /\ pass[c].at = "ready"
  BY DEF Collect, Enter, user
<1>2. batch \subseteq queue
  BY DEF Oldest, Pending
<1> HIDE DEF batch
<1>3. \A d \in Coordinators : d # c => pass'[d] = pass[d] /\ pass[d].at = "idle"
  BY <1>1, PassFacts DEF Alone, NotRunning
<1>4. pass'[c].at = "batch" /\ pass'[c].todo = batch
  BY <1>1, PassFacts
<1>5. \A d \in Coordinators : /\ Flight(d)' = (IF d = c THEN batch ELSE {})
                              /\ Ahead(d)' = (IF d = c THEN batch ELSE {})
  BY <1>3, <1>4 DEF Always, Phases, Flight, Ahead
<1>6. \A r \in batch : r \in queue /\ r \in Row /\ r.of \in Entities /\ r.id < nextId
                       /\ r.version \in Nat /\ r.kind \in {"put", "delete"}
  BY <1>2, RowFields DEF Always, TypeOK, Numbered
<1>7. \A e \in Entities : local[e].version \in Nat /\ cloud[e].version \in Nat
  BY DEF Always, TypeOK, Content
<1>a. Alone' /\ Divided' /\ AppliedDelivered'
  BY <1>1, <1>3, <1>4 DEF Alone, NotRunning, Divided, AppliedDelivered
<1>b. OneEach'
  <2> SUFFICES ASSUME NEW r \in batch, NEW q \in batch, r.of = q.of PROVE r = q
    BY <1>5 DEF OneEach
  <2>1. Current(r) /\ Current(q)
    BY <1>6 DEF Always, QueueCurrent
  <2>2. r.kind = q.kind
    BY <1>6, <2>1 DEF Current
  <2> QED  BY <1>6, <2>2 DEF Always, TypeOK
<1>c. SameRow'
  BY <1>1, <1>5, <1>6 DEF SameRow, Always, TypeOK
<1>d. Superseded'
  BY <1>1, <1>5, <1>6 DEF Superseded
<1>e. ASSUME NEW r \in batch
      PROVE  IF r.kind = "delete" THEN local[r.of].status = "gone"
             ELSE local[r.of].status = "live" /\ local[r.of].version = r.version
  <2>1. Current(r)
    BY <1>6 DEF Always, QueueCurrent
  <2> QED  BY <2>1 DEF Current
<1>f. SaidBefore'
  <2>1. \A r \in batch : IF r.kind = "delete" THEN local[r.of].status = "gone"
                         ELSE r.version <= local[r.of].version
    BY <1>6, <1>7, <1>e
  <2> QED  BY <1>1, <1>5, <2>1 DEF SaidBefore
<1>g. AheadIsNewer'
  <2>1. \A r \in batch :
          r.kind = "put" => cloud[r.of].version <= r.version /\ cloud[r.of].status # "gone"
    <3> SUFFICES ASSUME NEW r \in batch, r.kind = "put"
                 PROVE  cloud[r.of].version <= r.version /\ cloud[r.of].status # "gone"
      OBVIOUS
    <3>1. r.of \in Entities /\ local[r.of].status = "live" /\ local[r.of].version = r.version
      BY <1>6, <1>e
    <3> QED  BY <3>1 DEF CloudBehind
  <2> QED  BY <1>1, <1>5, <2>1 DEF AheadIsNewer
<1>h. CloudBehind' /\ Kept'
  BY <1>1 DEF CloudBehind, Kept, Delivered
<1> QED  BY <1>a, <1>b, <1>c, <1>d, <1>f, <1>g, <1>h

LEMMA SendKeepsOrderly ==
  ASSUME Always, Orderly, NEW c \in Coordinators, Send(c)
  PROVE  Orderly'
<1> USE DEF Orderly
<1>0. PICK group \in SUBSET Row, store \in Stores : SentGroup(c, group, store)
  BY SendFacts
<1>1. UNCHANGED <<local, queue, nextId, dropped, cloud>> /\ pass[c].at = "batch"
      /\ group \subseteq pass[c].todo
  BY <1>0 DEF SentGroup
<1>2. /\ pass'[c].at = "wait" /\ pass'[c].todo = pass[c].todo \ group
      /\ request'[c].rows = group /\ request'[c].todo = group /\ request'[c].applied = {}
      /\ request'[Late] = request[Late]
      /\ \A d \in Coordinators : d # c => pass'[d] = pass[d] /\ request'[d] = request[d]
  <2>1. pass \in [Coordinators -> PassType] /\ c # Late
        /\ request \in [Coordinators \cup {Late} -> {NoRequest} \cup Request]
    BY PassFacts DEF Always, TypeOK
  <2>2. pass[c] \in PassType
    BY <2>1
  <2>3. pass'[c] = [pass[c] EXCEPT !.at = "wait", !.todo = @ \ group]
    BY <1>0, <2>1 DEF SentGroup
  <2>4. pass'[c].at = "wait" /\ pass'[c].todo = pass[c].todo \ group
    BY <2>2, <2>3 DEF PassType
  <2>5. request'[c] = [store |-> store, rows |-> group, todo |-> group, applied |-> {}]
    BY <1>0, <2>1 DEF SentGroup
  <2> QED  BY <1>0, <2>1, <2>4, <2>5 DEF SentGroup
<1>3. \A d \in Coordinators : Flight(d)' = Flight(d) /\ Ahead(d)' = Ahead(d)
  BY <1>1, <1>2 DEF Flight, Ahead
<1>a. Alone' /\ Divided'
  BY <1>1, <1>2 DEF Alone, NotRunning, Divided
<1>b. OneEach' /\ SameRow' /\ Superseded' /\ SaidBefore' /\ AheadIsNewer' /\ CloudBehind' /\ Kept'
  BY <1>1, <1>3 DEF OneEach, SameRow, Superseded, SaidBefore, AheadIsNewer, CloudBehind, Kept,
     Delivered
<1>c. AppliedDelivered'
  BY <1>1, <1>2 DEF AppliedDelivered, Delivered
<1> QED  BY <1>a, <1>b, <1>c

LEMMA FinishKeepsOrderly ==
  ASSUME Always, Orderly, NEW c \in Coordinators, Finish(c)
  PROVE  Orderly'
<1> USE DEF Orderly
<1>1. /\ pass' = [pass EXCEPT ![c] = Idle] /\ pass[c].at = "ready"
      /\ UNCHANGED <<local, queue, nextId, dropped, cloud, request>>
  BY DEF Finish, Enter, user
<1>2. /\ pass'[c].at = "idle" /\ pass'[c].todo = {} /\ pass[c].todo = {}
      /\ \A d \in Coordinators : d # c => pass'[d] = pass[d]
  BY <1>1, PassFacts, IdlePasses DEF Always, Phases
<1>3. \A d \in Coordinators : Flight(d)' = Flight(d) /\ Ahead(d)' = Ahead(d)
  BY <1>1, <1>2 DEF Flight, Ahead
<1>a. Alone' /\ Divided' /\ AppliedDelivered'
  BY <1>1, <1>2 DEF Alone, NotRunning, Divided, AppliedDelivered, Delivered
<1>b. OneEach' /\ SameRow' /\ Superseded' /\ SaidBefore' /\ AheadIsNewer' /\ CloudBehind' /\ Kept'
  BY <1>1, <1>3 DEF OneEach, SameRow, Superseded, SaidBefore, AheadIsNewer, CloudBehind, Kept,
     Delivered
<1> QED  BY <1>a, <1>b

LEMMA ReceiveKeepsOrderly ==
  ASSUME Always, Orderly, NEW c \in Coordinators, Receive(c)
  PROVE  Orderly'
<1> USE DEF Orderly
<1> DEFINE applied == request[c].applied
           p == AfterAnswer(pass[c], applied)
<1>1. pass[c].at = "wait" /\ request[c] \in Request /\ pass[c] \in PassType
      /\ pass[c].batch < MaxBatches
  BY PassFacts DEF Receive, Always, Phases
<1>2. /\ queue' = Answered(queue, applied, request[c].rows \ applied)
      /\ pass' = [pass EXCEPT ![c] = p]
      /\ request' = [request EXCEPT ![c] = NoRequest]
      /\ UNCHANGED <<local, nextId, dropped, cloud>>
  BY DEF Receive, Enter
<1>3. p.todo = pass[c].todo /\ p.at # "wait"
  BY <1>1, AfterAnswerFacts
<1> HIDE DEF p
<1>4. /\ QueueThinned
      /\ \A r \in queue : (~\E a \in applied : a.id = r.id) =>
           \E q \in queue' : q.id = r.id /\ q.of = r.of
  <2>1. applied \in SUBSET Row /\ request[c].rows \ applied \in SUBSET Row
    BY <1>1, RequestFields
  <2> HIDE DEF applied
  <2> QED  BY <1>2, <2>1, AnsweredThins
<1> HIDE DEF applied
<1>5. /\ pass'[c] = p /\ request'[Late] = request[Late]
      /\ \A d \in Coordinators : d # c => pass'[d] = pass[d] /\ request'[d] = request[d]
                                          /\ pass[d].at = "idle"
  <2>1. request \in [Coordinators \cup {Late} -> {NoRequest} \cup Request]
        /\ pass \in [Coordinators -> PassType] /\ c # Late
    BY PassFacts DEF Always, TypeOK
  <2> QED  BY <1>1, <1>2, <2>1, CoordinatorAssumption DEF Alone, NotRunning
<1>6. \A d \in Coordinators : Flight(d)' = (IF d = c THEN pass[c].todo ELSE {})
                              /\ Ahead(d)' = (IF d = c THEN pass[c].todo ELSE {})
  BY <1>3, <1>5 DEF Flight, Ahead, Always, Phases
<1>7. \A d \in Coordinators : Flight(d)' \subseteq Flight(d) /\ Ahead(d)' \subseteq Ahead(d)
  BY <1>6 DEF Flight, Ahead
<1>a. Alone' /\ Divided' /\ AppliedDelivered'
  BY <1>3, <1>5 DEF Alone, NotRunning, Divided, AppliedDelivered
<1>b. OneEach' /\ SaidBefore' /\ AheadIsNewer' /\ CloudBehind'
  BY <1>2, <1>7 DEF OneEach, SaidBefore, AheadIsNewer, CloudBehind
<1>c. SameRow'
  BY <1>2, <1>4, <1>7, ThinnedKeepsSameRow
<1>d. Superseded'
  <2> SUFFICES ASSUME NEW r \in pass[c].todo, r.of \notin dropped
               PROVE  \E q \in queue' : q.of = r.of
    BY <1>2, <1>6 DEF Superseded
  <2>1. r \in Flight(c)
    BY DEF Flight
  <2>2. PICK q \in queue : q.of = r.of
    BY <2>1 DEF Superseded
  <2>3. ASSUME NEW a \in applied, a.id = q.id PROVE FALSE
    <3>1. a \in Flight(c) /\ a \in request[c].rows
      BY <1>1, FlightFacts DEF applied, Divided
    <3>2. a.of = r.of
      BY <2>2, <2>3, <3>1 DEF SameRow
    <3>3. a = r
      BY <2>1, <3>1, <3>2 DEF OneEach
    <3> QED  BY <1>1, <3>1, <3>3 DEF Divided
  <2> QED  BY <1>4, <2>2, <2>3
<1>e. Kept'
  <2> SUFFICES ASSUME NEW e \in Entities \ dropped
               PROVE  local[e].status = "none" \/ (\E q \in queue' : q.of = e) \/ Delivered(e)
    BY <1>2 DEF Kept, Delivered
  <2>1. local[e].status = "none" \/ (\E q \in queue : q.of = e) \/ Delivered(e)
    BY DEF Kept
  <2>2. ASSUME NEW q \in queue, q.of = e, NEW a \in applied, a.id = q.id
        PROVE  Delivered(e)
    <3>1. a \in Flight(c)
      BY <1>1, FlightFacts DEF applied
    <3>2. a.of = e
      BY <2>2, <3>1 DEF SameRow
    <3> QED  BY <1>1, <2>2, <3>2 DEF AppliedDelivered, applied
  <2> QED  BY <1>4, <2>1, <2>2
<1> QED  BY <1>a, <1>b, <1>c, <1>d, <1>e

LEMMA GivingUpKeepsOrderly ==
  ASSUME Always, Orderly, NEW c \in Coordinators, PushRefused(c) \/ GiveUp(c), ~overlap'
  PROVE  Orderly'
<1> USE DEF Orderly
<1>1. /\ pass' = [pass EXCEPT ![c] = Idle]
      /\ request' = [request EXCEPT ![c] = NoRequest]
      /\ UNCHANGED <<local, queue, nextId, dropped, cloud>>
  BY DEF PushRefused, GiveUp, Enter, user
<1>2. /\ pass'[c].at = "idle" /\ pass'[c].todo = {} /\ request'[Late] = request[Late]
      /\ \A d \in Coordinators : d # c => pass'[d] = pass[d] /\ request'[d] = request[d]
  <2>1. request \in [Coordinators \cup {Late} -> {NoRequest} \cup Request]
        /\ pass \in [Coordinators -> PassType] /\ c # Late
    BY PassFacts DEF Always, TypeOK
  <2> QED  BY <1>1, <2>1, IdlePasses
<1>3. \A d \in Coordinators : /\ Flight(d)' = (IF d = c THEN {} ELSE Flight(d))
                              /\ Ahead(d)' = (IF d = c THEN {} ELSE Ahead(d))
  BY <1>2 DEF Flight, Ahead
<1>a. Alone' /\ Divided' /\ AppliedDelivered'
  BY <1>1, <1>2 DEF Alone, NotRunning, Divided, AppliedDelivered, Delivered
<1>b. OneEach' /\ SameRow' /\ Superseded' /\ SaidBefore' /\ AheadIsNewer' /\ CloudBehind' /\ Kept'
  BY <1>1, <1>3 DEF OneEach, SameRow, Superseded, SaidBefore, AheadIsNewer, CloudBehind, Kept,
     Delivered
<1> QED  BY <1>a, <1>b

\* With requests one after the other the row the server takes is of the one
\* coordinator that waits, and the only one in flight about its entry.
OnlyRow(x, r, ok) ==
  /\ x \in Coordinators /\ pass[x].at = "wait"
  /\ r \in Ahead(x) /\ r \in Flight(x)
  /\ \A d \in Coordinators : d # x => Flight(d) = {} /\ Ahead(d) = {} /\ pass[d].at = "idle"
  /\ \A d \in Coordinators : Flight(d)' = Flight(d) /\ pass'[d] = pass[d]
  /\ Ahead(x)' \subseteq Ahead(x) \ {r}
  /\ \A q \in Ahead(x)' : q.of # r.of
  /\ request'[x].applied = IF ok THEN request[x].applied \cup {r} ELSE request[x].applied
  /\ request'[x].todo = request[x].todo \ {r}
  /\ request'[x].rows = request[x].rows
  /\ request'[x].store = request[x].store
  /\ \A d \in Coordinators \cup {Late} : d # x => request'[d] = request[d]

LEMMA TookRowFacts ==
  ASSUME Always, Orderly, NEW x \in Coordinators \cup {Late}, NEW r \in Row,
         NEW ok \in BOOLEAN, TookRow(x, r, ok)
  PROVE  OnlyRow(x, r, ok)
<1> USE DEF Orderly
<1>1. request[x] \in Request /\ request[x] # NoRequest /\ r \in request[x].todo
      /\ UNCHANGED <<local, queue, nextId, dropped, pass, overlap>>
  BY RequestFields DEF TookRow
<1>2. x \in Coordinators
  BY <1>1 DEF Alone
<1>3. pass[x].at = "wait"
  BY <1>1, <1>2 DEF Always, Phases
<1>4. r \in Ahead(x) /\ r \in Flight(x)
  BY <1>1, <1>2, <1>3, FlightFacts DEF Ahead
<1>5. \A d \in Coordinators : d # x => Flight(d) = {} /\ Ahead(d) = {} /\ pass[d].at = "idle"
  <2>1. \A d \in Coordinators : d # x => pass[d].at = "idle"
    BY <1>2, <1>3 DEF Alone, NotRunning
  <2> QED  BY <2>1, FlightFacts
<1>6. request \in [Coordinators \cup {Late} -> {NoRequest} \cup Request]
  BY DEF Always, TypeOK
<1>7. /\ request'[x].applied = IF ok THEN request[x].applied \cup {r} ELSE request[x].applied
      /\ request'[x].todo = request[x].todo \ {r}
      /\ request'[x].rows = request[x].rows
      /\ request'[x].store = request[x].store
  <2> DEFINE y == [store |-> request[x].store, rows |-> request[x].rows,
                   todo |-> request[x].todo \ {r},
                   applied |-> IF ok THEN request[x].applied \cup {r} ELSE request[x].applied]
  <2>1. request'[x] = y
    BY <1>6 DEF TookRow
  <2> QED  BY <2>1
<1>8. \A d \in Coordinators \cup {Late} : d # x => request'[d] = request[d]
  BY <1>6 DEF TookRow
<1>9. \A d \in Coordinators : Flight(d)' = Flight(d) /\ pass'[d] = pass[d]
  BY <1>1, <1>7, <1>8 DEF Flight
<1>10. Ahead(x)' \subseteq Ahead(x) \ {r}
  <2>1. r \notin pass[x].todo
    BY <1>1, <1>2, <1>3 DEF Divided
  <2> QED  BY <1>1, <1>3, <1>7, <2>1 DEF Ahead
<1>11. \A q \in Ahead(x)' : q.of # r.of
  <2> SUFFICES ASSUME NEW q \in Ahead(x)', q.of = r.of PROVE FALSE
    OBVIOUS
  <2>1. q \in Flight(x) /\ q # r
    BY <1>2, <1>10, FlightFacts
  <2> QED  BY <1>2, <1>4, <2>1 DEF OneEach
<1> QED  BY <1>2, <1>3, <1>4, <1>5, <1>7, <1>8, <1>9, <1>10, <1>11 DEF OnlyRow

LEMMA ServeKeepsOrderly ==
  ASSUME Always, Orderly, NEW x \in Coordinators \cup {Late}, Serve(x)
  PROVE  Orderly'
<1>0. PICK r \in Row, ok \in BOOLEAN : TookRow(x, r, ok)
  BY ServeFacts
<1>9. OnlyRow(x, r, ok)
  BY <1>0, TookRowFacts
<1> USE DEF Orderly
<1>1. /\ x \in Coordinators /\ pass[x].at = "wait"
      /\ r \in Ahead(x) /\ r \in Flight(x)
      /\ \A d \in Coordinators : d # x => Flight(d) = {} /\ Ahead(d) = {} /\ pass[d].at = "idle"
      /\ \A d \in Coordinators : Flight(d)' = Flight(d) /\ pass'[d] = pass[d]
      /\ Ahead(x)' \subseteq Ahead(x) \ {r}
      /\ \A q \in Ahead(x)' : q.of # r.of
      /\ request'[x].applied = IF ok THEN request[x].applied \cup {r} ELSE request[x].applied
      /\ request'[x].todo = request[x].todo \ {r}
      /\ request'[x].rows = request[x].rows
      /\ \A d \in Coordinators \cup {Late} : d # x => request'[d] = request[d]
  BY <1>9 DEF OnlyRow
<1>2. /\ UNCHANGED <<local, queue, nextId, dropped, pass>>
      /\ r \in request[x].todo
      /\ IF ok THEN cloud' = [cloud EXCEPT ![r.of] = Applied(cloud[r.of], r)]
         ELSE UNCHANGED cloud
  BY <1>0 DEF TookRow
<1>3. r.of \in Entities /\ r.kind \in {"put", "delete"} /\ r.version \in Nat
  BY RowFields
<1>4. cloud \in [Entities -> Content] /\ local \in [Entities -> Content]
  BY DEF Always, TypeOK
<1>5. \A e \in Entities : e # r.of => cloud'[e] = cloud[e]
  BY <1>2, <1>4
<1>6. \A d \in Coordinators : Ahead(d)' \subseteq Ahead(d)
  BY <1>1, <1>2 DEF Ahead
\* What the row makes of its entry.
<1>7. /\ IF r.kind = "delete" THEN local[r.of].status = "gone"
         ELSE r.version <= local[r.of].version
      /\ r.kind = "put" => cloud[r.of].status # "gone" /\ cloud[r.of].version <= r.version
  BY <1>1 DEF SaidBefore, AheadIsNewer
<1>8. ok => /\ r.kind = "put" => cloud'[r.of] = [status |-> "live", version |-> r.version]
            /\ r.kind = "delete" => cloud'[r.of].status # "live"
                                    /\ cloud'[r.of].version = cloud[r.of].version
  <2> SUFFICES ASSUME ok
               PROVE  /\ r.kind = "put" =>
                           cloud'[r.of] = [status |-> "live", version |-> r.version]
                      /\ r.kind = "delete" => cloud'[r.of].status # "live"
                                              /\ cloud'[r.of].version = cloud[r.of].version
    OBVIOUS
  <2>1. cloud'[r.of] = Applied(cloud[r.of], r) /\ cloud[r.of] \in Content
    BY <1>2, <1>3, <1>4
  <2> QED  BY <1>7, <2>1, AppliedFacts
<1>a. Alone'
  BY <1>1, <1>2, CoordinatorAssumption DEF Alone, NotRunning
<1>b. Divided'
  <2> SUFFICES ASSUME NEW c \in Coordinators, pass[c].at = "wait"
               PROVE  /\ request'[c].todo \subseteq request'[c].rows
                      /\ request'[c].applied \subseteq request'[c].rows
                      /\ request'[c].todo \cap request'[c].applied = {}
                      /\ pass[c].todo \cap request'[c].rows = {}
    BY <1>2 DEF Divided
  <2>1. c = x
    BY <1>1
  <2> QED  BY <1>1, <1>2, <2>1 DEF Divided
<1>c. OneEach' /\ SameRow' /\ Superseded' /\ SaidBefore'
  BY <1>1, <1>2 DEF OneEach, SameRow, Superseded, SaidBefore
<1>d. CloudBehind'
  <2> SUFFICES ASSUME NEW e \in Entities
               PROVE  /\ cloud'[e].version <= local[e].version
                      /\ cloud'[e].status = "gone" => local[e].status = "gone"
    BY <1>2 DEF CloudBehind
  <2>1. CASE e = r.of /\ ok
    BY <1>3, <1>7, <1>8, <2>1 DEF CloudBehind
  <2>2. CASE ~(e = r.of /\ ok)
    <3>1. cloud'[e] = cloud[e]
      BY <1>2, <1>5, <2>2
    <3> QED  BY <3>1 DEF CloudBehind
  <2> QED  BY <2>1, <2>2
<1>e. AheadIsNewer'
  <2> SUFFICES ASSUME NEW c \in Coordinators, NEW q \in Ahead(c)', q.kind = "put"
               PROVE  cloud'[q.of].version <= q.version /\ cloud'[q.of].status # "gone"
    BY DEF AheadIsNewer
  <2>1. c = x /\ q \in Ahead(c) /\ q.of # r.of
    BY <1>1, <1>6
  <2>2. q.of \in Entities
    BY <2>1, FlightFacts, RowFields
  <2> QED  BY <1>5, <2>1, <2>2 DEF AheadIsNewer
<1>f. AppliedDelivered'
  <2> SUFFICES ASSUME NEW c \in Coordinators, pass[c].at = "wait",
                      NEW a \in request'[c].applied, NEW q \in queue, q.id = a.id
               PROVE  Delivered(a.of)'
    BY <1>2 DEF AppliedDelivered
  <2>1. c = x
    BY <1>1
  <2>2. CASE a = r /\ ok
    <3>1. q.kind = r.kind /\ q.of = r.of /\ q.version = r.version
      BY <1>1, <2>2 DEF SameRow
    <3>2. IF r.kind = "delete" THEN local[r.of].status = "gone"
          ELSE local[r.of] = [status |-> "live", version |-> r.version]
      BY <3>1 DEF Always, QueueCurrent, Current
    <3>3. IF local[r.of].status = "gone" THEN cloud'[r.of].status # "live"
          ELSE cloud'[r.of] = local[r.of]
      BY <1>3, <1>8, <2>2, <3>2
    <3> QED  BY <1>2, <2>2, <3>3 DEF Delivered
  <2>3. CASE ~(a = r /\ ok)
    <3>1. a \in request[x].applied
      BY <1>1, <2>1, <2>3
    <3>2. a \in Flight(x) /\ a # r
      BY <1>1, <1>2, <3>1, FlightFacts DEF Divided
    <3>3. a.of # r.of /\ a.of \in Entities
      BY <1>1, <3>2, FlightFacts, RowFields DEF OneEach
    <3>4. Delivered(a.of)
      BY <1>1, <3>1 DEF AppliedDelivered
    <3> QED  BY <1>2, <1>5, <3>3, <3>4 DEF Delivered
  <2> QED  BY <2>2, <2>3
<1>g. Kept'
  <2> SUFFICES ASSUME NEW e \in Entities \ dropped
               PROVE  local[e].status = "none" \/ (\E q \in queue : q.of = e) \/ Delivered(e)'
    BY <1>2 DEF Kept
  <2>1. local[e].status = "none" \/ (\E q \in queue : q.of = e) \/ Delivered(e)
    BY DEF Kept
  <2>2. CASE e = r.of
    BY <1>1, <2>2 DEF Superseded
  <2>3. CASE e # r.of
    BY <1>2, <1>5, <2>1, <2>3 DEF Delivered
  <2> QED  BY <2>2, <2>3
<1> QED  BY <1>a, <1>b, <1>c, <1>d, <1>e, <1>f, <1>g

LEMMA OverlapStays ==
  ASSUME Always, [Next]_vars, ~overlap'
  PROVE  ~overlap
<1>1. ASSUME NEW c \in Coordinators, Advance(c) \/ GiveUp(c) PROVE ~overlap
  BY <1>1 DEF Advance, GiveUp, Start, Collect, Finish, Send, Receive, PushRefused, mishaps
<1>2. ASSUME NEW x \in Coordinators \cup {Late}, Serve(x) PROVE ~overlap
  BY <1>2 DEF Serve, mishaps
<1>3. CASE Owner
  BY <1>3 DEF Owner, SaveProduct, Sell, Remove, Write, Retry, Drop, mishaps
<1> QED  BY <1>1, <1>2, <1>3 DEF Next, Forget, vars, mishaps

LEMMA OrderlyStep ==
  ASSUME Always, Orderly, [Next]_vars, ~overlap'
  PROVE  Orderly'
<1>0. Always'
  BY AlwaysStep
<1>1. CASE Owner
  <2>1. ASSUME NEW e \in Entities, OwnerWrote(e) PROVE Orderly'
    BY <2>1, OwnerWroteKeepsOrderly
  <2>2. CASE \E r \in queue : Retry(r) \/ Drop(r)
    BY <2>2, RetryOrDropKeepsOrderly
  <2> QED  BY <1>1, <2>1, <2>2, OwnerWrites DEF Owner, Entities
<1>2. ASSUME NEW c \in Coordinators, Advance(c) \/ GiveUp(c) PROVE Orderly'
  BY <1>0, <1>2, StartKeepsOrderly, CollectKeepsOrderly, FinishKeepsOrderly, SendKeepsOrderly,
     ReceiveKeepsOrderly, GivingUpKeepsOrderly DEF Advance
<1>3. ASSUME NEW x \in Coordinators \cup {Late}, Serve(x) PROVE Orderly'
  BY <1>3, ServeKeepsOrderly
<1>4. CASE Forget
  BY <1>4 DEF Forget, Orderly, Alone
<1>5. CASE UNCHANGED vars
  <2>1. \A c \in Coordinators : Flight(c)' = Flight(c) /\ Ahead(c)' = Ahead(c)
    BY <1>5 DEF vars, Flight, Ahead
  <2> QED  BY <1>5, <2>1 DEF vars, mishaps, Orderly, Alone, NotRunning, Divided, OneEach, SameRow,
       Superseded, SaidBefore, CloudBehind, AheadIsNewer, AppliedDelivered, Kept, Delivered
<1> QED  BY <1>1, <1>2, <1>3, <1>4, <1>5 DEF Next

(***************************************************************************)
(* The part of the invariant that holds until requests overlap or          *)
(* something goes wrong.                                                   *)
(***************************************************************************)
\* Rows with small ids are finitely many.
LEMMA FewOlder ==
  ASSUME NEW rows \in SUBSET Row, \A r, q \in rows : r.id = q.id => r = q, NEW n \in Nat
  PROVE  IsFiniteSet({r \in rows : r.id < n})
<1> DEFINE S == {r \in rows : r.id < n}
           f == [r \in S |-> r.id]
<1>1. \A r \in S : r \in rows /\ r.id \in 0..n
  BY RowFields
<1>2. f \in [S -> 0..n] /\ \A r, q \in S : f[r] = f[q] => r = q
  BY <1>1
<1>3. f \in Injection(S, 0..n)
  BY <1>2 DEF Injection, IsInjective
<1>4. IsFiniteSet(0..n)
  BY FS_Interval
<1> QED  BY <1>3, <1>4, FS_Injection

\* A batch is what is oldest: a row older than one of the batch is in it.
LEMMA BatchIsOldest ==
  ASSUME NEW rows \in SUBSET Row, \A r, q \in rows : r.id = q.id => r = q, NEW n \in Nat,
         NEW d \in Oldest(rows, n), NEW q \in rows, q.id < d.id
  PROVE  q \in Oldest(rows, n)
<1> DEFINE older(x) == {r \in rows : r.id < x.id}
<1>1. d \in rows /\ d.id \in Nat /\ q.id \in Nat /\ \A r \in rows : r.id \in Nat
  BY RowFields DEF Oldest
<1>2. older(q) \in SUBSET older(d)
  BY <1>1
<1>3. IsFiniteSet(older(d))
  BY <1>1, FewOlder
<1>4. /\ IsFiniteSet(older(q)) /\ Cardinality(older(q)) <= Cardinality(older(d))
      /\ Cardinality(older(q)) \in Nat /\ Cardinality(older(d)) \in Nat
  <2> HIDE DEF older
  <2> QED  BY <1>2, <1>3, FS_Subset, FS_CardinalityType
<1>5. Cardinality(older(d)) < n
  BY DEF Oldest
<1>6. Cardinality(older(q)) < n
  <2> HIDE DEF older
  <2> QED  BY <1>4, <1>5
<1> QED  BY <1>6 DEF Oldest

\* A sale is in the store of its product and comes before the product's removal.
LEMMA SaleRows ==
  ASSUME NEW r \in Row, SalePut(r)
  PROVE  /\ Of[r.of] \in Products /\ Of[r.of] \in Entities /\ Of[r.of] \notin Sales
         /\ r.of \in Sales /\ Rank(r) = 1
         /\ \A d : RemovalFor(d, r) => Rank(d) = 2 /\ StoreOf[d.of] = StoreOf[r.of]
<1>1. r.of \in Sales /\ r.kind = "put" /\ r.kind # "delete"
  BY DEF SalePut
<1>2. Of[r.of] \in Products /\ StoreOf[r.of] = StoreOf[Of[r.of]]
  BY <1>1, StoreAssumption
<1>3. Of[r.of] \in Entities /\ Of[r.of] \notin Sales
  BY <1>2, EntityAssumption DEF Entities
<1> QED  BY <1>1, <1>2, <1>3 DEF Rank, RemovalFor

LEMMA CleanInit == Init => Clean
<1> SUFFICES ASSUME Init PROVE Clean
  OBVIOUS
<1>1. queue = {} /\ \A c \in Coordinators : pass[c].at = "idle" /\ pass[c].todo = {}
  BY DEF Init, Idle
<1> QED  BY <1>1 DEF Clean, SoldBeforeRemoved, RemovedTogether, GoneAfterSale, RefusedForNone,
     AheadNotGone, Grouped, Ahead

LEMMA OwnerWroteKeepsClean ==
  ASSUME Always, Orderly, Clean, NEW e \in Entities, OwnerWrote(e)
  PROVE  Clean'
<1>1. PICK kind \in {"put", "delete"}, version \in Nat, content \in Content :
        /\ queue' = {r \in queue : r.of # e} \cup
                      {[id |-> nextId, kind |-> kind, of |-> e, version |-> version,
                        attempts |-> 0]}
        /\ kind = "put" /\ e \in Sales => local[Of[e]].status = "live"
        /\ UNCHANGED <<cloud, pass, request>>
  BY DEF OwnerWrote
<1> DEFINE row == [id |-> nextId, kind |-> kind, of |-> e, version |-> version, attempts |-> 0]
<1>2. row.id = nextId /\ row.of = e /\ row.kind = kind /\ row \in Row
  BY DEF Always, TypeOK, Row
<1> HIDE DEF row
<1>3. \A q \in queue' : q \in queue \/ q = row
  BY <1>1 DEF row
<1>4. queue \subseteq Row /\ \A q \in queue : q.id < nextId
  BY DEF Always, TypeOK, Numbered
<1>5. SalePut(row) => local[Of[row.of]].status = "live" /\ Of[row.of] \in Entities
  BY <1>1, <1>2, SaleRows DEF SalePut
<1>6. \A c \in Coordinators : Flight(c)' = Flight(c) /\ Ahead(c)' = Ahead(c)
  BY <1>1 DEF Flight, Ahead
<1>7. SoldBeforeRemoved'
  <2> SUFFICES ASSUME NEW q \in queue', NEW d \in queue', SalePut(q), RemovalFor(d, q)
               PROVE  q.id < d.id
    BY DEF SoldBeforeRemoved
  <2>1. CASE q \in queue /\ d \in queue
    BY <2>1 DEF Clean, SoldBeforeRemoved
  <2>2. CASE q \in queue /\ d = row
    BY <1>2, <1>4, <2>2
  <2>3. CASE q = row /\ d \in queue
    <3>1. local[d.of].status = "gone"
      BY <2>3 DEF RemovalFor, Always, QueueCurrent, Current
    <3> QED  BY <1>5, <2>3, <3>1 DEF RemovalFor
  <2>4. CASE q = row /\ d = row
    BY <2>4 DEF SalePut, RemovalFor
  <2> QED  BY <1>3, <2>1, <2>2, <2>3, <2>4
<1>8. RemovedTogether'
  <2> SUFFICES ASSUME NEW c \in Coordinators, NEW d \in Flight(c), NEW q \in queue',
                      SalePut(q), RemovalFor(d, q), q.attempts < MaxAttempts
               PROVE  \E r \in Flight(c) : r.id = q.id
    BY <1>6 DEF RemovedTogether
  <2>1. CASE q \in queue
    BY <2>1 DEF Clean, RemovedTogether
  <2>2. CASE q = row
    <3>1. local[d.of].status = "gone"
      BY DEF RemovalFor, Orderly, SaidBefore
    <3> QED  BY <1>5, <2>2, <3>1 DEF RemovalFor
  <2> QED  BY <1>3, <2>1, <2>2
<1>9. GoneAfterSale'
  <2> SUFFICES ASSUME NEW q \in queue', SalePut(q), q.attempts < MaxAttempts,
                      cloud[Of[q.of]].status = "gone"
               PROVE  \E c \in Coordinators :
                        pass[c].at = "wait" /\ \E a \in request[c].applied : a.id = q.id
    BY <1>1 DEF GoneAfterSale
  <2>1. CASE q \in queue
    BY <2>1 DEF Clean, GoneAfterSale
  <2>2. CASE q = row
    BY <1>5, <2>2 DEF Orderly, CloudBehind
  <2> QED  BY <1>3, <2>1, <2>2
<1>10. RefusedForNone' /\ AheadNotGone' /\ Grouped'
  BY <1>1, <1>6 DEF Clean, RefusedForNone, AheadNotGone, Grouped
<1> QED  BY <1>7, <1>8, <1>9, <1>10 DEF Clean

\* Where no coordinator waits, all is about what the outbox and a batch hold.
LEMMA NobodyWaits ==
  ASSUME Clean, \A c \in Coordinators : pass[c].at # "wait", UNCHANGED <<queue, cloud>>,
         \A c \in Coordinators : pass'[c].at # "wait",
         \A c \in Coordinators : Flight(c)' = {} /\ Ahead(c)' = {}
  PROVE  Clean'
<1>1. SoldBeforeRemoved' /\ GoneAfterSale'
  BY DEF Clean, SoldBeforeRemoved, GoneAfterSale
<1>2. RemovedTogether' /\ RefusedForNone' /\ AheadNotGone' /\ Grouped'
  BY DEF RemovedTogether, RefusedForNone, AheadNotGone, Grouped
<1> QED  BY <1>1, <1>2 DEF Clean

LEMMA StartKeepsClean ==
  ASSUME Always, Always', Clean, NEW c \in Coordinators, Start(c), ~overlap'
  PROVE  Clean'
<1>1. /\ pass' = [pass EXCEPT ![c] = [Idle EXCEPT !.at = "ready"]]
      /\ UNCHANGED <<queue, cloud>>
      /\ pass[c].at = "idle" /\ \A d \in Coordinators \ {c} : pass[d].at = "idle"
  BY DEF Start, Enter, NotRunning, user
<1>2. pass'[c].at = "ready" /\ \A d \in Coordinators : d # c => pass'[d] = pass[d]
  BY <1>1, PassFacts, IdlePasses
<1>3. \A d \in Coordinators : pass[d].at = "idle" /\ pass'[d].at \in {"idle", "ready"}
  BY <1>1, <1>2
<1>4. \A d \in Coordinators : Flight(d)' = {} /\ Ahead(d)' = {}
  BY <1>3 DEF Always, Phases, Flight, Ahead
<1> QED  BY <1>1, <1>3, <1>4, NobodyWaits

LEMMA FinishKeepsClean ==
  ASSUME Always, Always', Orderly, Clean, NEW c \in Coordinators, Finish(c)
  PROVE  Clean'
<1>1. pass' = [pass EXCEPT ![c] = Idle] /\ pass[c].at = "ready" /\ UNCHANGED <<queue, cloud>>
  BY DEF Finish, Enter, user
<1>2. pass'[c].at = "idle" /\ \A d \in Coordinators : d # c => pass'[d] = pass[d]
                                                             /\ pass[d].at = "idle"
  BY <1>1, PassFacts, IdlePasses DEF Orderly, Alone, NotRunning
<1>3. \A d \in Coordinators : pass[d].at # "wait" /\ pass'[d].at = "idle"
  BY <1>1, <1>2
<1>4. \A d \in Coordinators : Flight(d)' = {} /\ Ahead(d)' = {}
  BY <1>3 DEF Always, Phases, Flight, Ahead
<1> QED  BY <1>1, <1>3, <1>4, NobodyWaits

LEMMA CollectKeepsClean ==
  ASSUME Always, Always', Orderly, Clean, NEW c \in Coordinators, Collect(c)
  PROVE  Clean'
<1> DEFINE batch == Oldest(Pending, BatchSize)
<1>1. /\ pass' = [pass EXCEPT ![c] = [at |-> "batch", batch |-> pass[c].batch, todo |-> batch,
                                      accepted |-> FALSE]]
      /\ UNCHANGED <<queue, cloud>>
      /\ pass[c].at = "ready"
  BY DEF Collect, Enter, user
<1>2. /\ batch \subseteq Pending /\ Pending \subseteq queue /\ Pending \in SUBSET Row
      /\ \A q \in Pending : q.attempts < MaxAttempts
      /\ \A q \in queue : q.attempts < MaxAttempts => q \in Pending
  BY DEF Oldest, Pending, Always, TypeOK
<1>3. ASSUME NEW d \in batch, NEW q \in Pending, q.id < d.id
      PROVE  q \in batch
  <2>1. \A r, s \in Pending : r.id = s.id => r = s
    BY <1>2 DEF Always, TypeOK
  <2>2. BatchSize \in Nat
    BY BoundAssumption
  <2> QED  BY <1>2, <1>3, <2>1, <2>2, BatchIsOldest
<1> HIDE DEF batch
<1>4. \A d \in Coordinators : d # c => pass'[d] = pass[d] /\ pass[d].at = "idle"
  BY <1>1, PassFacts DEF Orderly, Alone, NotRunning
<1>5. pass'[c].at = "batch" /\ pass'[c].todo = batch
  BY <1>1, PassFacts
<1>6. \A d \in Coordinators : /\ Flight(d)' = (IF d = c THEN batch ELSE {})
                              /\ Ahead(d)' = (IF d = c THEN batch ELSE {})
                              /\ pass[d].at # "wait" /\ pass'[d].at # "wait"
  BY <1>1, <1>4, <1>5 DEF Always, Phases, Flight, Ahead
<1>7. SoldBeforeRemoved' /\ GoneAfterSale' /\ RefusedForNone' /\ Grouped'
  BY <1>1, <1>6 DEF Clean, SoldBeforeRemoved, GoneAfterSale, RefusedForNone, Grouped
<1>8. RemovedTogether'
  <2> SUFFICES ASSUME NEW d \in batch, NEW q \in queue, SalePut(q), RemovalFor(d, q),
                      q.attempts < MaxAttempts
               PROVE  \E r \in batch : r.id = q.id
    BY <1>1, <1>6 DEF RemovedTogether
  <2>1. q.id < d.id
    BY <1>2 DEF Clean, SoldBeforeRemoved
  <2> QED  BY <1>2, <1>3, <2>1
<1>9. AheadNotGone'
  <2> SUFFICES ASSUME NEW q \in batch, SalePut(q)
               PROVE  cloud[Of[q.of]].status # "gone"
    BY <1>1, <1>6 DEF AheadNotGone
  <2> QED  BY <1>2, <1>6 DEF Clean, GoneAfterSale
<1> QED  BY <1>7, <1>8, <1>9 DEF Clean

LEMMA SendKeepsClean ==
  ASSUME Always, Orderly, Clean, NEW c \in Coordinators, Send(c)
  PROVE  Clean'
<1>0. PICK group \in SUBSET Row, store \in Stores : SentGroup(c, group, store)
  BY SendFacts
<1>1. UNCHANGED <<queue, cloud>> /\ pass[c].at = "batch" /\ group \subseteq pass[c].todo
      /\ \A r \in pass[c].todo : r \in group <=> StoreOf[r.of] = store
  BY <1>0 DEF SentGroup
<1>2. /\ pass'[c].at = "wait" /\ pass'[c].todo = pass[c].todo \ group
      /\ request'[c].store = store
      /\ request'[c].rows = group /\ request'[c].todo = group /\ request'[c].applied = {}
      /\ \A d \in Coordinators : d # c => pass'[d] = pass[d] /\ request'[d] = request[d]
                                          /\ pass[d].at = "idle"
  <2>1. pass \in [Coordinators -> PassType] /\ c # Late
        /\ request \in [Coordinators \cup {Late} -> {NoRequest} \cup Request]
    BY PassFacts DEF Always, TypeOK
  <2>2. pass[c] \in PassType
    BY <2>1
  <2>3. pass'[c] = [pass[c] EXCEPT !.at = "wait", !.todo = @ \ group]
    BY <1>0, <2>1 DEF SentGroup
  <2>4. pass'[c].at = "wait" /\ pass'[c].todo = pass[c].todo \ group
    BY <2>2, <2>3 DEF PassType
  <2>5. request'[c] = [store |-> store, rows |-> group, todo |-> group, applied |-> {}]
    BY <1>0, <2>1 DEF SentGroup
  <2>6. \A d \in Coordinators : d # c => pass[d].at = "idle"
    BY <1>1 DEF Orderly, Alone, NotRunning
  <2> QED  BY <1>0, <2>1, <2>4, <2>5, <2>6 DEF SentGroup
<1>3. \A d \in Coordinators : Flight(d)' = Flight(d) /\ Ahead(d)' = Ahead(d)
  BY <1>1, <1>2 DEF Flight, Ahead
<1>4. \A d \in Coordinators : pass[d].at # "wait"
  BY <1>1, <1>2
<1>5. SoldBeforeRemoved' /\ RemovedTogether' /\ AheadNotGone'
  BY <1>1, <1>3 DEF Clean, SoldBeforeRemoved, RemovedTogether, AheadNotGone
<1>6. GoneAfterSale'
  BY <1>1, <1>4 DEF Clean, GoneAfterSale
<1>7. RefusedForNone' /\ Grouped'
  <2> SUFFICES ASSUME NEW d \in Coordinators, pass'[d].at = "wait"
               PROVE  /\ request'[d].rows \ (request'[d].todo \cup request'[d].applied) = {}
                      /\ \A r \in request'[d].rows : StoreOf[r.of] = request'[d].store
                      /\ \A r \in pass'[d].todo : StoreOf[r.of] # request'[d].store
                      /\ request'[d].rows \ request'[d].todo = {}
                      /\ request'[d].applied = {}
    BY DEF RefusedForNone, Grouped
  <2>1. d = c
    BY <1>2
  <2> QED  BY <1>1, <1>2, <2>1
<1> QED  BY <1>5, <1>6, <1>7 DEF Clean

\* A row of a request's store is among its rows; a sale goes before a removal.
LEMMA TogetherInRequest ==
  ASSUME Always, Orderly, Clean, NEW c \in Coordinators, pass[c].at = "wait",
         NEW d \in Flight(c), NEW q \in queue, SalePut(q), RemovalFor(d, q),
         q.attempts < MaxAttempts
  PROVE  \E r \in Flight(c) : /\ r.id = q.id /\ SalePut(r) /\ r.of = q.of
                              /\ r \in request[c].rows <=> d \in request[c].rows
                              /\ r \in pass[c].todo <=> d \in pass[c].todo
<1>1. PICK r \in Flight(c) : r.id = q.id
  BY DEF Clean, RemovedTogether
<1>2. SalePut(r) /\ r.of = q.of
  BY <1>1 DEF Orderly, SameRow, SalePut
<1>3. r \in Row /\ q \in Row
  BY FlightFacts DEF Always, TypeOK
<1>4. StoreOf[d.of] = StoreOf[r.of]
  BY <1>2, <1>3, SaleRows
<1>5. d \in pass[c].todo \cup request[c].rows /\ r \in pass[c].todo \cup request[c].rows
  BY DEF Flight
<1> QED  BY <1>1, <1>2, <1>4, <1>5 DEF Clean, Grouped

LEMMA ReceiveKeepsClean ==
  ASSUME Always, Always', Orderly, Clean, NEW c \in Coordinators, Receive(c)
  PROVE  Clean'
<1> DEFINE applied == request[c].applied
           refused == request[c].rows \ applied
           p == AfterAnswer(pass[c], applied)
<1>1. pass[c].at = "wait" /\ request[c] \in Request /\ pass[c] \in PassType
      /\ pass[c].batch < MaxBatches
  BY PassFacts DEF Receive, Always, Phases
<1>2. /\ queue' = Answered(queue, applied, refused)
      /\ pass' = [pass EXCEPT ![c] = p]
      /\ UNCHANGED cloud
  BY DEF Receive, Enter
<1>3. p.todo = pass[c].todo /\ p.at # "wait"
  BY <1>1, AfterAnswerFacts
<1> HIDE DEF p
<1>4. applied \in SUBSET Row /\ refused \in SUBSET Row
  BY <1>1, RequestFields
<1> HIDE DEF refused, applied
<1>5. \A q \in queue' : \E r \in queue : Counted(r, q, applied, refused)
  BY <1>2, <1>4, AnsweredThins
<1>6. pass'[c] = p /\ \A d \in Coordinators : d # c => pass'[d] = pass[d] /\ pass[d].at = "idle"
  BY <1>1, <1>2, PassFacts DEF Orderly, Alone, NotRunning
<1>7. \A d \in Coordinators : /\ Flight(d)' = (IF d = c THEN pass[c].todo ELSE {})
                              /\ Ahead(d)' = (IF d = c THEN pass[c].todo ELSE {})
                              /\ pass'[d].at # "wait"
  BY <1>3, <1>6 DEF Flight, Ahead, Always, Phases
\* What is said of the outbox now was said of it before.
<1>8. ASSUME NEW q \in queue'
      PROVE  \E r \in queue : /\ r.id = q.id /\ r.kind = q.kind /\ r.of = q.of
                              /\ ~\E a \in applied : a.id = r.id
                              /\ q.attempts < MaxAttempts => r.attempts < MaxAttempts
  <2>1. PICK r \in queue : Counted(r, q, applied, refused)
    BY <1>5
  <2>2. r.attempts \in Nat /\ q.attempts \in Nat /\ MaxAttempts \in Nat
    BY RowFields, BoundAssumption DEF Always, TypeOK
  <2> QED  BY <2>1, <2>2 DEF Counted
<1>9. SoldBeforeRemoved'
  <2> SUFFICES ASSUME NEW q \in queue', NEW d \in queue', SalePut(q), RemovalFor(d, q)
               PROVE  q.id < d.id
    BY DEF SoldBeforeRemoved
  <2>1. PICK q0 \in queue : q0.id = q.id /\ q0.kind = q.kind /\ q0.of = q.of
    BY <1>8
  <2>2. PICK d0 \in queue : d0.id = d.id /\ d0.kind = d.kind /\ d0.of = d.of
    BY <1>8
  <2> QED  BY <2>1, <2>2 DEF Clean, SoldBeforeRemoved, SalePut, RemovalFor
<1>10. RemovedTogether'
  <2> SUFFICES ASSUME NEW d \in pass[c].todo, NEW q \in queue', SalePut(q), RemovalFor(d, q),
                      q.attempts < MaxAttempts
               PROVE  \E r \in pass[c].todo : r.id = q.id
    BY <1>7 DEF RemovedTogether
  <2>1. PICK q0 \in queue : q0.id = q.id /\ q0.kind = q.kind /\ q0.of = q.of
                            /\ q0.attempts < MaxAttempts
    BY <1>8
  <2>2. d \in Flight(c) /\ SalePut(q0) /\ RemovalFor(d, q0)
    BY <2>1 DEF Flight, SalePut, RemovalFor
  <2> QED  BY <1>1, <2>1, <2>2, TogetherInRequest
<1>11. GoneAfterSale'
  <2> SUFFICES ASSUME NEW q \in queue', SalePut(q), q.attempts < MaxAttempts,
                      cloud[Of[q.of]].status = "gone"
               PROVE  FALSE
    BY <1>2 DEF GoneAfterSale
  <2>1. PICK q0 \in queue : /\ q0.id = q.id /\ q0.kind = q.kind /\ q0.of = q.of
                            /\ ~\E a \in applied : a.id = q0.id
                            /\ q0.attempts < MaxAttempts
    BY <1>8
  <2>2. PICK d \in Coordinators : pass[d].at = "wait" /\ \E a \in request[d].applied : a.id = q0.id
    BY <2>1 DEF Clean, GoneAfterSale, SalePut
  <2>3. d = c
    BY <1>6, <2>2
  <2> QED  BY <2>1, <2>2, <2>3 DEF applied
<1>12. AheadNotGone'
  <2> SUFFICES ASSUME NEW r \in pass[c].todo, SalePut(r) PROVE cloud[Of[r.of]].status # "gone"
    BY <1>2, <1>7 DEF AheadNotGone
  <2> QED  BY DEF Clean, AheadNotGone, Ahead
<1>13. RefusedForNone' /\ Grouped'
  BY <1>7 DEF RefusedForNone, Grouped
<1> QED  BY <1>9, <1>10, <1>11, <1>12, <1>13 DEF Clean

LEMMA PushRefusedKeepsClean ==
  ASSUME Always, Always', Orderly, Clean, NEW c \in Coordinators, PushRefused(c)
  PROVE  Clean'
<1>1. /\ pass' = [pass EXCEPT ![c] = Idle]
      /\ UNCHANGED <<queue, cloud>>
      /\ pass[c].at = "wait" /\ Refused(request[c])
  BY DEF PushRefused, Enter, user
<1>2. pass'[c].at = "idle" /\ \A d \in Coordinators : d # c => pass'[d] = pass[d]
                                                             /\ pass[d].at = "idle"
  BY <1>1, PassFacts, IdlePasses DEF Orderly, Alone, NotRunning
<1>3. \A d \in Coordinators : Flight(d)' = {} /\ Ahead(d)' = {} /\ pass'[d].at # "wait"
  BY <1>2 DEF Always, Phases, Flight, Ahead
<1>4. SoldBeforeRemoved' /\ RemovedTogether' /\ AheadNotGone' /\ RefusedForNone' /\ Grouped'
  BY <1>1, <1>3 DEF Clean, SoldBeforeRemoved, RemovedTogether, AheadNotGone, RefusedForNone,
     Grouped
<1>5. GoneAfterSale'
  <2>1. request[c].applied = {}
    BY <1>1 DEF Clean, Grouped
  <2>2. \A d \in Coordinators : pass[d].at = "wait" => request[d].applied = {}
    BY <1>2, <2>1
  <2> QED  BY <1>1, <2>2 DEF Clean, GoneAfterSale
<1> QED  BY <1>4, <1>5 DEF Clean

\* What is gone after a row was taken was gone before, or the row removed it.
LEMMA NewlyGone ==
  ASSUME Always, NEW x, NEW r \in Row, NEW ok \in BOOLEAN, TookRow(x, r, ok),
         NEW e \in Entities, cloud'[e].status = "gone"
  PROVE  \/ cloud[e].status = "gone"
         \/ ok /\ r.kind = "delete" /\ r.of = e /\ cloud[e].status = "live"
<1>1. cloud \in [Entities -> Content] /\ cloud[e] \in Content /\ r.kind \in {"put", "delete"}
  BY RowFields DEF Always, TypeOK
<1>2. CASE ok /\ r.of = e
  <2>1. cloud'[e] = Applied(cloud[e], r)
    BY <1>1, <1>2 DEF TookRow
  <2>2. CASE r.kind = "delete"
    BY <1>1, <1>2, <2>1, <2>2 DEF Applied, Content
  <2>3. CASE r.kind = "put"
    BY <1>1, <2>1, <2>3, AppliedFacts
  <2> QED  BY <1>1, <2>2, <2>3
<1>3. CASE ~(ok /\ r.of = e)
  BY <1>1, <1>3 DEF TookRow
<1> QED  BY <1>2, <1>3

\* As long as there are no incidents, every step of a sync keeps its order.
LEMMA ServeKeepsClean ==
  ASSUME Always, Always', Orderly, Clean, NEW x \in Coordinators \cup {Late}, Serve(x),
         incidents' = 0
  PROVE  Clean'
<1>0. PICK r \in Row, ok \in BOOLEAN : TookRow(x, r, ok)
  BY ServeFacts
<1>9. OnlyRow(x, r, ok)
  BY <1>0, TookRowFacts
<1>1. /\ x \in Coordinators /\ pass[x].at = "wait"
      /\ r \in Ahead(x) /\ r \in Flight(x)
      /\ \A d \in Coordinators : d # x => Flight(d) = {} /\ Ahead(d) = {} /\ pass[d].at = "idle"
      /\ \A d \in Coordinators : Flight(d)' = Flight(d) /\ pass'[d] = pass[d]
      /\ Ahead(x)' \subseteq Ahead(x) \ {r}
      /\ request'[x].applied = IF ok THEN request[x].applied \cup {r} ELSE request[x].applied
      /\ request'[x].todo = request[x].todo \ {r}
      /\ request'[x].rows = request[x].rows
      /\ request'[x].store = request[x].store
      /\ \A d \in Coordinators \cup {Late} : d # x => request'[d] = request[d]
  BY <1>9 DEF OnlyRow
<1>2. /\ UNCHANGED queue
      /\ r \in request[x].todo /\ ~Refused(request[x])
      /\ \A q \in request[x].todo : Rank(r) <= Rank(q)
      /\ ok => cloud' = [cloud EXCEPT ![r.of] = Applied(cloud[r.of], r)]
      /\ ~ok => UNCHANGED cloud /\ ~Accepts(r)
  BY <1>0 DEF TookRow
<1>3. /\ request[x].todo \subseteq request[x].rows /\ request[x].rows \subseteq Row
      /\ queue \subseteq Row /\ pass[x].todo \subseteq Row
      /\ r \in request[x].rows
  BY <1>1, <1>2, PassFacts, RequestFields DEF Orderly, Divided, Always, TypeOK
<1>4. cloud \in [Entities -> Content] /\ \A e \in Entities : e # r.of => cloud'[e] = cloud[e]
  BY <1>2 DEF Always, TypeOK
\* A removal is not taken while a sale of its product is ahead of it.
<1>5. \A f \in request[x].todo : SalePut(f) => ~RemovalFor(r, f)
  <2> SUFFICES ASSUME NEW f \in request[x].todo, SalePut(f), RemovalFor(r, f) PROVE FALSE
    OBVIOUS
  <2>1. Rank(f) = 1 /\ Rank(r) = 2
    BY <1>3, SaleRows
  <2> QED  BY <1>2, <2>1
<1>6. SoldBeforeRemoved' /\ RemovedTogether'
  BY <1>1, <1>2 DEF Clean, SoldBeforeRemoved, RemovedTogether
<1>7. AheadNotGone'
  <2> SUFFICES ASSUME NEW c \in Coordinators, NEW f \in Ahead(c)', SalePut(f),
                      cloud'[Of[f.of]].status = "gone"
               PROVE  FALSE
    BY DEF AheadNotGone
  <2>1. c = x
    <3>1. \A d \in Coordinators : d # x => Ahead(d)' = Ahead(d)
      BY <1>1 DEF Ahead
    <3> QED  BY <1>1, <3>1
  <2>2. f \in Ahead(x) /\ f \in Row
    BY <1>1, <1>3, <2>1 DEF Ahead
  <2>3. Of[f.of] \in Entities /\ cloud[Of[f.of]].status # "gone"
    BY <1>1, <2>2, SaleRows DEF Clean, AheadNotGone
  <2>4. r.kind = "delete" /\ r.of = Of[f.of]
    BY <1>0, <2>3, NewlyGone
  <2>5. RemovalFor(r, f)
    BY <2>4 DEF RemovalFor
  <2>6. f \notin request[x].todo
    BY <1>5, <2>5
  <2>7. f \in pass[x].todo
    BY <1>1, <2>2, <2>6 DEF Ahead
  <2>8. StoreOf[f.of] = StoreOf[r.of]
    BY <2>2, <2>5, SaleRows
  <2> QED  BY <1>1, <1>3, <2>7, <2>8 DEF Clean, Grouped
<1>8. RefusedForNone'
  <2> SUFFICES ASSUME NEW c \in Coordinators, pass'[c].at = "wait",
                      NEW f \in request'[c].rows \ (request'[c].todo \cup request'[c].applied),
                      SalePut(f)
               PROVE  cloud'[Of[f.of]].status = "none"
    BY DEF RefusedForNone
  <2>1. c = x
    BY <1>1
  <2>2. f \in request[x].rows /\ f \in Row
    BY <1>1, <1>3, <2>1
  <2>3. Of[f.of] \in Entities /\ Of[f.of] \notin Sales /\ Rank(f) = 1
    BY <2>2, SaleRows
  <2>4. CASE f = r
    <3>1. ~ok
      BY <1>1, <2>1, <2>4
    <3>2. ~Accepts(f) /\ UNCHANGED cloud
      BY <1>2, <2>4, <3>1
    <3>3. cloud[Of[f.of]].status # "live"
      BY <3>2 DEF Accepts
    <3>4. cloud[Of[f.of]].status # "gone"
      BY <1>1, <2>4 DEF Clean, AheadNotGone
    <3>5. cloud[Of[f.of]].status \in {"none", "live", "gone"}
      BY <1>4, <2>3 DEF Content
    <3> QED  BY <3>2, <3>3, <3>4, <3>5
  <2>5. CASE f # r
    <3>1. f \in request[x].rows \ (request[x].todo \cup request[x].applied)
      BY <1>1, <2>1, <2>5
    <3>2. cloud[Of[f.of]].status = "none"
      BY <1>1, <3>1 DEF Clean, RefusedForNone
    <3>3. CASE r.of = Of[f.of] /\ ok
      <4>1. Rank(f) <= Rank(r)
        BY <1>1, <1>2, <3>1 DEF Clean, Grouped
      <4>2. r.kind = "delete"
        BY <2>3, <3>3, <4>1, RowFields DEF Rank
      <4>3. cloud'[Of[f.of]] = Applied(cloud[Of[f.of]], r)
        BY <1>2, <1>4, <2>3, <3>3
      <4> QED  BY <3>2, <4>2, <4>3 DEF Applied
    <3>4. CASE ~(r.of = Of[f.of] /\ ok)
      BY <1>2, <1>4, <2>3, <3>2, <3>4
    <3> QED  BY <3>3, <3>4
  <2> QED  BY <2>4, <2>5
<1>10. Grouped'
  <2> SUFFICES ASSUME NEW c \in Coordinators, pass'[c].at = "wait"
               PROVE  /\ \A f \in request'[c].rows : StoreOf[f.of] = request'[c].store
                      /\ \A f \in pass'[c].todo : StoreOf[f.of] # request'[c].store
                      /\ \A f \in request'[c].rows \ request'[c].todo, q \in request'[c].todo :
                           Rank(f) <= Rank(q)
                      /\ Refused(request'[c]) => request'[c].applied = {}
    BY DEF Grouped
  <2>1. c = x
    BY <1>1
  <2>2. ASSUME NEW f \in request'[x].rows \ request'[x].todo, NEW q \in request'[x].todo
        PROVE  Rank(f) <= Rank(q)
    <3>1. q \in request[x].todo
      BY <1>1
    <3>2. CASE f = r
      BY <1>2, <3>1, <3>2
    <3>3. CASE f # r
      BY <1>1, <3>1, <3>3 DEF Clean, Grouped
    <3> QED  BY <3>2, <3>3
  <2>3. /\ \A f \in request'[x].rows : StoreOf[f.of] = request'[x].store
        /\ \A f \in pass'[x].todo : StoreOf[f.of] # request'[x].store
    BY <1>1, <1>2 DEF Clean, Grouped
  <2>4. ~Refused(request'[x])
    <3>1. /\ request'[x].store = request[x].store /\ request'[x].rows = request[x].rows
          /\ ~Refused(request[x])
      BY <1>1, <1>2
    <3> QED  BY <3>1 DEF Refused
  <2> QED  BY <2>1, <2>2, <2>3, <2>4
<1>11. GoneAfterSale'
  <2> SUFFICES ASSUME NEW q \in queue, SalePut(q), q.attempts < MaxAttempts,
                      cloud'[Of[q.of]].status = "gone"
               PROVE  \E a \in request'[x].applied : a.id = q.id
    BY <1>1, <1>2 DEF GoneAfterSale
  <2>1. q \in Row /\ Of[q.of] \in Entities
    BY <1>3, SaleRows
  <2>2. CASE cloud[Of[q.of]].status = "gone"
    <3>1. PICK c \in Coordinators : pass[c].at = "wait" /\ \E a \in request[c].applied : a.id = q.id
      BY <2>2 DEF Clean, GoneAfterSale
    <3>2. c = x
      BY <1>1, <3>1
    <3> QED  BY <1>1, <3>1, <3>2
  <2>3. CASE cloud[Of[q.of]].status # "gone"
    <3>1. r.kind = "delete" /\ r.of = Of[q.of] /\ cloud[Of[q.of]].status = "live"
      BY <1>0, <2>1, <2>3, NewlyGone
    <3>2. RemovalFor(r, q)
      BY <3>1 DEF RemovalFor
    <3>3. PICK f \in Flight(x) : /\ f.id = q.id /\ SalePut(f) /\ f.of = q.of
                                 /\ f \in request[x].rows <=> r \in request[x].rows
      BY <1>1, <3>2, TogetherInRequest
    <3>4. f \in request[x].rows /\ RemovalFor(r, f)
      BY <1>3, <3>2, <3>3 DEF RemovalFor
    <3>5. f \notin request[x].todo
      BY <1>5, <3>3, <3>4
    <3>6. f \in request[x].applied
      BY <1>1, <3>1, <3>3, <3>4, <3>5 DEF Clean, RefusedForNone
    <3> QED  BY <1>1, <3>3, <3>6
  <2> QED  BY <2>2, <2>3
<1> QED  BY <1>6, <1>7, <1>8, <1>10, <1>11 DEF Clean

\* What goes wrong is never forgotten.
LEMMA IncidentsStay ==
  ASSUME Always, [Next]_vars, incidents' = 0
  PROVE  /\ incidents = 0
         /\ \A r : ~Retry(r) /\ ~Drop(r)
         /\ \A c \in Coordinators : ~GiveUp(c)
<1>1. incidents \in Nat
  BY BoundAssumption DEF Always, TypeOK
<1>2. \A kind : ~Incident(kind)
  BY <1>1 DEF Incident
<1>3. /\ \A r : ~Retry(r) /\ ~Drop(r)
      /\ \A c \in Coordinators : ~GiveUp(c)
  BY <1>2 DEF Retry, Drop, GiveUp
<1>4. ASSUME NEW x \in Coordinators \cup {Late}, Serve(x) PROVE incidents = 0
  BY <1>2, <1>4 DEF Serve, mishaps
<1>5. ASSUME NEW c \in Coordinators, Advance(c) PROVE incidents = 0
  BY <1>5 DEF Advance, Start, Collect, Finish, Send, Receive, PushRefused, mishaps
<1>6. CASE Owner
  BY <1>3, <1>6 DEF Owner, SaveProduct, Sell, Remove, Write, mishaps
<1> QED  BY <1>3, <1>4, <1>5, <1>6 DEF Next, Forget, vars, mishaps

LEMMA CleanStep ==
  ASSUME Always, Orderly, Clean, [Next]_vars, ~overlap', incidents' = 0
  PROVE  Clean'
<1>0. Always'
  BY AlwaysStep
<1>1. CASE Owner
  <2>1. ASSUME NEW e \in Entities, OwnerWrote(e) PROVE Clean'
    BY <2>1, OwnerWroteKeepsClean
  <2>2. ~\E r \in queue : Retry(r) \/ Drop(r)
    BY IncidentsStay
  <2> QED  BY <1>1, <2>1, <2>2, OwnerWrites DEF Owner, Entities
<1>2. ASSUME NEW c \in Coordinators, Advance(c) PROVE Clean'
  BY <1>0, <1>2, StartKeepsClean, CollectKeepsClean, FinishKeepsClean, SendKeepsClean,
     ReceiveKeepsClean, PushRefusedKeepsClean DEF Advance
<1>3. ASSUME NEW x \in Coordinators \cup {Late}, Serve(x) PROVE Clean'
  BY <1>0, <1>3, ServeKeepsClean
<1>4. CASE Forget
  <2>1. request' = request
    <3>1. request[Late] = NoRequest
      BY DEF Orderly, Alone
    <3> QED  BY <1>4, <3>1 DEF Forget
  <2>2. UNCHANGED <<queue, cloud, pass>>
    BY <1>4 DEF Forget, user
  <2>3. \A c \in Coordinators : Flight(c)' = Flight(c) /\ Ahead(c)' = Ahead(c)
    BY <2>1, <2>2 DEF Flight, Ahead
  <2> QED  BY <2>1, <2>2, <2>3 DEF Clean, SoldBeforeRemoved, RemovedTogether, GoneAfterSale,
       RefusedForNone, AheadNotGone, Grouped
<1>5. CASE UNCHANGED vars
  <2>1. \A c \in Coordinators : Flight(c)' = Flight(c) /\ Ahead(c)' = Ahead(c)
    BY <1>5 DEF vars, Flight, Ahead
  <2> QED  BY <1>5, <2>1 DEF vars, Clean, SoldBeforeRemoved, RemovedTogether, GoneAfterSale,
       RefusedForNone, AheadNotGone, Grouped
<1>6. \A c \in Coordinators : ~GiveUp(c)
  BY IncidentsStay
<1> QED  BY <1>1, <1>2, <1>3, <1>4, <1>5, <1>6 DEF Next

(***************************************************************************)
(* The theorems.                                                           *)
(***************************************************************************)
THEOREM Inductive == Spec => []IInv
<1>1. Init => IInv
  BY AlwaysInit, OrderlyInit, CleanInit DEF IInv
<1>2. IInv /\ [Next]_vars => IInv'
  BY AlwaysStep, OrderlyStep, CleanStep, OverlapStays, IncidentsStay DEF IInv
<1> QED  BY <1>1, <1>2, PTL DEF Spec

\* Everything has its type, and no two rows of sync_queue have the same id, or
\* say the same kind of thing about the same entry (UNIQUE (entity, entity_id)).
THEOREM TypeCorrect == Spec => []TypeOK
<1>1. IInv => TypeOK
  BY DEF IInv, Always
<1> QED  BY <1>1, Inductive, PTL

\* The owner's last word on an entry is in the outbox or in the cloud, whatever
\* was being uploaded, refused, lost or tried again when it was spoken
\* (SyncQueueDao.clearRows).
THEOREM NothingIsLost == Spec => []NothingLost
<1>1. IInv => NothingLost
  <2> SUFFICES ASSUME IInv, ~overlap, NEW e \in Entities \ dropped
               PROVE  local[e].status = "none" \/ StillQueued(e) \/ Delivered(e)
    BY DEF NothingLost
  <2>1. local[e].status = "none" \/ (\E q \in queue : q.of = e) \/ Delivered(e)
    BY DEF IInv, Orderly, Kept
  <2>2. ASSUME NEW q \in queue, q.of = e PROVE StillQueued(e)
    <3>1. Current(q) /\ q.kind \in {"put", "delete"}
      BY RowFields DEF IInv, Always, TypeOK, QueueCurrent
    <3> QED  BY <2>2, <3>1 DEF Current, StillQueued
  <2> QED  BY <2>1, <2>2
<1> QED  BY <1>1, Inductive, PTL

\* In the cloud an edit is never undone by an older one and what was removed
\* never comes back, as long as requests of the phone do not overtake one
\* another (sync_coordinator.dart _pushPending, SyncService::push).
THEOREM CloudGoesForward == Spec => CloudInOrder
<1>1. IInv /\ [Next]_vars =>
        [~overlap =>
           \A e \in Entities :
             /\ cloud'[e].version >= cloud[e].version
             /\ cloud[e].status = "gone" => cloud'[e].status = "gone"]_vars
  <2> SUFFICES ASSUME IInv, Next, ~overlap, NEW e \in Entities
               PROVE  /\ cloud'[e].version >= cloud[e].version
                      /\ cloud[e].status = "gone" => cloud'[e].status = "gone"
    OBVIOUS
  <2>1. Always /\ Orderly
    BY DEF IInv
  <2>2. cloud[e].version \in Nat /\ cloud \in [Entities -> Content]
    BY <2>1 DEF Always, TypeOK, Content
  <2>3. CASE UNCHANGED cloud
    BY <2>2, <2>3
  <2>4. ASSUME NEW x \in Coordinators \cup {Late}, Serve(x)
        PROVE  /\ cloud'[e].version >= cloud[e].version
               /\ cloud[e].status = "gone" => cloud'[e].status = "gone"
    <3>1. PICK r \in Row, ok \in BOOLEAN : TookRow(x, r, ok)
      BY <2>1, <2>4, ServeFacts
    <3>a. OnlyRow(x, r, ok)
      BY <2>1, <3>1, TookRowFacts
    <3>2. r \in Ahead(x) /\ x \in Coordinators
      BY <3>a DEF OnlyRow
    <3>3. CASE ok /\ e = r.of
      <4>1. cloud'[e] = Applied(cloud[e], r) /\ cloud[e] \in Content
        BY <2>2, <3>1, <3>3 DEF TookRow
      <4>2. r.kind = "put" => cloud[e].status # "gone" /\ cloud[e].version <= r.version
        BY <2>1, <3>2, <3>3 DEF Orderly, AheadIsNewer
      <4>3. r.kind \in {"put", "delete"} /\ r.version \in Nat
        BY RowFields
      <4>4. CASE r.kind = "put"
        <5>1. cloud'[e] = [status |-> "live", version |-> r.version]
          BY <4>1, <4>2, <4>4, AppliedFacts
        <5> QED  BY <4>2, <4>4, <5>1
      <4>5. CASE r.kind = "delete"
        BY <2>2, <4>1, <4>5, AppliedFacts
      <4> QED  BY <4>3, <4>4, <4>5
    <3>4. CASE ~(ok /\ e = r.of)
      BY <2>2, <3>1, <3>4 DEF TookRow
    <3> QED  BY <3>3, <3>4
  <2>5. UNCHANGED cloud \/ \E x \in Coordinators \cup {Late} : Serve(x)
    <3>1. CASE Owner
      BY <3>1 DEF Owner, SaveProduct, Sell, Remove, Write, Retry, Drop
    <3>2. ASSUME NEW c \in Coordinators, Advance(c) \/ GiveUp(c) PROVE UNCHANGED cloud
      BY <3>2 DEF Advance, Start, Collect, Finish, Send, Receive, PushRefused, GiveUp
    <3>3. CASE Forget
      BY <3>3 DEF Forget
    <3> QED  BY <3>1, <3>2, <3>3 DEF Next
  <2> QED  BY <2>3, <2>4, <2>5
<1> QED  BY <1>1, Inductive, PTL DEF Spec, CloudInOrder

\* Unless something goes wrong on the way, no sale is refused whose product the
\* server has ever held: whatever is sold, edited and removed during a sync, and
\* however it is cut into batches and requests, a sale goes up with or before
\* the removal of its product and is taken first (SyncService::push,
\* into_timeline).
THEOREM SalesFindTheirProducts == Spec => SalesMeetProducts
<1>1. IInv /\ [Next]_vars =>
        [incidents' = 0 /\ ~overlap =>
           \A r \in queue, q \in queue' :
             r.id = q.id /\ r.attempts < q.attempts /\ r.kind = "put" /\ r.of \in Sales =>
               cloud[Of[r.of]].status = "none"]_vars
  <2> SUFFICES ASSUME IInv, Next, incidents' = 0, ~overlap, NEW r \in queue, NEW q \in queue',
                      r.id = q.id, r.attempts < q.attempts, SalePut(r)
               PROVE  cloud[Of[r.of]].status = "none"
    BY DEF SalePut
  <2>1. Always /\ Orderly /\ Clean
    BY IncidentsStay DEF IInv
  <2>2. q \notin queue
    <3>1. ~(r.attempts < r.attempts)
      BY <2>1, RowFields DEF Always, TypeOK
    <3> QED  BY <2>1, <3>1 DEF Always, TypeOK
  <2>3. CASE Owner
    <3>1. \A e \in Entities : ~OwnerWrote(e)
      <4> SUFFICES ASSUME NEW e \in Entities, OwnerWrote(e) PROVE FALSE
        OBVIOUS
      <4>1. q.id = nextId
        BY <2>2 DEF OwnerWrote
      <4>2. r.id \in Nat /\ r.id < nextId
        BY <2>1, RowFields DEF Always, TypeOK, Numbered
      <4> QED  BY <4>1, <4>2
    <3>2. ~\E a \in queue : Retry(a) \/ Drop(a)
      BY <2>1, IncidentsStay
    <3> QED  BY <2>1, <2>3, <3>1, <3>2, OwnerWrites DEF Owner, Entities
  <2>4. ASSUME NEW c \in Coordinators, Receive(c)
        PROVE  cloud[Of[r.of]].status = "none"
    <3> DEFINE applied == request[c].applied
               refused == request[c].rows \ applied
    <3>1. pass[c].at = "wait" /\ request[c] \in Request /\ request[c].todo = {}
          /\ queue' = Answered(queue, applied, refused)
      BY <2>1, <2>4, PassFacts DEF Receive
    <3>2. applied \in SUBSET Row /\ refused \in SUBSET Row
      BY <3>1, RequestFields
    <3> HIDE DEF applied, refused
    <3>3. PICK s \in queue : Counted(s, q, applied, refused)
      BY <2>1, <3>1, <3>2, AnsweredThins
    <3>4. s = r
      BY <2>1, <3>3 DEF Counted, Always, TypeOK
    <3>5. PICK f \in refused : f.id = r.id
      BY <3>3, <3>4 DEF Counted
    <3>6. f \in Flight(c) /\ f \in request[c].rows \ (request[c].todo \cup request[c].applied)
      BY <3>1, <3>5 DEF refused, applied, Flight
    <3>7. SalePut(f) /\ f.of = r.of
      BY <2>1, <3>5, <3>6 DEF Orderly, SameRow, SalePut
    <3> QED  BY <2>1, <3>1, <3>6, <3>7 DEF Clean, RefusedForNone
  <2>5. CASE UNCHANGED queue
    BY <2>2, <2>5
  <2>6. ASSUME NEW c \in Coordinators, Advance(c) \/ GiveUp(c) PROVE UNCHANGED queue \/ Receive(c)
    BY <2>6 DEF Advance, Start, Collect, Finish, Send, PushRefused, GiveUp, user
  <2>7. ASSUME NEW x \in Coordinators \cup {Late}, Serve(x) \/ Forget PROVE UNCHANGED queue
    BY <2>7 DEF Serve, Forget, user
  <2> QED  BY <2>3, <2>4, <2>5, <2>6, <2>7 DEF Next
<1> QED  BY <1>1, Inductive, PTL DEF Spec, SalesMeetProducts
=============================================================================
