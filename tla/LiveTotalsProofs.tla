-------------------------- MODULE LiveTotalsProofs --------------------------
(* Proofs about LiveTotals: cached totals are no older than they may be, an   *)
(* event finds no entry that leaves out its write, and no socket falls behind *)
(* unawares, for any number of servers' writers, readers, sockets and keys    *)
(* and any lifetimes and capacity.                                            *)
(*                                                                            *)
(* The age of what an entry leaves out is bounded by how long the entry has   *)
(* been there, and that of what a computation has not seen by how long it     *)
(* runs. An entry that is not excused is listed in the index for as long as   *)
(* it lives, and was found by every invalidation that is under way: so the    *)
(* invalidation of a write leaves none of them, and those stored after it     *)
(* count the write.                                                           *)
EXTENDS LiveTotals, FiniteSetTheorems, TLAPS

Steps == {"idle", "committed", "listed", "cleared", "published"}
Entry == [value : Int, left : Nat, excused : BOOLEAN]
WriterState == [step : Steps, write : Nat, found : SUBSET Scopes]
SocketState == [open : BOOLEAN, next : Nat, known : Nat]

Types ==
    /\ commits \in Seq(Nat)
    /\ cache \in [Scopes -> Entry]
    /\ index \in [keys : SUBSET Scopes, left : Nat]
    /\ writer \in [Writers -> WriterState]
    /\ reader \in [Readers -> [step : {"idle", "computed"},
                               scope : Scopes \cup {IdleReader.scope},
                               value : Nat, age : Nat]]
    /\ announced \in Nat /\ channel \in Nat
    /\ socket \in [Sockets -> SocketState]

(* Nothing is stored, read or announced that was not committed.               *)
Bounded ==
    /\ \A k \in Scopes : Cached(k) => cache[k].value \in 0..Latest /\ cache[k].left \in 1..Ttl
    /\ \A r \in Readers : reader[r].step = "computed" =>
          /\ reader[r].scope \in Scopes
          /\ reader[r].value \in 0..Latest
          /\ reader[r].age \in 0..MaxCompute
    /\ \A w \in Writers : writer[w].write <= Latest
    /\ announced <= Latest

(* What an entry leaves out is as old as the entry, plus its computation.     *)
EntryAge ==
    \A k \in Scopes, n \in 1..Latest :
        Cached(k) /\ cache[k].value < n => commits[n] + cache[k].left <= Ttl + MaxCompute

(* What a computation has not seen is no older than the computation.          *)
ReaderAge ==
    \A r \in Readers, n \in 1..Latest :
        reader[r].step = "computed" /\ reader[r].value < n => commits[n] <= reader[r].age

Kept(k) == Cached(k) /\ ~cache[k].excused

(* An entry that counts is listed, and the index outlives it.                 *)
IndexListsKept == \A k \in Scopes : Kept(k) => k \in Listed /\ cache[k].left <= index.left

(* Every invalidation under way has found it.                                 *)
FoundKept == \A k \in Scopes, w \in Writers :
    Kept(k) /\ writer[w].step = "listed" => k \in writer[w].found

(* It counts every write whose invalidation is over.                          *)
KeptCounts ==
    /\ \A k \in Scopes, w \in Writers :
          Kept(k) /\ writer[w].step = "cleared" => cache[k].value >= writer[w].write
    /\ ToldMeansCleared

Aged == EntryAge /\ ReaderAge
Cleared == IndexListsKept /\ FoundKept /\ KeptCounts
IInv == Types /\ Bounded /\ Aged /\ Cleared /\ NeverSilentlyMissed

-----------------------------------------------------------------------------
(* Numbers and entries.                                                       *)

(* An entry that is made is there.                                            *)
LEMMA Made ==
    ASSUME NEW value \in Int, NEW excused \in BOOLEAN
    PROVE  /\ [value |-> value, left |-> Ttl, excused |-> excused] \in Entry
           /\ [value |-> value, left |-> Ttl, excused |-> excused] # NoEntry
<1>1. Ttl \in Nat \ {0}
  BY TotalsAssumption
<1>2. NoEntry.left = 0 /\ [value |-> value, left |-> Ttl, excused |-> excused].left = Ttl
  BY DEF NoEntry
<1>3. [value |-> value, left |-> Ttl, excused |-> excused] # NoEntry
  BY <1>1, <1>2
<1> QED  BY <1>1, <1>3 DEF Entry

(* At most two more events for low stock.                                     *)
LEMMA LowStockCount ==
    ASSUME NEW w \in Writers, NEW bridged \in BOOLEAN, NEW low \in BOOLEAN
    PROVE  AnnounceLowStock(w, low, bridged) \in Nat
<1> DEFINE S == {"local", "redis"}
           T == {way \in S : low /\ (IF way = "local" THEN w \in Here ELSE bridged)}
<1>1. IsFiniteSet({}) /\ IsFiniteSet({} \cup {"local"})
  BY FS_EmptySet, FS_AddElement
<1>2. IsFiniteSet(({} \cup {"local"}) \cup {"redis"})
  BY <1>1, FS_AddElement
<1>3. S = ({} \cup {"local"}) \cup {"redis"} /\ T \subseteq S
  OBVIOUS
<1>4. IsFiniteSet(T)
  BY <1>2, <1>3, FS_Subset
<1>5. Cardinality(T) \in Nat
  BY <1>4, FS_CardinalityType
<1> QED  BY <1>5 DEF AnnounceLowStock

(* Updating the fields of a writer.                                           *)
LEMMA FoundUpdate ==
    ASSUME NEW w \in Writers, writer \in [Writers -> WriterState], List(w)
    PROVE  writer' = [writer EXCEPT ![w] = [step |-> "listed", write |-> writer[w].write,
                                            found |-> Listed]]
<1> DEFINE f == writer
           a == "listed"
           b == Listed
           y == [step |-> a, write |-> f[w].write, found |-> f[w].found]
<1>1. [f[w] EXCEPT !.step = a] = y
  BY DEF WriterState
<1>a. [f EXCEPT ![w].step = a] = [f EXCEPT ![w] = [f[w] EXCEPT !.step = a]]
  OBVIOUS
<1>2. [y EXCEPT !.found = b] = [step |-> a, write |-> f[w].write, found |-> b]
  OBVIOUS
<1>3. [[f EXCEPT ![w] = y] EXCEPT ![w].found = b] = [f EXCEPT ![w] = [y EXCEPT !.found = b]]
  OBVIOUS
<1>4. writer' = [f EXCEPT ![w].step = a, ![w].found = b]
  BY DEF List
<1> QED  BY <1>1, <1>a, <1>2, <1>3, <1>4

-----------------------------------------------------------------------------
(* The steps.                                                                 *)
LEMMA Initially == Init => IInv
<1> SUFFICES ASSUME Init PROVE IInv
  OBVIOUS
<1> USE DEF Init
<1>1. NoEntry \in Entry /\ NoIndex \in [keys : SUBSET Scopes, left : Nat]
  BY DEF NoEntry, NoIndex, Entry
<1>2. /\ IdleWriter \in WriterState
      /\ IdleReader \in [step : {"idle", "computed"}, scope : Scopes \cup {IdleReader.scope},
                         value : Nat, age : Nat]
      /\ Closed \in SocketState
  BY DEF IdleWriter, IdleReader, Closed, Steps, WriterState, SocketState
<1>3. Types
  BY <1>1, <1>2 DEF Types
<1>4. /\ \A k \in Scopes : ~Cached(k)
      /\ \A w \in Writers : writer[w].step = "idle" /\ writer[w].write = 0
      /\ \A r \in Readers : reader[r].step = "idle"
      /\ Latest = 0
  BY DEF Cached, IdleWriter, IdleReader, Latest
<1>5. Bounded /\ Aged /\ Cleared
  BY <1>4 DEF Bounded, Aged, EntryAge, ReaderAge, Cleared, IndexListsKept, FoundKept, KeptCounts,
     ToldMeansCleared, Kept
<1>6. NeverSilentlyMissed
  BY DEF NeverSilentlyMissed, Closed
<1> QED  BY <1>3, <1>5, <1>6 DEF IInv

(* The totals do not depend on the sockets...                                 *)
LEMMA TotalsApart ==
    ASSUME IInv, UNCHANGED <<commits, redis, writer, reader>>,
           announced' = announced
    PROVE  (Bounded /\ Aged /\ Cleared)'
BY DEF IInv, redis, Bounded, Aged, EntryAge, ReaderAge, Cleared, IndexListsKept, FoundKept,
   KeptCounts, ToldMeansCleared, Kept, Cached, Listed, Latest

(* ... nor the sockets on the totals.                                         *)
LEMMA SocketsKeepUp ==
    ASSUME IInv, NEW s \in Sockets, Subscribe(s) \/ Deliver(s) \/ Lagged(s) \/ Close(s)
    PROVE  IInv'
<1>1. /\ socket \in [Sockets -> SocketState] /\ channel \in Nat
      /\ Capacity \in Nat \ {0}
      /\ NeverSilentlyMissed
  BY TotalsAssumption DEF IInv, Types
<1>b. socket \in [Sockets -> SocketState]
  BY <1>1
<1> DEFINE Good(x) == /\ x \in SocketState
                      /\ x.open => x.next <= x.known + 1
<1>2. \A t \in Sockets : Good(socket[t])
  BY <1>1 DEF NeverSilentlyMissed
<1>3. \E x : Good(x) /\ socket' = [socket EXCEPT ![s] = x]
  <2>1. CASE Subscribe(s)
    <3> DEFINE x == [open |-> TRUE, next |-> channel + 1, known |-> channel]
    <3>1. Good(x)
      BY <1>1 DEF SocketState
    <3> QED  BY <2>1, <3>1 DEF Subscribe
  <2>2. CASE Deliver(s)
    <3> DEFINE known == IF socket[s].next = socket[s].known + 1 THEN socket[s].known + 1
                        ELSE socket[s].known
               x == [open |-> socket[s].open, next |-> socket[s].next + 1,
                     known |-> known]
    <3>1. Good(x)
      BY <1>2, <2>2 DEF Deliver, SocketState
    <3>2. socket' = [socket EXCEPT ![s].next = socket[s].next + 1,
                                   ![s].known = known]
      BY <2>2 DEF Deliver
    <3> HIDE DEF known
    <3> DEFINE y == [open |-> socket[s].open, next |-> socket[s].next + 1, known |-> socket[s].known]
    <3>a. [socket[s] EXCEPT !.next = socket[s].next + 1] = y /\ [y EXCEPT !.known = known] = x
      BY <1>b DEF SocketState
    <3>b. socket' = [[socket EXCEPT ![s] = [socket[s] EXCEPT !.next = socket[s].next + 1]]
                       EXCEPT ![s].known = known]
      BY <3>2
    <3>c. [[socket EXCEPT ![s] = y] EXCEPT ![s].known = known]
            = [socket EXCEPT ![s] = [y EXCEPT !.known = known]]
      BY <1>b
    <3>3. socket' = [socket EXCEPT ![s] = x]
      BY <3>a, <3>b, <3>c
    <3> QED  BY <3>1, <3>3
  <2>3. CASE Lagged(s)
    <3> DEFINE x == [open |-> socket[s].open, next |-> Oldest, known |-> channel]
    <3>1. Oldest \in Nat /\ Oldest <= channel + 1
      BY <1>1 DEF Oldest
    <3>2. Good(x)
      BY <1>1, <1>2, <3>1 DEF SocketState
    <3>3. socket' = [socket EXCEPT ![s].next = Oldest, ![s].known = channel]
      BY <2>3 DEF Lagged
    <3> DEFINE y == [open |-> socket[s].open, next |-> Oldest, known |-> socket[s].known]
    <3>a. [socket[s] EXCEPT !.next = Oldest] = y /\ [y EXCEPT !.known = channel] = x
      BY <1>b DEF SocketState
    <3>b. socket' = [[socket EXCEPT ![s] = [socket[s] EXCEPT !.next = Oldest]]
                       EXCEPT ![s].known = channel]
      BY <3>3
    <3>c. [[socket EXCEPT ![s] = y] EXCEPT ![s].known = channel]
            = [socket EXCEPT ![s] = [y EXCEPT !.known = channel]]
      BY <1>b
    <3>4. socket' = [socket EXCEPT ![s] = x]
      BY <3>a, <3>b, <3>c
    <3> QED  BY <3>2, <3>4
  <2>4. CASE Close(s)
    BY <2>4 DEF Close, Closed, SocketState
  <2> QED  BY <2>1, <2>2, <2>3, <2>4
<1>4. UNCHANGED <<commits, redis, writer, reader, announced, channel>>
  BY DEF Subscribe, Deliver, Lagged, Close
<1>5. socket' \in [Sockets -> SocketState] /\ NeverSilentlyMissed'
  BY <1>1, <1>2, <1>3 DEF NeverSilentlyMissed
<1>6. Types'
  BY <1>4, <1>5 DEF IInv, Types, redis
<1> QED  BY <1>4, <1>5, <1>6, TotalsApart DEF IInv

LEMMA ComputeKeepsIInv ==
    ASSUME IInv, NEW r \in Readers, NEW k \in Scopes, Compute(r, k)
    PROVE  IInv'
<1> USE DEF Compute
<1>1. Types /\ Latest \in Nat
  BY DEF IInv, Types, Latest
<1> DEFINE x == [step |-> "computed", scope |-> k, value |-> Latest, age |-> 0]
<1>2. /\ reader'[r] = x
      /\ \A q \in Readers : q # r => reader'[q] = reader[q]
      /\ reader' \in [Readers -> [step : {"idle", "computed"},
                                  scope : Scopes \cup {IdleReader.scope},
                                  value : Nat, age : Nat]]
  BY <1>1 DEF Types
<1>3. UNCHANGED <<commits, redis, writer, announced, channel, socket>> /\ Latest' = Latest
  BY DEF Latest
<1>4. Types'
  BY <1>2, <1>3 DEF IInv, Types, redis
<1>5. Bounded'
  BY <1>1, <1>2, <1>3, TotalsAssumption DEF IInv, Bounded, redis, Cached
<1>6. Aged'
  BY <1>1, <1>2, <1>3 DEF IInv, Aged, EntryAge, ReaderAge, redis, Cached
<1>7. Cleared' /\ NeverSilentlyMissed'
  BY <1>3 DEF IInv, Cleared, IndexListsKept, FoundKept, KeptCounts, ToldMeansCleared, Kept, Cached,
     Listed, redis, NeverSilentlyMissed
<1> QED  BY <1>4, <1>5, <1>6, <1>7 DEF IInv

LEMMA StoreFailsKeepsIInv ==
    ASSUME IInv, NEW r \in Readers, StoreFails(r)
    PROVE  IInv'
<1> USE DEF StoreFails
<1>1. IdleReader \in [step : {"idle", "computed"}, scope : Scopes \cup {IdleReader.scope},
                      value : Nat, age : Nat] /\ IdleReader.step = "idle"
  BY DEF IdleReader
<1>2. /\ reader'[r] = IdleReader
      /\ \A q \in Readers : q # r => reader'[q] = reader[q]
      /\ reader' \in [Readers -> [step : {"idle", "computed"},
                                  scope : Scopes \cup {IdleReader.scope},
                                  value : Nat, age : Nat]]
  BY <1>1 DEF IInv, Types
<1>3. UNCHANGED <<commits, redis, writer, announced, channel, socket>> /\ Latest' = Latest
  BY DEF Latest
<1>4. Types'
  BY <1>2, <1>3 DEF IInv, Types, redis
<1>5. Bounded'
  BY <1>1, <1>2, <1>3 DEF IInv, Bounded, redis, Cached
<1>6. Aged'
  BY <1>1, <1>2, <1>3 DEF IInv, Aged, EntryAge, ReaderAge, redis, Cached
<1>7. Cleared' /\ NeverSilentlyMissed'
  BY <1>3 DEF IInv, Cleared, IndexListsKept, FoundKept, KeptCounts, ToldMeansCleared, Kept, Cached,
     Listed, redis, NeverSilentlyMissed
<1> QED  BY <1>4, <1>5, <1>6, <1>7 DEF IInv

LEMMA StoreKeepsIInv ==
    ASSUME IInv, NEW r \in Readers, Store(r)
    PROVE  IInv'
<1> DEFINE k == reader[r].scope
           excused == reader[r].value < Latest \/ \E w \in Writers : writer[w].step = "listed"
           x == [value |-> reader[r].value, left |-> Ttl, excused |-> excused]
<1>1. /\ reader[r].step = "computed" /\ k \in Scopes /\ reader[r].value \in 0..Latest
      /\ reader[r].age \in 0..MaxCompute /\ Ttl \in Nat \ {0} /\ MaxCompute \in Nat
      /\ Types /\ Latest \in Nat
  BY TotalsAssumption DEF IInv, Types, Bounded, Store, Latest
<1>2. excused \in BOOLEAN
  OBVIOUS
<1>a. ~excused => reader[r].value = Latest /\ \A w \in Writers : writer[w].step # "listed"
  BY <1>1
<1>b. reader[r].value \in Int
  BY <1>1
<1> HIDE DEF excused
<1>3. x \in Entry /\ x # NoEntry
  BY <1>2, <1>b, Made
<1>4. x.value = reader[r].value /\ x.left = Ttl
      /\ (~x.excused => x.value = Latest /\ \A w \in Writers : writer[w].step # "listed")
  BY <1>a
<1> HIDE DEF x
<1>5. cache' = [cache EXCEPT ![k] = x] /\ index' = [keys |-> Listed \cup {k}, left |-> 4 * Ttl]
  BY DEF Store, x, excused
<1>6. /\ cache' \in [Scopes -> Entry] /\ cache'[k] = x
      /\ \A j \in Scopes : j # k => cache'[j] = cache[j]
      /\ index' \in [keys : SUBSET Scopes, left : Nat]
      /\ index'.keys = Listed \cup {k} /\ index'.left = 4 * Ttl
  BY <1>1, <1>3, <1>5 DEF Types, Listed
<1>7. IdleReader \in [step : {"idle", "computed"}, scope : Scopes \cup {IdleReader.scope},
                      value : Nat, age : Nat] /\ IdleReader.step = "idle"
  BY DEF IdleReader
<1>8. /\ reader'[r] = IdleReader
      /\ \A q \in Readers : q # r => reader'[q] = reader[q]
      /\ reader' \in [Readers -> [step : {"idle", "computed"},
                                  scope : Scopes \cup {IdleReader.scope},
                                  value : Nat, age : Nat]]
  BY <1>1, <1>7 DEF Types, Store
<1>9. UNCHANGED <<commits, writer, announced, channel, socket>> /\ Latest' = Latest
  BY DEF Latest, Store
<1> HIDE DEF k
<1>10. Types'
  BY <1>1, <1>6, <1>8, <1>9 DEF Types
<1>11. Bounded'
  BY <1>1, <1>4, <1>6, <1>7, <1>8, <1>9 DEF IInv, Bounded, Cached
<1>12. EntryAge'
  <2> SUFFICES ASSUME NEW j \in Scopes, NEW n \in 1..Latest, Cached(j)', cache'[j].value < n
               PROVE  commits[n] + cache'[j].left <= Ttl + MaxCompute
    BY <1>9 DEF EntryAge
  <2>1. commits[n] \in Nat
    BY <1>1 DEF Types, Latest
  <2>2. CASE j = k
    <3>1. commits[n] <= reader[r].age
      BY <1>1, <1>4, <1>6, <2>2 DEF IInv, Aged, ReaderAge
    <3> QED  BY <1>1, <1>4, <1>6, <2>1, <2>2, <3>1
  <2>3. CASE j # k
    BY <1>6, <2>3 DEF IInv, Aged, EntryAge, Cached
  <2> QED  BY <2>2, <2>3
<1>13. ReaderAge'
  BY <1>7, <1>8, <1>9 DEF IInv, Aged, ReaderAge
<1>14. IndexListsKept'
  <2> SUFFICES ASSUME NEW j \in Scopes, Kept(j)'
               PROVE  j \in index'.keys /\ cache'[j].left <= index'.left
    BY DEF IndexListsKept, Listed
  <2>1. CASE j = k
    BY <1>1, <1>4, <1>6, <2>1
  <2>2. CASE j # k
    <3>1. Kept(j) /\ cache'[j] = cache[j]
      BY <1>6, <2>2 DEF Kept, Cached
    <3>2. j \in Listed /\ cache[j].left \in 1..Ttl
      BY <3>1 DEF IInv, Cleared, IndexListsKept, Bounded, Kept
    <3> QED  BY <1>1, <1>6, <3>1, <3>2
  <2> QED  BY <2>1, <2>2
<1>15. FoundKept' /\ KeptCounts'
  <2> SUFFICES ASSUME NEW j \in Scopes, Kept(j)'
               PROVE  /\ \A w \in Writers :
                           /\ writer[w].step = "listed" => j \in writer[w].found
                           /\ writer[w].step = "cleared" => cache'[j].value >= writer[w].write
                      /\ cache'[j].value >= announced
    BY <1>9 DEF FoundKept, KeptCounts, ToldMeansCleared, Kept, Cached
  <2>1. CASE j = k
    <3>1. /\ cache'[j].value = Latest
          /\ \A w \in Writers : writer[w].step # "listed"
      BY <1>4, <1>6, <2>1 DEF Kept
    <3> QED  BY <1>1, <3>1 DEF IInv, Bounded, Types
  <2>2. CASE j # k
    <3>1. Kept(j) /\ cache'[j] = cache[j]
      BY <1>6, <2>2 DEF Kept, Cached
    <3> QED  BY <3>1 DEF IInv, Cleared, FoundKept, KeptCounts, ToldMeansCleared, Kept
  <2> QED  BY <2>1, <2>2
<1>16. NeverSilentlyMissed'
  BY <1>9 DEF IInv, NeverSilentlyMissed
<1> QED  BY <1>10, <1>11, <1>12, <1>13, <1>14, <1>15, <1>16 DEF IInv, Aged, Cleared

(* What a step of one writer leaves alone.                                    *)
WriterStep(w, x) ==
    /\ x \in WriterState
    /\ writer' = [writer EXCEPT ![w] = x]

LEMMA WriterStepFacts ==
    ASSUME IInv, NEW w \in Writers, NEW x, WriterStep(w, x)
    PROVE  /\ writer'[w] = x
           /\ \A v \in Writers : v # w => writer'[v] = writer[v]
           /\ writer' \in [Writers -> WriterState]
BY DEF IInv, Types, WriterStep

LEMMA WriteKeepsIInv ==
    ASSUME IInv, NEW w \in Writers, Write(w)
    PROVE  IInv'
<1> DEFINE x == [step |-> "committed", write |-> Latest + 1, found |-> {}]
<1>1. Types /\ Latest \in Nat
  BY DEF IInv, Types, Latest
<1>2. WriterStep(w, x)
  BY <1>1 DEF Write, WriterStep, Steps, WriterState
<1>3. /\ x.step = "committed" /\ x.write = Latest + 1
      /\ writer'[w] = x
      /\ \A v \in Writers : v # w => writer'[v] = writer[v]
      /\ writer' \in [Writers -> WriterState]
  BY <1>2, WriterStepFacts
<1> HIDE DEF x
<1>4. /\ commits' \in Seq(Nat) /\ Latest' = Latest + 1 /\ commits'[Latest + 1] = 0
      /\ \A n \in 1..Latest : commits'[n] = commits[n]
      /\ UNCHANGED <<redis, reader, announced, channel, socket>>
  BY <1>1 DEF Write, Types, Latest
<1>5. Types'
  BY <1>1, <1>3, <1>4 DEF Types, redis
<1>6. Bounded'
  <2>1. \A k \in Scopes : Cached(k)' => cache'[k].value \in 0..Latest' /\ cache'[k].left \in 1..Ttl
    BY <1>1, <1>4 DEF IInv, Bounded, Cached, redis
  <2>2. \A r \in Readers : reader'[r].step = "computed" =>
          reader'[r].scope \in Scopes /\ reader'[r].value \in 0..Latest'
          /\ reader'[r].age \in 0..MaxCompute
    BY <1>1, <1>4 DEF IInv, Bounded
  <2>3. \A v \in Writers : writer'[v].write <= Latest'
    <3> SUFFICES ASSUME NEW v \in Writers PROVE writer'[v].write <= Latest + 1
      BY <1>4
    <3>1. writer[v].write \in Nat /\ writer[v].write <= Latest
      BY <1>1 DEF IInv, Bounded, Types, WriterState
    <3>2. writer'[v].write \in {writer[v].write, Latest + 1}
      BY <1>3
    <3> QED  BY <1>1, <3>1, <3>2
  <2>4. announced' <= Latest'
    BY <1>1, <1>4 DEF IInv, Bounded, Types
  <2> QED  BY <2>1, <2>2, <2>3, <2>4 DEF Bounded
<1>7. EntryAge'
  <2> SUFFICES ASSUME NEW k \in Scopes, NEW n \in 1..(Latest + 1), Cached(k), cache[k].value < n
               PROVE  commits'[n] + cache[k].left <= Ttl + MaxCompute
    BY <1>4 DEF EntryAge, Cached, redis
  <2>1. cache[k].left \in 1..Ttl /\ Ttl \in Nat /\ MaxCompute \in Nat
    BY TotalsAssumption DEF IInv, Bounded
  <2>2. CASE n = Latest + 1
    BY <1>4, <2>1, <2>2
  <2>3. CASE n # Latest + 1
    <3>1. n \in 1..Latest
      BY <1>1, <2>3
    <3> QED  BY <1>4, <3>1 DEF IInv, Aged, EntryAge
  <2> QED  BY <2>2, <2>3
<1>8. ReaderAge'
  <2> SUFFICES ASSUME NEW r \in Readers, NEW n \in 1..(Latest + 1), reader[r].step = "computed",
                      reader[r].value < n
               PROVE  commits'[n] <= reader[r].age
    BY <1>4 DEF ReaderAge
  <2>1. reader[r].age \in 0..MaxCompute /\ MaxCompute \in Nat
    BY TotalsAssumption DEF IInv, Bounded
  <2>2. CASE n = Latest + 1
    BY <1>4, <2>1, <2>2
  <2>3. CASE n # Latest + 1
    <3>1. n \in 1..Latest
      BY <1>1, <2>3
    <3> QED  BY <1>4, <3>1 DEF IInv, Aged, ReaderAge
  <2> QED  BY <2>2, <2>3
<1>9. Cleared'
  BY <1>3, <1>4 DEF IInv, Cleared, IndexListsKept, FoundKept, KeptCounts, ToldMeansCleared, Kept,
     Cached, Listed, redis
<1>10. NeverSilentlyMissed'
  BY <1>4 DEF IInv, NeverSilentlyMissed
<1> QED  BY <1>5, <1>6, <1>7, <1>8, <1>9, <1>10 DEF IInv, Aged

(* A step of a writer that neither commits nor touches an entry.              *)
LEMMA QuietWriterStep ==
    ASSUME IInv, NEW w \in Writers, NEW x, WriterStep(w, x), x.write <= Latest,
           UNCHANGED <<commits, redis, reader, socket>>,
           announced' \in Nat, announced' <= Latest, channel' \in Nat,
           x.step = "listed" => Listed \subseteq x.found,
           x.step # "cleared",
           \A k \in Scopes : Kept(k) => cache[k].value >= announced'
    PROVE  IInv'
<1>1. /\ writer'[w] = x
      /\ \A v \in Writers : v # w => writer'[v] = writer[v]
      /\ writer' \in [Writers -> WriterState]
  BY WriterStepFacts
<1>2. Types'
  BY <1>1 DEF IInv, Types, redis
<1>3. Bounded'
  BY <1>1 DEF IInv, Bounded, Cached, Latest, redis
<1>4. Aged'
  BY DEF IInv, Aged, EntryAge, ReaderAge, Cached, Latest, redis
<1>5. \A k \in Scopes : Kept(k)' <=> Kept(k)
  BY DEF Kept, Cached, redis
<1>6. IndexListsKept'
  BY <1>5 DEF IInv, Cleared, IndexListsKept, Listed, redis
<1>7. FoundKept'
  <2> SUFFICES ASSUME NEW k \in Scopes, NEW v \in Writers, Kept(k), writer'[v].step = "listed"
               PROVE  k \in writer'[v].found
    BY <1>5 DEF FoundKept
  <2>1. k \in Listed
    BY DEF IInv, Cleared, IndexListsKept
  <2>2. CASE v = w
    BY <1>1, <2>1, <2>2
  <2>3. CASE v # w
    BY <1>1, <2>3 DEF IInv, Cleared, FoundKept
  <2> QED  BY <2>2, <2>3
<1>8. KeptCounts'
  <2>1. \A k \in Scopes : cache'[k] = cache[k]
    BY DEF redis
  <2>2. ToldMeansCleared'
    BY <2>1, <1>5 DEF ToldMeansCleared, Kept
  <2>3. \A k \in Scopes, v \in Writers :
           Kept(k)' /\ writer'[v].step = "cleared" => cache'[k].value >= writer'[v].write
    BY <1>1, <1>5, <2>1 DEF IInv, Cleared, KeptCounts
  <2> QED  BY <2>2, <2>3 DEF KeptCounts
<1>9. NeverSilentlyMissed'
  BY DEF IInv, NeverSilentlyMissed
<1> QED  BY <1>2, <1>3, <1>4, <1>6, <1>7, <1>8, <1>9 DEF IInv, Cleared

LEMMA ListKeepsIInv ==
    ASSUME IInv, NEW w \in Writers, List(w)
    PROVE  IInv'
<1> DEFINE x == [step |-> "listed", write |-> writer[w].write, found |-> Listed]
<1>1. /\ writer[w] \in WriterState
      /\ writer \in [Writers -> WriterState]
      /\ Listed \subseteq Scopes
      /\ writer[w].write <= Latest
      /\ announced \in Nat /\ announced <= Latest /\ channel \in Nat
      /\ \A k \in Scopes : Kept(k) => cache[k].value >= announced
  BY DEF IInv, Types, Listed, Bounded, Cleared, KeptCounts, ToldMeansCleared, Kept
<1>2. x.step = "listed" /\ x.found = Listed /\ x.write = writer[w].write
  OBVIOUS
<1>3. WriterStep(w, x)
  <2>1. x \in WriterState
    BY <1>1 DEF Steps, WriterState
  <2>2. writer' = [writer EXCEPT ![w] = x]
    BY <1>1, FoundUpdate, Zenon
  <2> QED  BY <2>1, <2>2 DEF WriterStep
<1>4. UNCHANGED <<commits, redis, reader, announced, channel, socket>>
  BY DEF List
<1> HIDE DEF x
<1> QED  BY <1>1, <1>2, <1>3, <1>4, QuietWriterStep

LEMMA PublishKeepsIInv ==
    ASSUME IInv, NEW w \in Writers, Publish(w)
    PROVE  IInv'
<1> DEFINE x == [step |-> "published", write |-> writer[w].write, found |-> writer[w].found]
<1>1. /\ writer[w] \in WriterState
      /\ writer \in [Writers -> WriterState]
      /\ writer[w].write <= Latest /\ writer[w].step = "cleared"
      /\ announced \in Nat /\ announced <= Latest /\ channel \in Nat
      /\ \A k \in Scopes : Kept(k) => cache[k].value >= announced
      /\ \A k \in Scopes : Kept(k) => cache[k].value >= writer[w].write
  BY DEF IInv, Types, Bounded, Cleared, KeptCounts, ToldMeansCleared, Kept, Publish
<1>2. x.step = "published" /\ x.write = writer[w].write
  OBVIOUS
<1>3. WriterStep(w, x)
  <2>1. x \in WriterState
    BY <1>1 DEF Steps, WriterState
  <2>2. writer' = [writer EXCEPT ![w] = [writer[w] EXCEPT !.step = "published"]]
    BY DEF Publish
  <2>a. [writer[w] EXCEPT !.step = "published"] = x
    BY <1>1 DEF WriterState
  <2>3. writer' = [writer EXCEPT ![w] = x]
    BY <2>2, <2>a
  <2> QED  BY <2>1, <2>3 DEF WriterStep
<1>4. UNCHANGED <<commits, redis, reader, socket>> /\ channel' \in Nat
      /\ announced' \in {announced, writer[w].write}
  BY <1>1 DEF Publish
<1>5. announced' \in Nat /\ announced' <= Latest
      /\ \A k \in Scopes : Kept(k) => cache[k].value >= announced'
  <2>1. writer[w].write \in Nat
    BY <1>1 DEF WriterState
  <2> QED  BY <1>1, <1>4, <2>1
<1> HIDE DEF x
<1> QED  BY <1>1, <1>2, <1>3, <1>4, <1>5, QuietWriterStep

LEMMA FanKeepsIInv ==
    ASSUME IInv, NEW w \in Writers, NEW bridged \in BOOLEAN, NEW low \in BOOLEAN,
           Fan(w, bridged, low)
    PROVE  IInv'
<1>1. /\ announced \in Nat /\ announced <= Latest /\ channel \in Nat /\ Latest \in Nat
      /\ \A k \in Scopes : Kept(k) => cache[k].value >= announced
  BY DEF IInv, Types, Bounded, Cleared, KeptCounts, ToldMeansCleared, Kept, Latest
<1>2. IdleWriter.step = "idle" /\ IdleWriter.write = 0
      /\ IdleWriter \in WriterState
  BY DEF IdleWriter, Steps, WriterState
<1>3. WriterStep(w, IdleWriter) /\ UNCHANGED <<commits, redis, reader, announced, socket>>
  BY <1>2 DEF Fan, WriterStep
<1>4. AnnounceLowStock(w, low, bridged) \in Nat
  BY LowStockCount
<1>5. channel' \in Nat
  BY <1>1, <1>4 DEF Fan
<1>6. IdleWriter.write <= Latest
  BY <1>1, <1>2
<1> QED  BY <1>1, <1>2, <1>3, <1>5, <1>6, QuietWriterStep

(* After an invalidation no entry counts, whether it found them or failed.    *)
LEMMA InvalidationKeepsIInv ==
    ASSUME IInv, NEW w \in Writers, Clear(w) \/ ClearFails(w)
    PROVE  IInv'
<1> DEFINE x == [step |-> "cleared", write |-> writer[w].write, found |-> writer[w].found]
<1>1. /\ writer[w] \in WriterState
      /\ writer \in [Writers -> WriterState]
      /\ cache \in [Scopes -> Entry]
      /\ writer[w].write <= Latest
  BY DEF IInv, Types, Bounded
<1>2. WriterStep(w, x)
  <2>1. x \in WriterState
    BY <1>1 DEF Steps, WriterState
  <2>2. writer' = [writer EXCEPT ![w] = [writer[w] EXCEPT !.step = "cleared"]]
    BY DEF Clear, ClearFails
  <2>a. [writer[w] EXCEPT !.step = "cleared"] = x
    BY <1>1 DEF WriterState
  <2>3. writer' = [writer EXCEPT ![w] = x]
    BY <2>2, <2>a
  <2> QED  BY <2>1, <2>3 DEF WriterStep
<1>3. /\ x.write = writer[w].write
      /\ writer'[w] = x
      /\ \A v \in Writers : v # w => writer'[v] = writer[v]
      /\ writer' \in [Writers -> WriterState]
  BY <1>2, WriterStepFacts
<1> HIDE DEF x
<1>4. UNCHANGED <<commits, reader, announced, channel, socket>>
  BY DEF Clear, ClearFails
<1>5. /\ cache' \in [Scopes -> Entry] /\ index' \in [keys : SUBSET Scopes, left : Nat]
      /\ \A k \in Scopes : Cached(k)' =>
            /\ Cached(k)
            /\ cache'[k].value = cache[k].value /\ cache'[k].left = cache[k].left
            /\ cache'[k].excused
  <2>1. CASE Clear(w)
    <3>1. NoIndex \in [keys : SUBSET Scopes, left : Nat] /\ NoEntry \in Entry
      BY DEF NoIndex, NoEntry, Entry
    <3>2. /\ cache' = [k \in Scopes |-> IF k \in writer[w].found THEN NoEntry ELSE cache[k]]
          /\ index' = NoIndex /\ writer[w].step = "listed"
      BY <2>1 DEF Clear
    <3>3. \A k \in Scopes : Cached(k) /\ k \notin writer[w].found => cache[k].excused
      BY <3>2 DEF IInv, Cleared, FoundKept, Kept
    <3> QED  BY <1>1, <3>1, <3>2, <3>3 DEF Cached
  <2>2. CASE ClearFails(w)
    <3>1. cache' = [k \in Scopes |-> [cache[k] EXCEPT !.excused = Cached(k)]] /\ index' = index
      BY <2>2 DEF ClearFails
    <3>2. index \in [keys : SUBSET Scopes, left : Nat]
      BY DEF IInv, Types
    <3>3. \A k \in Scopes : ~Cached(k) => ~Cached(k)'
      <4> SUFFICES ASSUME NEW k \in Scopes, ~Cached(k) PROVE cache'[k] = NoEntry
        BY DEF Cached
      <4>1. cache'[k] = [NoEntry EXCEPT !.excused = FALSE]
        BY <3>1 DEF Cached
      <4> QED  BY <4>1 DEF NoEntry
    <3>4. \A k \in Scopes : /\ cache'[k] \in Entry
                            /\ cache'[k].value = cache[k].value /\ cache'[k].left = cache[k].left
                            /\ Cached(k) => cache'[k].excused
      <4> SUFFICES ASSUME NEW k \in Scopes
                   PROVE  /\ cache'[k] \in Entry
                          /\ cache'[k].value = cache[k].value /\ cache'[k].left = cache[k].left
                          /\ Cached(k) => cache'[k].excused
        OBVIOUS
      <4> DEFINE b == Cached(k)
      <4>1. b \in BOOLEAN
        BY DEF Cached
      <4>2. cache'[k] = [cache[k] EXCEPT !.excused = b]
        BY <3>1
      <4> HIDE DEF b
      <4>3. cache'[k] \in Entry /\ cache'[k].value = cache[k].value
            /\ cache'[k].left = cache[k].left /\ cache'[k].excused = b
        BY <1>1, <4>1, <4>2 DEF Entry
      <4> QED  BY <4>3 DEF b
    <3>5. cache' \in [Scopes -> Entry]
      BY <3>1, <3>4
    <3> QED  BY <3>1, <3>2, <3>3, <3>4, <3>5
  <2> QED  BY <2>1, <2>2
<1>6. Types'
  BY <1>3, <1>4, <1>5 DEF IInv, Types
<1>7. Bounded'
  BY <1>3, <1>4, <1>5 DEF IInv, Bounded, Latest
<1>8. Aged'
  BY <1>4, <1>5 DEF IInv, Aged, EntryAge, ReaderAge, Latest
<1>9. \A k \in Scopes : ~Kept(k)'
  BY <1>5 DEF Kept
<1>10. Cleared'
  BY <1>9 DEF Cleared, IndexListsKept, FoundKept, KeptCounts, ToldMeansCleared, Kept
<1>11. NeverSilentlyMissed'
  BY <1>4 DEF IInv, NeverSilentlyMissed
<1> QED  BY <1>6, <1>7, <1>8, <1>10, <1>11 DEF IInv

LEMMA TickKeepsIInv ==
    ASSUME IInv, Tick
    PROVE  IInv'
<1>1. Types /\ Latest \in Nat /\ Ttl \in Nat \ {0} /\ MaxCompute \in Nat
  BY TotalsAssumption DEF IInv, Types, Latest
<1>2. \A n \in 1..Latest : commits[n] \in Nat /\ Older(commits[n]) \in Nat
                           /\ Older(commits[n]) <= commits[n] + 1
  BY <1>1 DEF Types, Latest, Older
<1>3. commits' \in Seq(Nat) /\ Latest' = Latest
      /\ \A n \in 1..Latest : commits'[n] \in Nat /\ commits'[n] <= commits[n] + 1
  <2>1. commits' = [n \in 1..Latest |-> Older(commits[n])]
    BY <1>1 DEF Tick, Types, Latest
  <2> QED  BY <1>1, <1>2, <2>1 DEF Latest
<1>4. /\ cache' \in [Scopes -> Entry]
      /\ \A k \in Scopes : Cached(k)' =>
            /\ Cached(k) /\ cache[k].left > 1
            /\ cache'[k].value = cache[k].value /\ cache'[k].left = cache[k].left - 1
            /\ cache'[k].excused = cache[k].excused
  <2> DEFINE later(k) == [value |-> cache[k].value, left |-> cache[k].left - 1,
                          excused |-> cache[k].excused]
  <2>1. cache' = [k \in Scopes |-> IF cache[k].left <= 1 THEN NoEntry ELSE later(k)]
    <3>1. \A e \in Entry : [e EXCEPT !.left = @ - 1]
                             = [value |-> e.value, left |-> e.left - 1, excused |-> e.excused]
      BY DEF Entry
    <3>2. \A k \in Scopes : [cache[k] EXCEPT !.left = @ - 1] = later(k)
      BY <1>1, <3>1 DEF Types
    <3> QED  BY <3>2 DEF Tick
  <2>2. NoEntry \in Entry /\ NoEntry.left = 0
    BY DEF NoEntry, Entry
  <2>3. \A k \in Scopes : cache[k] \in Entry /\ (cache[k].left > 1 => later(k) \in Entry)
    BY <1>1 DEF Types, Entry
  <2>4. cache' \in [Scopes -> Entry]
    BY <2>1, <2>2, <2>3 DEF Entry
  <2>5. ASSUME NEW k \in Scopes, Cached(k)'
        PROVE  /\ Cached(k) /\ cache[k].left > 1
               /\ cache'[k].value = cache[k].value /\ cache'[k].left = cache[k].left - 1
               /\ cache'[k].excused = cache[k].excused
    <3>1. cache[k].left \in Nat
      BY <2>3 DEF Entry
    <3>2. ~(cache[k].left <= 1)
      BY <2>1, <2>5 DEF Cached
    <3>3. cache'[k] = later(k)
      BY <2>1, <3>2
    <3>4. Cached(k)
      BY <2>2, <3>2 DEF Cached
    <3> QED  BY <3>1, <3>2, <3>3, <3>4
  <2> QED  BY <2>4, <2>5
<1>5. /\ index' \in [keys : SUBSET Scopes, left : Nat]
      /\ index.left > 1 => index'.keys = Listed /\ index'.left = index.left - 1
      /\ index.left \in Nat
  <2>1. NoIndex \in [keys : SUBSET Scopes, left : Nat]
    BY DEF NoIndex
  <2>2. index' = IF index.left <= 1 THEN NoIndex ELSE [index EXCEPT !.left = @ - 1]
    BY DEF Tick
  <2>3. index \in [keys : SUBSET Scopes, left : Nat] /\ index.left \in Nat
    BY <1>1 DEF Types
  <2>4. CASE index.left <= 1
    BY <2>1, <2>2, <2>3, <2>4
  <2>5. CASE index.left > 1
    <3>1. index' = [index EXCEPT !.left = @ - 1]
      BY <2>2, <2>3, <2>5
    <3> QED  BY <2>3, <2>5, <3>1 DEF Listed
  <2> QED  BY <2>3, <2>4, <2>5
<1>6. \A r \in Readers :
        /\ reader'[r] \in [step : {"idle", "computed"}, scope : Scopes \cup {IdleReader.scope},
                           value : Nat, age : Nat]
        /\ reader'[r].step = reader[r].step
        /\ reader[r].step = "computed" =>
             /\ reader'[r].scope = reader[r].scope /\ reader'[r].value = reader[r].value
             /\ reader'[r].age = reader[r].age + 1 /\ reader[r].age < MaxCompute
  <2> SUFFICES ASSUME NEW r \in Readers
               PROVE  /\ reader'[r] \in [step : {"idle", "computed"},
                                         scope : Scopes \cup {IdleReader.scope},
                                         value : Nat, age : Nat]
                      /\ reader'[r].step = reader[r].step
                      /\ reader[r].step = "computed" =>
                           /\ reader'[r].scope = reader[r].scope
                           /\ reader'[r].value = reader[r].value
                           /\ reader'[r].age = reader[r].age + 1 /\ reader[r].age < MaxCompute
    OBVIOUS
  <2>1. reader[r] \in [step : {"idle", "computed"}, scope : Scopes \cup {IdleReader.scope},
                       value : Nat, age : Nat]
    BY <1>1 DEF Types
  <2>2. reader'[r] = IF reader[r].step = "computed" THEN [reader[r] EXCEPT !.age = @ + 1]
                     ELSE reader[r]
    BY DEF Tick
  <2>3. reader[r].step = "computed" => reader[r].age < MaxCompute
    BY DEF Tick
  <2> QED  BY <2>1, <2>2, <2>3
<1>7. reader' \in [Readers -> [step : {"idle", "computed"}, scope : Scopes \cup {IdleReader.scope},
                               value : Nat, age : Nat]]
  BY <1>6 DEF Tick
<1>8. UNCHANGED <<writer, announced, channel, socket>>
  BY DEF Tick
<1>9. Types'
  BY <1>1, <1>3, <1>4, <1>5, <1>7, <1>8 DEF Types
<1>10. Bounded'
  <2>1. \A k \in Scopes : Cached(k)' => cache'[k].value \in 0..Latest' /\ cache'[k].left \in 1..Ttl
    BY <1>1, <1>3, <1>4 DEF IInv, Bounded
  <2>2. \A r \in Readers : reader'[r].step = "computed" =>
          reader'[r].scope \in Scopes /\ reader'[r].value \in 0..Latest'
          /\ reader'[r].age \in 0..MaxCompute
    <3> SUFFICES ASSUME NEW r \in Readers, reader'[r].step = "computed"
                 PROVE  reader'[r].scope \in Scopes /\ reader'[r].value \in 0..Latest'
                        /\ reader'[r].age \in 0..MaxCompute
      OBVIOUS
    <3>1. reader[r].step = "computed" /\ reader'[r].scope = reader[r].scope
          /\ reader'[r].value = reader[r].value
          /\ reader'[r].age = reader[r].age + 1 /\ reader[r].age < MaxCompute
      BY <1>6
    <3>2. reader[r].scope \in Scopes /\ reader[r].value \in 0..Latest
          /\ reader[r].age \in 0..MaxCompute
      BY <3>1 DEF IInv, Bounded
    <3> QED  BY <1>1, <1>3, <3>1, <3>2
  <2>3. (\A v \in Writers : writer'[v].write <= Latest') /\ announced' <= Latest'
    BY <1>3, <1>8 DEF IInv, Bounded
  <2> QED  BY <2>1, <2>2, <2>3 DEF Bounded
<1>11. EntryAge'
  <2> SUFFICES ASSUME NEW k \in Scopes, NEW n \in 1..Latest, Cached(k)', cache'[k].value < n
               PROVE  commits'[n] + cache'[k].left <= Ttl + MaxCompute
    BY <1>3 DEF EntryAge
  <2>1. commits[n] + cache[k].left <= Ttl + MaxCompute
    BY <1>4 DEF IInv, Aged, EntryAge
  <2>2. cache[k].left \in Nat /\ cache'[k].left = cache[k].left - 1
    BY <1>1, <1>4 DEF Types, Entry
  <2>3. commits[n] \in Nat /\ commits'[n] \in Nat /\ commits'[n] <= commits[n] + 1
    BY <1>2, <1>3
  <2> QED  BY <1>1, <2>1, <2>2, <2>3
<1>12. ReaderAge'
  <2> SUFFICES ASSUME NEW r \in Readers, NEW n \in 1..Latest, reader'[r].step = "computed",
                      reader'[r].value < n
               PROVE  commits'[n] <= reader'[r].age
    BY <1>3 DEF ReaderAge
  <2>1. commits[n] <= reader[r].age /\ reader[r].age \in Nat /\ reader'[r].age = reader[r].age + 1
    BY <1>1, <1>6 DEF IInv, Aged, ReaderAge, Bounded
  <2> QED  BY <1>2, <1>3, <2>1
<1>13. Cleared'
  <2>1. \A k \in Scopes : Kept(k)' => Kept(k) /\ cache[k].left > 1
                                      /\ cache'[k].value = cache[k].value
                                      /\ cache'[k].left = cache[k].left - 1
    BY <1>4 DEF Kept
  <2>2. IndexListsKept'
    <3> SUFFICES ASSUME NEW k \in Scopes, Kept(k)'
                 PROVE  k \in index'.keys /\ cache'[k].left <= index'.left
      BY DEF IndexListsKept, Listed
    <3>1. k \in Listed /\ cache[k].left <= index.left /\ cache[k].left \in Nat
      BY <1>1, <2>1 DEF IInv, Cleared, IndexListsKept, Types, Entry
    <3> QED  BY <1>5, <2>1, <3>1
  <2>3. FoundKept'
    BY <1>8, <2>1 DEF IInv, Cleared, FoundKept
  <2>4. KeptCounts'
    BY <1>8, <2>1 DEF IInv, Cleared, KeptCounts, ToldMeansCleared, Kept
  <2> QED  BY <2>2, <2>3, <2>4 DEF Cleared
<1>14. NeverSilentlyMissed'
  BY <1>8 DEF IInv, NeverSilentlyMissed
<1> QED  BY <1>9, <1>10, <1>11, <1>12, <1>13, <1>14 DEF IInv, Aged

LEMMA Step == IInv /\ [Next]_vars => IInv'
<1> SUFFICES ASSUME IInv, [Next]_vars PROVE IInv'
  OBVIOUS
<1>1. CASE UNCHANGED vars
  BY <1>1, TotalsApart DEF vars, redis, IInv, Types, NeverSilentlyMissed
<1>2. ASSUME NEW r \in Readers,
             (\E k \in Scopes : Hit(r, k) \/ Compute(r, k)) \/ Store(r) \/ StoreFails(r)
      PROVE  IInv'
  BY <1>1, <1>2, ComputeKeepsIInv, StoreKeepsIInv, StoreFailsKeepsIInv DEF Hit
<1>3. ASSUME NEW w \in Writers,
             \/ Write(w) \/ List(w) \/ Clear(w) \/ ClearFails(w) \/ Publish(w)
             \/ \E bridged, low \in BOOLEAN : Fan(w, bridged, low)
      PROVE  IInv'
  BY <1>3, WriteKeepsIInv, ListKeepsIInv, InvalidationKeepsIInv, PublishKeepsIInv, FanKeepsIInv
<1>4. ASSUME NEW s \in Sockets, Subscribe(s) \/ Deliver(s) \/ Lagged(s) \/ Close(s)
      PROVE  IInv'
  BY <1>4, SocketsKeepUp
<1>5. CASE Tick
  BY <1>5, TickKeepsIInv
<1> QED  BY <1>1, <1>2, <1>3, <1>4, <1>5 DEF Next

-----------------------------------------------------------------------------
(* The theorems.                                                              *)
THEOREM Inductive == Spec => []IInv
BY Initially, Step, PTL DEF Spec

(* Whatever fails or overlaps, cached totals leave out no write that is older *)
(* than the lifetime of an entry and the time it takes to compute it          *)
(* (dashboard_cache.rs write).                                                *)
THEOREM TotalsAgeOut == Spec => []StaleAtMostTtl
<1>1. IInv => StaleAtMostTtl
  <2> SUFFICES ASSUME IInv, NEW k \in Scopes, NEW n \in DOMAIN commits, Cached(k),
                      cache[k].value < n
               PROVE  commits[n] <= Ttl + MaxCompute
    BY DEF StaleAtMostTtl
  <2>1. n \in 1..Latest /\ commits[n] \in Nat
    BY DEF IInv, Types, Latest
  <2>2. commits[n] + cache[k].left <= Ttl + MaxCompute
    BY <2>1 DEF IInv, Aged, EntryAge
  <2>3. cache[k].left \in 1..Ttl /\ Ttl \in Nat /\ MaxCompute \in Nat
    BY TotalsAssumption DEF IInv, Bounded
  <2> QED  BY <2>1, <2>2, <2>3
<1> QED  BY <1>1, Inductive, PTL

(* When a write is announced, no entry that counts is without it              *)
(* (sale_service.rs, expense_service.rs, dashboard_cache.rs invalidate_store).*)
THEOREM AnnouncedAfterClearing == Spec => []ToldMeansCleared
<1>1. IInv => ToldMeansCleared
  BY DEF IInv, Cleared, KeptCounts
<1> QED  BY <1>1, Inductive, PTL

(* A phone whose socket fell behind is told so (websocket_route.rs            *)
(* pump_events).                                                              *)
THEOREM NothingSilentlyMissed == Spec => []NeverSilentlyMissed
<1>1. IInv => NeverSilentlyMissed
  BY DEF IInv
<1> QED  BY <1>1, Inductive, PTL
=============================================================================
