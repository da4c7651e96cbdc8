-------------------------- MODULE PullCursorProofs --------------------------
(***************************************************************************)
(* A phone misses nothing: for every table, every page size and every      *)
(* interleaving of writers and downloads, but for the rows of transactions *)
(* that outlived the settle window.                                        *)
(***************************************************************************)
EXTENDS PullCursor, FiniteSetTheorems, TLAPS

(***************************************************************************)
(* The inductive invariant.                                                *)
(***************************************************************************)
\* A mark that a pull may have left has settled.
Past(m) == m = Origin \/ m.stamp + Settle < now

\* The cursor and the page's end are settled, and the page's end is not before
\* the cursor.
Timing ==
  /\ Past(cursor)
  /\ pull.at \in {"rows", "lines", "applied"} => Past(pull.last) /\ UpTo(cursor, pull.last)

\* Up to the end of the page, every row is in the page or on the phone.
PageComplete ==
  \A k \in Keys \ slow :
    row[k].version > 0 /\ UpTo(MarkOf(k), pull.last) =>
      /\ pull.at \in {"rows", "lines"} =>
           (IF InPage(k) THEN pull.head[k] ELSE copy[k].head) = row[k].version
      /\ pull.at = "applied" => copy[k].head = row[k].version

\* What was read is not newer than the table, and lines not older than rows.
ReadInOrder ==
  \A k \in Keys :
    /\ pull.at = "rows" => pull.head[k] <= row[k].version
    /\ pull.at = "lines" /\ InPage(k) => pull.head[k] <= pull.lines[k]

IInv == TypeOK /\ Timing /\ NothingMissed /\ PageComplete /\ ReadInOrder /\ LinesNotOlder

(***************************************************************************)
(* Type correctness.                                                       *)
(***************************************************************************)
\* Marks are compared lexicographically: a total order.
LEMMA MarkOrder ==
  /\ \A m \in Mark : m.stamp \in Nat /\ m.id \in Nat
  /\ \A m, n \in Mark : UpTo(m, n) \/ UpTo(n, m)
  /\ \A m, n \in Mark : UpTo(m, n) /\ UpTo(n, m) => m = n
  /\ \A l, m, n \in Mark : UpTo(l, m) /\ UpTo(m, n) => UpTo(l, n)
<1>0. \A m \in Mark : m \in [stamp : Nat, id : Nat]
  <2>1. Keys \subseteq Nat
    BY KeyAssumption
  <2>2. \A m \in [stamp : Nat, id : Keys] : m \in [stamp : Nat, id : Nat]
    BY <2>1
  <2>3. Origin \in [stamp : Nat, id : Nat]
    BY DEF Origin
  <2> QED  BY <2>2, <2>3 DEF Mark
<1>1. \A m \in Mark : m.stamp \in Nat /\ m.id \in Nat
  BY <1>0
<1>2. \A m, n \in Mark : m.stamp = n.stamp /\ m.id = n.id => m = n
  BY <1>0
<1> QED  BY <1>1, <1>2 DEF UpTo

\* The row of k has a mark, which decides k.
LEMMA RowMarks ==
  ASSUME TypeOK
  PROVE  /\ \A k \in Keys : MarkOf(k) \in Mark
         /\ \A j, k \in Keys : MarkOf(j) = MarkOf(k) => j = k
BY DEF TypeOK, MarkOf, Mark

\* A page that is not empty has a last row.
LEMMA PageHasLast ==
  ASSUME TypeOK, Page # {}
  PROVE  \E k \in Page : \A j \in Page : UpTo(MarkOf(j), MarkOf(k))
<1> DEFINE After(k) == {j \in Page : ~UpTo(MarkOf(j), MarkOf(k))}
           Afters == {After(k) : k \in Page}
<1>1. Page \subseteq Keys
  BY DEF Page, Eligible
<1>2. IsFiniteSet(Page)
  BY <1>1, KeyAssumption, FS_Subset
<1>3. IsWellFoundedOn(StrictSubsetOrdering(Page), SUBSET Page)
  BY <1>2, FS_StrictSubsetOrderingWellFounded, FS_FiniteSubsetsOfFinite
<1>4. Afters \subseteq SUBSET Page /\ Afters # {}
  OBVIOUS
<1>5. PICK a \in Afters : \A b \in Afters : <<b, a>> \notin StrictSubsetOrdering(Page)
  <2> HIDE DEF Afters
  <2> QED  BY <1>3, <1>4, WFMin
<1>6. PICK k \in Page : a = After(k)
  OBVIOUS
<1>7. ASSUME NEW j \in Page, ~UpTo(MarkOf(j), MarkOf(k))
      PROVE  FALSE
  <2>1. MarkOf(j) \in Mark /\ MarkOf(k) \in Mark
    BY <1>1, RowMarks
  <2>2. UpTo(MarkOf(k), MarkOf(j)) /\ UpTo(MarkOf(j), MarkOf(j))
    BY <1>7, <2>1, MarkOrder
  <2>3. After(j) \subseteq After(k)
    BY <1>1, <2>1, <2>2, MarkOrder, RowMarks
  <2>4. j \in After(k) /\ j \notin After(j)
    BY <1>7, <2>2
  <2>5. <<After(j), After(k)>> \in StrictSubsetOrdering(Page)
    BY <2>3, <2>4 DEF StrictSubsetOrdering
  <2> QED  BY <1>5, <1>6, <2>5
<1> QED  BY <1>7

\* The mark of a page's end: the cursor if the page is empty, else the mark of
\* a row of the page.
LEMMA LastMark ==
  ASSUME TypeOK
  PROVE  \/ Page = {} /\ LastOf(Page) = cursor
         \/ \E k \in Page : LastOf(Page) = MarkOf(k)
<1>1. CASE Page = {}
  BY <1>1 DEF LastOf
<1>2. CASE Page # {}
  BY <1>2, PageHasLast DEF LastOf
<1> QED  BY <1>1, <1>2

LEMMA PageKeys == Page \subseteq Keys
BY DEF Page, Eligible

\* Types are inductive.
LEMMA TypeStep == TypeOK /\ [Next]_vars => TypeOK'
<1> SUFFICES ASSUME TypeOK, [Next]_vars PROVE TypeOK'
  OBVIOUS
<1> USE DEF TypeOK
<1>1. CASE Tick
  BY <1>1, BoundAssumption DEF Tick
<1>2. ASSUME NEW w \in Writers, Begin(w) PROVE TypeOK'
  BY <1>2 DEF Begin
<1>3. ASSUME NEW w \in Writers, NEW k \in Keys, Write(w, k) PROVE TypeOK'
  BY <1>3 DEF Write
<1>4. ASSUME NEW w \in Writers, Commit(w) PROVE TypeOK'
  BY <1>4 DEF Commit, NoTxn
<1>5. ASSUME NEW w \in Writers, Abort(w) PROVE TypeOK'
  BY <1>5 DEF Abort, NoTxn
<1>6. NoPull \in [at : {"idle"}, head : [Keys -> Nat], lines : [Keys -> Nat],
                  last : Mark, more : BOOLEAN]
  BY DEF NoPull, Nothing, Mark
<1>7. CASE Ask
  BY <1>6, <1>7 DEF Ask
<1>8. CASE ReadRows
  <2>1. LastOf(Page) \in Mark
    BY LastMark, RowMarks, PageKeys
  <2>2. [k \in Keys |-> IF k \in Page THEN row[k].version ELSE 0] \in [Keys -> Nat]
    OBVIOUS
  <2>3. (Cardinality(Page) >= PageSize) \in BOOLEAN
    OBVIOUS
  <2> HIDE DEF Page
  <2> QED  BY <1>8, <2>1, <2>2, <2>3 DEF ReadRows
<1>9. CASE ReadLines
  BY <1>9 DEF ReadLines
<1>10. CASE Apply
  BY <1>10 DEF Apply, NewLines
<1>11. CASE SaveCursor
  BY <1>6, <1>11 DEF SaveCursor
<1>12. CASE Interrupt
  BY <1>6, <1>12 DEF Interrupt
<1>13. CASE ClearCursor
  BY <1>13 DEF ClearCursor, Mark
<1>14. CASE UNCHANGED vars
  BY <1>14 DEF vars
<1> QED
  BY <1>1, <1>2, <1>3, <1>4, <1>5, <1>7, <1>8, <1>9, <1>10, <1>11, <1>12, <1>13, <1>14
  DEF Next, Database, Fetch

LEMMA TypeInit == Init => TypeOK
BY DEF Init, TypeOK, NoTxn, NoPull, Nothing, Mark

\* The variables of the server and the phone keep their types (all actions).
THEOREM TypeCorrect == Spec => []TypeOK
<1> QED  BY TypeInit, TypeStep, PTL DEF Spec

(***************************************************************************)
(* The steps of the invariant.                                             *)
(***************************************************************************)
\* A row that a transaction writes within the settle window lies beyond every
\* mark a pull may have left: it began after the mark had settled.
LEMMA OpenIsLater ==
  ASSUME TypeOK, NEW w \in Writers, ~Overran(w), NEW k \in Keys, NEW m \in Mark, Past(m)
  PROVE  ~UpTo([stamp |-> txn[w].began, id |-> k], m)
<1>1. now \in Nat /\ txn[w].began \in Nat /\ Settle \in Nat
  BY BoundAssumption DEF TypeOK
<1>2. now <= txn[w].began + Settle
  BY <1>1 DEF Overran
<1>3. k \in Nat /\ k > 0
  BY KeyAssumption
<1>4. CASE m = Origin
  BY <1>1, <1>3, <1>4 DEF UpTo, Origin
<1>5. CASE m.stamp + Settle < now
  <2>1. m.stamp \in Nat
    BY MarkOrder
  <2>2. m.stamp < txn[w].began
    BY <1>1, <1>2, <1>5, <2>1
  <2> QED  BY <1>1, <2>1, <2>2 DEF UpTo
<1> QED  BY <1>4, <1>5 DEF Past

\* What ORDER BY and LIMIT guarantee: a row up to the end of the page that the
\* cursor had not passed is in the page.
LEMMA PageCovers ==
  ASSUME TypeOK, NEW k \in Keys, row[k].version > 0,
         UpTo(MarkOf(k), LastOf(Page)), ~UpTo(MarkOf(k), cursor)
  PROVE  k \in Page
<1> DEFINE Before(i) == {j \in Eligible : j # i /\ UpTo(MarkOf(j), MarkOf(i))}
<1>1. PICK l \in Page : LastOf(Page) = MarkOf(l)
  BY LastMark
<1>2. l \in Keys /\ l \in Eligible /\ Settled(l) /\ Cardinality(Before(l)) < PageSize
  BY <1>1 DEF Page, Eligible
<1>3. UpTo(MarkOf(k), MarkOf(l)) /\ MarkOf(k) \in Mark /\ MarkOf(l) \in Mark
  BY <1>1, <1>2, RowMarks
<1>4. k \in Eligible
  <2>1. row[k].stamp <= row[l].stamp
    BY <1>2, <1>3 DEF UpTo, MarkOf, TypeOK
  <2>2. row[l].stamp < now - Settle
    BY <1>2 DEF Settled
  <2>3. row[k].stamp < now - Settle
    BY <1>2, <2>1, <2>2, BoundAssumption DEF TypeOK
  <2> QED  BY <2>3 DEF Eligible, Settled
<1>5. CASE k = l
  BY <1>5
<1>6. CASE k # l
  <2>1. Before(k) \subseteq Before(l)
    <3> SUFFICES ASSUME NEW j \in Eligible, j # k, UpTo(MarkOf(j), MarkOf(k))
                 PROVE  j # l /\ UpTo(MarkOf(j), MarkOf(l))
      OBVIOUS
    <3>1. j \in Keys /\ MarkOf(j) \in Mark
      BY RowMarks DEF Eligible
    <3>2. UpTo(MarkOf(j), MarkOf(l))
      BY <1>3, <3>1, MarkOrder
    <3>3. j # l
      BY <1>2, <1>3, <1>6, <3>1, MarkOrder, RowMarks
    <3> QED  BY <3>2, <3>3
  <2>2. IsFiniteSet(Before(l)) /\ IsFiniteSet(Before(k))
    <3>1. Before(l) \subseteq Keys /\ Before(k) \subseteq Keys
      BY DEF Eligible
    <3> QED  BY <3>1, KeyAssumption, FS_Subset
  <2>3. Cardinality(Before(k)) <= Cardinality(Before(l))
    <3> HIDE DEF Before
    <3> QED  BY <2>1, <2>2, FS_Subset
  <2>4. Cardinality(Before(k)) \in Nat /\ Cardinality(Before(l)) \in Nat
    <3> HIDE DEF Before
    <3> QED  BY <2>2, FS_CardinalityType
  <2>5. Cardinality(Before(k)) < PageSize
    <3> HIDE DEF Before
    <3> QED  BY <1>2, <2>3, <2>4, BoundAssumption
  <2> QED  BY <1>4, <2>5 DEF Page
<1> QED  BY <1>5, <1>6

\* The end of a page has settled and is not before the cursor.
LEMMA LastIsPast ==
  ASSUME TypeOK, Timing
  PROVE  Past(LastOf(Page)) /\ UpTo(cursor, LastOf(Page))
<1>1. cursor \in Mark
  BY DEF TypeOK
<1>2. CASE LastOf(Page) = cursor
  BY <1>1, <1>2, MarkOrder DEF Timing
<1>3. ASSUME NEW k \in Page, LastOf(Page) = MarkOf(k)
      PROVE  Past(LastOf(Page)) /\ UpTo(cursor, LastOf(Page))
  <2>1. k \in Keys /\ Settled(k) /\ ~UpTo(MarkOf(k), cursor)
    BY <1>3 DEF Page, Eligible
  <2>2. UpTo(cursor, MarkOf(k))
    BY <1>1, <2>1, MarkOrder, RowMarks
  <2>3. row[k].stamp + Settle < now
    BY <2>1, BoundAssumption DEF Settled, TypeOK
  <2> QED  BY <1>3, <2>2, <2>3 DEF Past, MarkOf
<1> QED  BY <1>2, <1>3, LastMark

Complete == NothingMissed /\ PageComplete /\ ReadInOrder /\ LinesNotOlder

\* A commit moves its rows beyond the cursor and the page; the others stay.
LEMMA CommitStep ==
  ASSUME IInv, TypeOK', NEW w \in Writers, Commit(w)
  PROVE  IInv'
<1> USE DEF Commit
<1>1. UNCHANGED <<now, cursor, copy, pull>>
  OBVIOUS
<1>2. Timing'
  BY DEF IInv, Timing, Past, UpTo, NoTxn, TypeOK
<1>3. ASSUME NEW k \in Keys
      PROVE  \/ row'[k] = row[k] /\ (k \in slow' <=> k \in slow)
             \/ row'[k].version = row[k].version + 1 /\ k \in slow'
             \/ /\ row'[k].version = row[k].version + 1
                /\ \A m \in Mark : Past(m) => ~UpTo(MarkOf(k)', m)
  <2>1. CASE k \notin txn[w].keys
    BY <2>1
  <2>2. CASE k \in txn[w].keys
    <3>1. row'[k] = [stamp |-> txn[w].began, version |-> row[k].version + 1]
      BY <2>2
    <3>2. MarkOf(k)' = [stamp |-> txn[w].began, id |-> k]
      BY <3>1 DEF MarkOf
    <3>3. CASE Overran(w)
      BY <2>2, <3>1, <3>3
    <3>4. CASE ~Overran(w)
      BY <3>1, <3>2, <3>4, OpenIsLater DEF IInv
    <3> QED  BY <3>3, <3>4
  <2> QED  BY <2>1, <2>2
<1>4. \A k \in Keys : row'[k].version >= row[k].version
  BY <1>3 DEF IInv, TypeOK
<1>5. cursor \in Mark /\ pull.last \in Mark /\ Past(cursor)
  BY DEF IInv, TypeOK, Timing
<1>6. \A k \in Keys : row'[k] = row[k] => MarkOf(k)' = MarkOf(k)
  BY DEF MarkOf
<1>7. NothingMissed'
  <2> SUFFICES ASSUME NEW k \in Keys, k \notin slow', row'[k].version > 0,
                      UpTo(MarkOf(k)', cursor)
               PROVE  copy[k].head = row'[k].version
    BY <1>1 DEF NothingMissed, UpTo
  <2>1. row'[k] = row[k] /\ k \notin slow
    BY <1>3, <1>5
  <2> QED  BY <1>6, <2>1 DEF IInv, NothingMissed
<1>8. PageComplete'
  <2> SUFFICES ASSUME NEW k \in Keys, k \notin slow', row'[k].version > 0,
                      UpTo(MarkOf(k)', pull.last), pull.at \in {"rows", "lines", "applied"}
               PROVE  /\ pull.at \in {"rows", "lines"} =>
                           (IF InPage(k) THEN pull.head[k] ELSE copy[k].head) = row'[k].version
                      /\ pull.at = "applied" => copy[k].head = row'[k].version
    BY <1>1 DEF PageComplete, UpTo, InPage
  <2>1. row'[k] = row[k] /\ k \notin slow
    BY <1>3, <1>5 DEF IInv, Timing
  <2> QED  BY <1>6, <2>1 DEF IInv, PageComplete
<1>9. ReadInOrder'
  BY <1>4, <1>1 DEF IInv, ReadInOrder, TypeOK, InPage
<1>10. LinesNotOlder'
  BY <1>1 DEF IInv, LinesNotOlder
<1> QED  BY <1>2, <1>7, <1>8, <1>9, <1>10 DEF IInv

\* A page is complete up to its end.
LEMMA ReadRowsStep ==
  ASSUME IInv, TypeOK', ReadRows
  PROVE  IInv'
<1> USE DEF IInv
<1>1. /\ UNCHANGED <<now, row, txn, slow, cursor, copy>>
      /\ pull'.at = "rows" /\ pull'.last = LastOf(Page)
      /\ pull'.head = [k \in Keys |-> IF k \in Page THEN row[k].version ELSE 0]
  BY DEF ReadRows, TypeOK
<1>2. Timing'
  BY <1>1, LastIsPast DEF Timing, Past, UpTo
<1>3. NothingMissed'
  BY <1>1 DEF NothingMissed, MarkOf, UpTo
<1>4. PageComplete'
  <2> SUFFICES ASSUME NEW k \in Keys \ slow, row[k].version > 0, UpTo(MarkOf(k), LastOf(Page))
               PROVE  (IF pull'.head[k] > 0 THEN pull'.head[k] ELSE copy[k].head) = row[k].version
    BY <1>1 DEF PageComplete, UpTo, InPage, MarkOf
  <2>1. CASE k \in Page
    BY <1>1, <2>1
  <2>2. CASE k \notin Page
    <3>1. UpTo(MarkOf(k), cursor)
      BY <2>2, PageCovers
    <3> QED  BY <1>1, <2>2, <3>1 DEF NothingMissed
  <2> QED  BY <2>1, <2>2
<1>5. ReadInOrder'
  BY <1>1 DEF ReadInOrder, TypeOK
<1>6. LinesNotOlder'
  BY <1>1 DEF LinesNotOlder
<1> QED  BY <1>2, <1>3, <1>4, <1>5, <1>6

\* Applying a page leaves every row up to its end on the phone, those that the
\* cursor had passed among them.
LEMMA ApplyStep ==
  ASSUME IInv, TypeOK', Apply
  PROVE  IInv'
<1> USE DEF IInv
<1>1. /\ UNCHANGED <<now, row, txn, slow, cursor>>
      /\ pull.at = "lines" /\ pull'.at = "applied" /\ pull'.last = pull.last
      /\ copy' = [k \in Keys |-> IF InPage(k)
                                 THEN [head |-> pull.head[k], lines |-> pull.lines[k]]
                                 ELSE copy[k]]
  BY DEF Apply, TypeOK, NewLines
<1>2. Timing'
  BY <1>1 DEF Timing, Past, UpTo
<1>3. ASSUME NEW k \in Keys \ slow, row[k].version > 0, UpTo(MarkOf(k), pull.last)
      PROVE  copy'[k].head = row[k].version
  BY <1>1, <1>3 DEF PageComplete
<1>4. NothingMissed'
  <2>1. \A k \in Keys : UpTo(MarkOf(k), cursor) => UpTo(MarkOf(k), pull.last)
    BY <1>1, RowMarks, MarkOrder DEF Timing, TypeOK
  <2>2. \A k \in Keys \ slow : row[k].version > 0 /\ UpTo(MarkOf(k), cursor) =>
                                 copy'[k].head = row[k].version
    BY <1>3, <2>1
  <2> QED  BY <1>1, <2>2 DEF NothingMissed, MarkOf, UpTo
<1>5. PageComplete'
  BY <1>1, <1>3 DEF PageComplete, MarkOf, UpTo
<1>6. ReadInOrder'
  BY <1>1 DEF ReadInOrder
<1>7. LinesNotOlder'
  BY <1>1 DEF LinesNotOlder, ReadInOrder, TypeOK
<1> QED  BY <1>2, <1>4, <1>5, <1>6, <1>7

LEMMA Inductive == IInv /\ [Next]_vars => IInv'
<1> SUFFICES ASSUME IInv, [Next]_vars PROVE IInv'
  OBVIOUS
<1>0. TypeOK'
  BY TypeStep DEF IInv
<1> USE <1>0 DEF IInv
<1> DEFINE Parts == {"idle", "asked"}
<1>1. ASSUME UNCHANGED <<now, row, txn, slow, cursor, copy>>, pull'.at \in Parts
      PROVE  Timing' /\ Complete'
  BY <1>1 DEF Timing, Past, UpTo, Complete, NothingMissed, MarkOf, PageComplete, ReadInOrder,
              LinesNotOlder
<1>2. CASE Tick
  <2>1. UNCHANGED <<row, txn, slow, cursor, copy, pull>> /\ now' = now + 1
    BY <1>2 DEF Tick
  <2>2. \A m \in Mark : Past(m) => Past(m)'
    BY <2>1, MarkOrder, BoundAssumption DEF Past, TypeOK
  <2>3. Timing'
    BY <2>1, <2>2 DEF Timing, UpTo, TypeOK
  <2> QED  BY <2>1, <2>3 DEF NothingMissed, MarkOf, UpTo, PageComplete, InPage, ReadInOrder,
                             LinesNotOlder
<1>3. ASSUME NEW w \in Writers, Begin(w) PROVE IInv'
  <2>1. UNCHANGED <<now, row, slow, cursor, copy, pull>>
    BY <1>3 DEF Begin
  <2>2. Timing'
    BY <1>3, <2>1, BoundAssumption DEF Begin, Timing, Past, UpTo, TypeOK
  <2> QED  BY <2>1, <2>2 DEF NothingMissed, MarkOf, UpTo, PageComplete, InPage, ReadInOrder,
                             LinesNotOlder
<1>4. ASSUME NEW w \in Writers, NEW k \in Keys, Write(w, k) PROVE IInv'
  <2>1. UNCHANGED <<now, row, slow, cursor, copy, pull>>
    BY <1>4 DEF Write
  <2>2. Timing'
    BY <1>4, <2>1 DEF Write, Timing, Past, UpTo, TypeOK
  <2> QED  BY <2>1, <2>2 DEF NothingMissed, MarkOf, UpTo, PageComplete, InPage, ReadInOrder,
                             LinesNotOlder
<1>5. ASSUME NEW w \in Writers, Commit(w) PROVE IInv'
  BY <1>5, CommitStep
<1>6. ASSUME NEW w \in Writers, Abort(w) PROVE IInv'
  <2>1. UNCHANGED <<now, row, slow, cursor, copy, pull>>
    BY <1>6 DEF Abort
  <2>2. Timing'
    BY <1>6, <2>1 DEF Abort, NoTxn, Timing, Past, UpTo, TypeOK
  <2> QED  BY <2>1, <2>2 DEF NothingMissed, MarkOf, UpTo, PageComplete, InPage, ReadInOrder,
                             LinesNotOlder
<1>7. CASE Ask
  <2>1. UNCHANGED <<now, row, txn, slow, cursor, copy>> /\ pull'.at = "asked"
    BY <1>7 DEF Ask, NoPull
  <2> QED  BY <1>1, <2>1 DEF Complete
<1>8. CASE ReadRows
  BY <1>8, ReadRowsStep
<1>9. CASE ReadLines
  <2>1. /\ UNCHANGED <<now, row, txn, slow, cursor, copy>>
        /\ pull.at = "rows" /\ pull'.at = "lines" /\ pull'.last = pull.last
        /\ pull'.head = pull.head
        /\ pull'.lines = [k \in Keys |-> IF InPage(k) THEN row[k].version ELSE 0]
    BY <1>9 DEF ReadLines, TypeOK
  <2>2. Timing'
    BY <2>1 DEF Timing, Past, UpTo
  <2>3. NothingMissed' /\ PageComplete' /\ LinesNotOlder'
    BY <2>1 DEF NothingMissed, MarkOf, UpTo, PageComplete, InPage, LinesNotOlder
  <2>4. ReadInOrder'
    BY <2>1 DEF ReadInOrder, InPage
  <2> QED  BY <2>2, <2>3, <2>4
<1>10. CASE Apply
  BY <1>10, ApplyStep
<1>11. CASE SaveCursor
  <2>1. /\ UNCHANGED <<now, row, txn, slow, copy>>
        /\ pull.at = "applied" /\ cursor' = pull.last /\ pull'.at \in Parts
    BY <1>11 DEF SaveCursor, NoPull
  <2>2. Timing'
    BY <2>1 DEF Timing, Past
  <2>3. NothingMissed'
    BY <2>1 DEF NothingMissed, MarkOf, UpTo, PageComplete
  <2> QED  BY <2>1, <2>2, <2>3 DEF PageComplete, ReadInOrder, LinesNotOlder
<1>12. CASE Interrupt
  <2>1. UNCHANGED <<now, row, txn, slow, cursor, copy>> /\ pull'.at = "idle"
    BY <1>12 DEF Interrupt, NoPull
  <2> QED  BY <1>1, <2>1 DEF Complete
<1>13. CASE ClearCursor
  <2>1. UNCHANGED <<now, row, txn, slow, copy, pull>> /\ pull.at = "idle" /\ cursor' = Origin
    BY <1>13 DEF ClearCursor
  <2>2. Timing'
    BY <2>1 DEF Timing, Past
  <2>3. NothingMissed'
    BY <2>1, KeyAssumption DEF NothingMissed, MarkOf, UpTo, Origin, TypeOK
  <2> QED  BY <2>1, <2>2, <2>3 DEF PageComplete, ReadInOrder, LinesNotOlder
<1>14. CASE UNCHANGED vars
  BY <1>14 DEF vars, Timing, Past, UpTo, NothingMissed, MarkOf, PageComplete, InPage,
               ReadInOrder, LinesNotOlder
<1> QED
  BY <1>2, <1>3, <1>4, <1>5, <1>6, <1>7, <1>8, <1>9, <1>10, <1>11, <1>12, <1>13, <1>14
  DEF Next, Database, Fetch

LEMMA InvariantInit == Init => IInv
<1> SUFFICES ASSUME Init PROVE IInv
  OBVIOUS
<1>1. TypeOK
  BY TypeInit
<1>2. Timing
  BY DEF Init, Timing, NoTxn, NoPull, Past
<1>3. NothingMissed /\ PageComplete /\ ReadInOrder /\ LinesNotOlder
  BY DEF Init, NothingMissed, PageComplete, ReadInOrder, LinesNotOlder, NoPull
<1> QED  BY <1>1, <1>2, <1>3 DEF IInv

THEOREM Invariance == Spec => []IInv
<1> QED  BY InvariantInit, Inductive, PTL DEF Spec

(***************************************************************************)
(* What follows from the invariant.                                        *)
(***************************************************************************)
\* The phone holds the present version of every row its cursor has passed and
\* that no transaction wrote which outlived the settle window, whatever the page
\* size and however writers and downloads interleave
\* (SyncRepository::changed_since, _pullChanges).
THEOREM NeverMissed == Spec => []NothingMissed
<1>1. IInv => NothingMissed
  BY DEF IInv
<1> QED  BY Invariance, <1>1, PTL

\* A sale is never shown with lines older than itself (lines_for_sales).
THEOREM LinesFresh == Spec => []LinesNotOlder
<1>1. IInv => LinesNotOlder
  BY DEF IInv
<1> QED  BY Invariance, <1>1, PTL
=============================================================================
