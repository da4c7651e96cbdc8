----------------------------- MODULE PullCursor -----------------------------
(***************************************************************************)
(* How a phone downloads what changed in one table of its store.           *)
(*                                                                         *)
(* On the server, transactions stamp the rows they write with the time at  *)
(* which the transaction began (now() in PostgreSQL) and make them visible *)
(* when they commit.  A page holds the rows after the phone's cursor in    *)
(* the order of (updated_at, id), but only rows older than the settle      *)
(* window.  The lines of the sales of a page are read by a second          *)
(* statement.  The phone applies a page in one SQLite transaction and      *)
(* saves the cursor afterwards.                                            *)
(*                                                                         *)
(* The five tables are paged independently, so one is modelled.  A row's   *)
(* content is the number of times it has been written.                     *)
(***************************************************************************)
EXTENDS Integers, FiniteSets

CONSTANTS
  Keys,       \* ids of rows, which PostgreSQL orders
  Writers,    \* transactions that run at the same time
  PageSize,   \* KITAZA_SYNC_PAGE_SIZE
  Settle,     \* the settle window, in ticks
  LastBegin,  \* bound: no transaction begins later
  LastTick,   \* bound on time
  MaxVersion  \* bound on the writes of a row

ASSUME KeyAssumption == Keys \subseteq Nat \ {0} /\ IsFiniteSet(Keys)
ASSUME BoundAssumption ==
  /\ {PageSize, Settle, LastBegin, LastTick, MaxVersion} \subseteq Nat
  /\ PageSize > 0

VARIABLES
  now,      \* the database's clock
  row,      \* row[k]: the committed row, version 0 if there is none
  txn,      \* txn[w]: the open transaction of w
  slow,     \* rows whose present version a slow transaction wrote
  cursor,   \* the mark the phone has saved
  copy,     \* copy[k]: the phone's row and lines
  pull      \* the page being fetched

vars == <<now, row, txn, slow, cursor, copy, pull>>

\* TableMark: a position in the order of (updated_at, id).
Origin == [stamp |-> 0, id |-> 0]
Mark == {Origin} \cup [stamp : Nat, id : Keys]
UpTo(m, n) == m.stamp < n.stamp \/ (m.stamp = n.stamp /\ m.id <= n.id)

NoTxn == [open |-> FALSE, began |-> 0, keys |-> {}]
Nothing == [k \in Keys |-> 0]
NoPull == [at |-> "idle", head |-> Nothing, lines |-> Nothing, last |-> Origin, more |-> FALSE]

TypeOK ==
  /\ now \in Nat
  /\ row \in [Keys -> [stamp : Nat, version : Nat]]
  /\ txn \in [Writers -> [open : BOOLEAN, began : Nat, keys : SUBSET Keys]]
  /\ slow \subseteq Keys
  /\ cursor \in Mark
  /\ copy \in [Keys -> [head : Nat, lines : Nat]]
  /\ pull \in [at : {"idle", "asked", "rows", "lines", "applied"}, head : [Keys -> Nat],
               lines : [Keys -> Nat], last : Mark, more : BOOLEAN]

Init ==
  /\ now = 1
  /\ row = [k \in Keys |-> [stamp |-> 0, version |-> 0]]
  /\ txn = [w \in Writers |-> NoTxn]
  /\ slow = {}
  /\ cursor = Origin
  /\ copy = [k \in Keys |-> [head |-> 0, lines |-> 0]]
  /\ pull = NoPull

(***************************************************************************)
(* The database.                                                           *)
(***************************************************************************)
Tick ==
  /\ now < LastTick
  /\ now' = now + 1
  /\ UNCHANGED <<row, txn, slow, cursor, copy, pull>>

Begin(w) ==
  /\ ~txn[w].open
  /\ now <= LastBegin
  /\ txn' = [txn EXCEPT ![w] = [open |-> TRUE, began |-> now, keys |-> {}]]
  /\ UNCHANGED <<now, row, slow, cursor, copy, pull>>

\* Every INSERT and UPDATE of the five tables locks the row and sets
\* updated_at = now().
Write(w, k) ==
  /\ txn[w].open
  /\ \A v \in Writers : k \notin txn[v].keys
  /\ row[k].version < MaxVersion
  /\ txn' = [txn EXCEPT ![w].keys = @ \cup {k}]
  /\ UNCHANGED <<now, row, slow, cursor, copy, pull>>

\* Nothing ends a transaction within the settle window: it may wait for locks,
\* and a request may run for 20 s.
Overran(w) == now > txn[w].began + Settle

Commit(w) ==
  /\ txn[w].open
  /\ row' = [k \in Keys |->
               IF k \in txn[w].keys
               THEN [stamp |-> txn[w].began, version |-> row[k].version + 1]
               ELSE row[k]]
  /\ slow' = IF Overran(w) THEN slow \cup txn[w].keys ELSE slow \ txn[w].keys
  /\ txn' = [txn EXCEPT ![w] = NoTxn]
  /\ UNCHANGED <<now, cursor, copy, pull>>

Abort(w) ==
  /\ txn[w].open
  /\ txn' = [txn EXCEPT ![w] = NoTxn]
  /\ UNCHANGED <<now, row, slow, cursor, copy, pull>>

(***************************************************************************)
(* A page.                                                                 *)
(***************************************************************************)
MarkOf(k) == [stamp |-> row[k].stamp, id |-> k]

Visible(k) == row[k].version > 0
Settled(k) == row[k].version > 0 /\ row[k].stamp < now - Settle

Eligible == {k \in Keys : Settled(k) /\ ~UpTo(MarkOf(k), cursor)}

\* ORDER BY updated_at, id LIMIT page_size
Page ==
  {k \in Eligible :
     Cardinality({j \in Eligible : j # k /\ UpTo(MarkOf(j), MarkOf(k))}) < PageSize}

\* The mark of the last row; a cursor of timestamps alone would not name it.
TimestampOf(page) ==
  IF page = {} THEN cursor
  ELSE [stamp |-> row[CHOOSE k \in page : \A j \in page : UpTo(MarkOf(j), MarkOf(k))].stamp,
        id |-> 0]
LastOf(page) ==
  IF page = {} THEN cursor
  ELSE MarkOf(CHOOSE k \in page : \A j \in page : UpTo(MarkOf(j), MarkOf(k)))

Ask ==
  /\ pull.at = "idle"
  /\ pull' = [NoPull EXCEPT !.at = "asked"]
  /\ UNCHANGED <<now, row, txn, slow, cursor, copy>>

ReadRows ==
  /\ pull.at = "asked"
  /\ pull' = [pull EXCEPT !.at = "rows",
                          !.head = [k \in Keys |-> IF k \in Page THEN row[k].version ELSE 0],
                          !.last = LastOf(Page),
                          !.more = Cardinality(Page) >= PageSize]
  /\ UNCHANGED <<now, row, txn, slow, cursor, copy>>

InPage(k) == pull.head[k] > 0

\* lines_for_sales, a statement of its own: a sale may have changed since.
ReadLines ==
  /\ pull.at = "rows"
  /\ pull' = [pull EXCEPT !.at = "lines",
                          !.lines = [k \in Keys |-> IF InPage(k) THEN row[k].version ELSE 0]]
  /\ UNCHANGED <<now, row, txn, slow, cursor, copy>>

\* Merging lines into those the phone has would keep lines that are gone.
MergedLines(k) == IF copy[k].head = 0 THEN pull.lines[k] ELSE copy[k].lines
NewLines(k) == pull.lines[k]

\* Rows replace the phone's rows, complete sets of lines its lines.
Apply ==
  /\ pull.at = "lines"
  /\ copy' = [k \in Keys |->
                IF InPage(k)
                THEN [head |-> pull.head[k], lines |-> NewLines(k)]
                ELSE copy[k]]
  /\ pull' = [pull EXCEPT !.at = "applied"]
  /\ UNCHANGED <<now, row, txn, slow, cursor>>

\* The loop goes on while the server has more.
SaveCursor ==
  /\ pull.at = "applied"
  /\ cursor' = pull.last
  /\ pull' = [NoPull EXCEPT !.at = IF pull.more THEN "asked" ELSE "idle"]
  /\ UNCHANGED <<now, row, txn, slow, copy>>

\* The connection fails, the app is closed or the store is switched: the page
\* is lost, or it was applied and the cursor is not saved.
Interrupt ==
  /\ pull.at # "idle"
  /\ pull' = NoPull
  /\ UNCHANGED <<now, row, txn, slow, cursor, copy>>

\* The saved cursor is cleared, or cannot be decoded: download in full.
ClearCursor ==
  /\ pull.at = "idle"
  /\ cursor # Origin
  /\ cursor' = Origin
  /\ UNCHANGED <<now, row, txn, slow, copy, pull>>

Database(w) == Begin(w) \/ Commit(w) \/ Abort(w) \/ \E k \in Keys : Write(w, k)
Fetch == Ask \/ ReadRows \/ ReadLines \/ Apply \/ SaveCursor

Next ==
  \/ Tick
  \/ \E w \in Writers : Database(w)
  \/ Fetch \/ Interrupt \/ ClearCursor

Spec == Init /\ [][Next]_vars

\* Time passes, transactions end, syncs are started again and again, and from
\* some moment on they are neither interrupted nor reset.
FairSpec ==
  /\ Spec
  /\ WF_vars(Tick)
  /\ \A w \in Writers : WF_vars(Commit(w) \/ Abort(w))
  /\ WF_vars(Fetch)
  /\ <>[][~Interrupt /\ ~ClearCursor]_vars

(***************************************************************************)
(* Properties.                                                             *)
(***************************************************************************)
\* The phone has every row its cursor has passed, in its present version,
\* however transactions overlap, pages fill up and downloads break off
\* (SyncRepository::changed_since), unless the transaction that wrote the row
\* was open for longer than the settle window.
NothingMissed ==
  \A k \in Keys \ slow :
    row[k].version > 0 /\ UpTo(MarkOf(k), cursor) => copy[k].head = row[k].version

\* "without a margin a slow transaction could commit behind a cursor that has
\* already moved past it, and that row would never be pulled"
\* (sync_settings.rs): with the margin no transaction does.
NoneBehindTheCursor ==
  \A k \in Keys :
    row[k].version > 0 /\ UpTo(MarkOf(k), cursor) => copy[k].head = row[k].version

\* A sale on the phone never shows lines older than itself, although the two
\* come from different statements (SyncService::pull, _apply).
LinesNotOlder == \A k \in Keys : copy[k].lines >= copy[k].head

\* When nobody writes any more the phone ends up with the cloud's rows and
\* lines, those of slow transactions apart, even if a page is full of rows
\* written at the same instant.
Converges ==
  <>[](\A k \in Keys \ slow :
         copy[k] = [head |-> row[k].version, lines |-> row[k].version])
=============================================================================
