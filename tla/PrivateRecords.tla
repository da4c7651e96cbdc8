--------------------------- MODULE PrivateRecords ---------------------------
(* What a staff member's phone holds of the money side of a store while the   *)
(* owner gives and takes back its view of profit: expenses and withdrawals,   *)
(* which the server withholds, and products, whose cost it sets to zero       *)
(* (sync_service.rs push, pull and delete; expense_service.rs,                *)
(* withdrawal_service.rs; session_repository.dart refreshAccount;             *)
(* sync_coordinator.dart). The rest of the store's phones act on the server   *)
(* directly. Paging and the settle window are PullCursor's subject, the       *)
(* batches of an upload and the problems screen Outbox's.                     *)
EXTENDS Integers, FiniteSets

CONSTANTS
    Products,
    Theirs,        \* expenses and withdrawals the store's other phones record
    Own,           \* expenses the staff member records; ids are never shared
    MaxWrites,     \* bound: products saved by the owner, expenses of others recorded
                   \*   and removed
    MaxGrants,     \* bound: changes of the staff member's permissions
    MaxEdits,      \* bound: products the staff member edits
    MaxIncidents   \* bound: lost connections and closings of the app

ASSUME RecordsAssumption ==
    /\ Products \cap (Theirs \cup Own) = {} /\ Theirs \cap Own = {}
    /\ {MaxWrites, MaxGrants, MaxEdits, MaxIncidents} \subseteq Nat

VARIABLES
    row,           \* the rows of the server: status, updated_at, whether the staff
                   \*   member recorded it, and whether a product has the cost the
                   \*   owner gave it
    clock,         \* the last updated_at
    grant,         \* view_profit, as the server has it
    access,        \* ... and as the phone last saved it
    copy,          \* the phone's rows: "none", "zero" (a product without its cost),
                   \*   "live" or "gone"
    queue,         \* the phone's outbox
    parked,        \* rows of it that were refused too often to be sent again
    cursor,        \* the phone's cursor, per table
    sync,          \* the sync under way: its step, the rows sent, those still to
                   \*   serve and those refused, the page, its cursor
    refresh,       \* refreshAccount under way: its step and the server's answer
    writes, grants, edits, incidents,
    removed,       \* history: expenses that other phones removed
    disturbed      \* history: access changed again before the phone had re-read
                   \*   it, or a sync ran beside the re-reading of a change

counters == <<writes, grants, edits, incidents>>
server == <<row, clock>>
outbox == <<queue, parked>>
histories == <<removed, disturbed>>
recordsVars == <<server, grant, access, copy, outbox, cursor, sync, refresh,
                 counters, histories>>

Expenses == Theirs \cup Own
Records == Products \cup Expenses
Tables == [products |-> Products, expenses |-> Expenses]
Start == [products |-> 0, expenses |-> 0]
NoRow == [status |-> "none", stamp |-> 0, mine |-> FALSE, cost |-> FALSE]
NoPage == [e \in {} |-> "none"]
NoSync == [step |-> "idle", sent |-> {}, todo |-> {}, refused |-> {},
           page |-> NoPage, cursor |-> Start]
NoRefresh == [step |-> "idle", sees |-> FALSE]
Put(e) == [kind |-> "put", of |-> e]
Edit(p, cost) == [kind |-> "edit", of |-> p, cost |-> cost]
Delete(e) == [kind |-> "delete", of |-> e]

-----------------------------------------------------------------------------
(* The server *)

Stamped(e, status, mine, cost) ==
    /\ clock' = clock + 1
    /\ row' = [row EXCEPT ![e] = [status |-> status, stamp |-> clock + 1,
                                  mine |-> mine, cost |-> cost]]

(* upsert inserts a row, or takes over the staff member's own row and revives *)
(* it. Anyone else's would be refused; ids are never shared.                  *)
MayTakeOver(e) == row[e].status = "none" \/ row[e].mine

Record(e) == MayTakeOver(e) /\ Stamped(e, "live", TRUE, FALSE)

SoftDelete(e) == row[e].status = "live" /\ Stamped(e, "gone", row[e].mine, row[e].cost)

(* Finding nothing to remove counts as success. *)
RemoveRecord(e) == SoftDelete(e) \/ (row[e].status # "live" /\ UNCHANGED server)

(* The cost of the request counts if its sender may see costs, otherwise the  *)
(* stored one is kept; a removed product is not found, and is revived with    *)
(* none.                                                                      *)
Save(p, cost) ==
    Stamped(p, "live", FALSE, IF grant THEN cost ELSE row[p].status = "live" /\ row[p].cost)

(* The other phones: products are saved, with their cost, and removed (as     *)
(* often as they were saved); withdrawals and expenses are recorded and       *)
(* removed.                                                                   *)
Writes ==
    /\ writes < MaxWrites /\ writes' = writes + 1
    /\ UNCHANGED <<grant, access, copy, outbox, cursor, sync, refresh,
                   grants, edits, incidents>>

OwnerSaves(p) == p \in Products /\ Writes /\ Stamped(p, "live", FALSE, TRUE)
OwnerRemoves(p) ==
    /\ p \in Products /\ SoftDelete(p)
    /\ UNCHANGED <<grant, access, copy, outbox, cursor, sync, refresh, counters>>
OtherRecords(e) ==
    e \in Theirs /\ row[e].status = "none" /\ Writes /\ Stamped(e, "live", FALSE, FALSE)
OtherRemoves(e) == e \in Expenses /\ Writes /\ SoftDelete(e)

(* The owner changes what the staff member may see. *)
SetGrant ==
    /\ grants < MaxGrants /\ grants' = grants + 1
    /\ grant' = ~grant
    /\ UNCHANGED <<server, access, copy, outbox, cursor, sync, refresh,
                   writes, edits, incidents>>

-----------------------------------------------------------------------------
(* The staff member *)

(* Under a new id. *)
RecordExpense(e) ==
    /\ e \in Own /\ copy[e] = "none" /\ row[e] = NoRow
    /\ \A r \in queue \cup sync.sent : r.of # e
    /\ copy' = [copy EXCEPT ![e] = "live"]
    /\ queue' = queue \cup {Put(e)}
    /\ UNCHANGED <<server, grant, access, parked, cursor, sync, refresh, counters>>

(* The unsent version is discarded and a deletion queued. *)
RemoveExpense(e) ==
    /\ e \in Expenses /\ copy[e] = "live"
    /\ copy' = [copy EXCEPT ![e] = "gone"]
    /\ queue' = (queue \ {Put(e)}) \cup {Delete(e)}
    /\ parked' = parked \ {Put(e), Delete(e)}
    /\ UNCHANGED <<server, grant, access, cursor, sync, refresh, counters>>

(* The editor sends the cost the phone has; queueing replaces what was queued *)
(* for the product.                                                           *)
EditProduct(p) ==
    /\ edits < MaxEdits /\ edits' = edits + 1
    /\ p \in Products /\ copy[p] \in {"zero", "live"}
    /\ queue' = (queue \ {Edit(p, TRUE), Edit(p, FALSE)}) \cup {Edit(p, copy[p] = "live")}
    /\ parked' = parked \ {Edit(p, TRUE), Edit(p, FALSE)}
    /\ UNCHANGED <<server, grant, access, copy, cursor, sync, refresh,
                   writes, grants, incidents>>

-----------------------------------------------------------------------------
(* A sync: upload, then download *)

Begin ==
    /\ sync.step = "idle"
    /\ LET rows == queue \ parked
       IN  sync' = [NoSync EXCEPT !.step = IF rows = {} THEN "pull" ELSE "sent",
                                  !.sent = rows, !.todo = rows]
    /\ UNCHANGED <<server, grant, access, copy, outbox, cursor, refresh, counters>>

(* Products, then expenses, and deletions last, so that a row created and     *)
(* removed in one request ends up removed.                                    *)
Of(kind) == {r \in sync.todo : r.kind = kind}
First ==
    IF Of("edit") # {} THEN Of("edit") ELSE IF Of("put") # {} THEN Of("put") ELSE sync.todo

Serve ==
    /\ sync.step = "sent"
    /\ \E r \in First :
        /\ CASE r.kind = "edit" -> Save(r.of, r.cost)
             [] r.kind = "put" -> Record(r.of)
             [] r.kind = "delete" -> RemoveRecord(r.of)
        /\ sync' = [sync EXCEPT !.todo = @ \ {r}]
    /\ UNCHANGED <<grant, access, copy, outbox, cursor, refresh, counters>>

(* A row is refused for want of a permission (to record expenses, to manage   *)
(* products, to delete), or because of a failing statement; the rest of the   *)
(* request goes on.                                                           *)
Refuse ==
    /\ sync.step = "sent"
    /\ \E r \in First : sync' = [sync EXCEPT !.todo = @ \ {r}, !.refused = @ \cup {r}]
    /\ UNCHANGED <<server, grant, access, copy, outbox, cursor, refresh, counters>>

(* The rows that were applied leave the outbox. One that was refused stays,   *)
(* and after its last attempt, whichever that is, it is not sent again.       *)
Answer ==
    /\ sync.step = "sent" /\ sync.todo = {}
    /\ queue' = queue \ (sync.sent \ sync.refused)
    /\ \E last \in SUBSET (queue \cap sync.refused) : parked' = parked \cup last
    /\ sync' = [NoSync EXCEPT !.step = "pull"]
    /\ UNCHANGED <<server, grant, access, copy, cursor, refresh, counters>>

Ask ==
    /\ sync.step = "pull"
    /\ sync' = [sync EXCEPT !.step = "asked", !.cursor = cursor]
    /\ UNCHANGED <<server, grant, access, copy, outbox, cursor, refresh, counters>>

Withheld(t) == t = "expenses" /\ ~grant
Changed(t) ==
    IF Withheld(t) THEN {}
    ELSE {e \in Tables[t] : row[e].status # "none" /\ row[e].stamp > sync.cursor[t]}
Sent(e) ==
    IF e \in Products /\ row[e].status = "live" /\ ~(grant /\ row[e].cost) THEN "zero"
    ELSE row[e].status

(* The cursor moves to the last row of each table that was sent. *)
Advanced(t) ==
    CHOOSE n \in {row[e].stamp : e \in Changed(t)} \cup {sync.cursor[t]} :
        \A e \in Changed(t) : row[e].stamp <= n

Page ==
    /\ sync.step = "asked"
    /\ sync' = [sync EXCEPT
          !.step = "page",
          !.page = [e \in UNION {Changed(t) : t \in DOMAIN Tables} |-> Sent(e)],
          !.cursor = [t \in DOMAIN Tables |-> Advanced(t)]]
    /\ UNCHANGED <<server, grant, access, copy, outbox, cursor, refresh, counters>>

(* Server rows win over local copies. *)
Apply ==
    /\ sync.step = "page"
    /\ copy' = [e \in Records |-> IF e \in DOMAIN sync.page THEN sync.page[e] ELSE copy[e]]
    /\ sync' = [sync EXCEPT !.step = "applied", !.page = NoPage]
    /\ UNCHANGED <<server, grant, access, outbox, cursor, refresh, counters>>

SaveCursor ==
    /\ sync.step = "applied"
    /\ cursor' = sync.cursor
    /\ sync' = NoSync
    /\ UNCHANGED <<server, grant, access, copy, outbox, refresh, counters>>

-----------------------------------------------------------------------------
(* The phone re-reads its access *)

RefreshAsk ==
    /\ refresh.step = "idle"
    /\ refresh' = IF grant = access THEN NoRefresh ELSE [step |-> "answered", sees |-> grant]
    /\ UNCHANGED <<server, grant, access, copy, outbox, cursor, sync, counters>>

(* Mutant: entries that are still to be uploaded are removed too. *)
ForgetAll ==
    /\ refresh.step = "answered"
    /\ copy' = IF refresh.sees THEN copy
               ELSE [e \in Records |-> IF e \in Expenses THEN "none" ELSE copy[e]]
    /\ refresh' = [refresh EXCEPT !.step = "forgotten"]
    /\ UNCHANGED <<server, grant, access, outbox, cursor, sync, counters>>

(* forgetPrivateRecords, when the view of profit is lost: entries still to be *)
(* uploaded stay.                                                             *)
Forget ==
    /\ refresh.step = "answered"
    /\ copy' = IF refresh.sees THEN copy
               ELSE [e \in Records |-> IF e \in Expenses /\ Put(e) \notin queue THEN "none"
                                       ELSE copy[e]]
    /\ refresh' = [refresh EXCEPT !.step = "forgotten"]
    /\ UNCHANGED <<server, grant, access, outbox, cursor, sync, counters>>


ClearCursor ==
    /\ refresh.step = "forgotten"
    /\ cursor' = Start
    /\ refresh' = [refresh EXCEPT !.step = "cleared"]
    /\ UNCHANGED <<server, grant, access, copy, outbox, sync, counters>>

SaveAccess ==
    /\ refresh.step = "cleared"
    /\ access' = refresh.sees
    /\ refresh' = NoRefresh
    /\ UNCHANGED <<server, grant, copy, outbox, cursor, sync, counters>>

-----------------------------------------------------------------------------
(* A request of the sync fails or its answer is lost. *)
GiveUp ==
    /\ incidents < MaxIncidents /\ incidents' = incidents + 1
    /\ sync.step # "idle"
    /\ sync' = NoSync
    /\ UNCHANGED <<server, grant, access, copy, outbox, cursor, refresh,
                   writes, grants, edits>>

(* The app is closed in the middle of both. *)
AppCloses ==
    /\ incidents < MaxIncidents /\ incidents' = incidents + 1
    /\ sync # NoSync \/ refresh # NoRefresh
    /\ sync' = NoSync /\ refresh' = NoRefresh
    /\ UNCHANGED <<server, grant, access, copy, outbox, cursor,
                   writes, grants, edits>>

RecordsInit ==
    /\ row = [e \in Records |-> NoRow]
    /\ clock = 0
    /\ grant \in BOOLEAN /\ access = grant
    /\ copy = [e \in Records |-> "none"]
    /\ queue = {} /\ parked = {}
    /\ cursor = Start
    /\ sync = NoSync
    /\ refresh = NoRefresh
    /\ writes = 0 /\ grants = 0 /\ edits = 0 /\ incidents = 0
    /\ removed = {} /\ disturbed = FALSE

Sync == Begin \/ Serve \/ Answer \/ Ask \/ Page \/ Apply \/ SaveCursor
Refresh == RefreshAsk \/ Forget \/ ClearCursor \/ SaveAccess

RecordsStep ==
    \/ \E e \in Records :
          \/ OwnerSaves(e) \/ OwnerRemoves(e) \/ OtherRecords(e) \/ OtherRemoves(e)
          \/ RecordExpense(e) \/ RemoveExpense(e) \/ EditProduct(e)
    \/ SetGrant
    \/ Sync \/ Refuse \/ Refresh
    \/ GiveUp \/ AppCloses

Toggled == grant' # grant /\ (access # grant \/ refresh.step # "idle")
Overlaps == sync'.step # "idle" /\ refresh'.step # "idle"
RecordsHistory ==
    /\ removed' = removed \cup {e \in Expenses : OtherRemoves(e)}
    /\ disturbed' = (disturbed \/ Toggled \/ Overlaps)

RecordsNext == RecordsStep /\ RecordsHistory

(* Timers start a sync and a look at the account again and again; what has    *)
(* begun goes on.                                                             *)
RecordsSpec ==
    /\ RecordsInit /\ [][RecordsNext]_recordsVars
    /\ WF_sync(Sync /\ RecordsHistory) /\ WF_refresh(Refresh /\ RecordsHistory)

-----------------------------------------------------------------------------
(* What the staff member recorded and has not uploaded is on their screen:    *)
(* no download takes it away, though an earlier upload of it arrived and the  *)
(* row was refused since, and neither does the loss of access; only another   *)
(* phone that had seen it may have removed it (sync_coordinator.dart _apply,  *)
(* session_dao.dart forgetPrivateRecords).                                    *)
UnsentStaysVisible ==
    \A e \in Expenses : Put(e) \in queue => copy[e] = "live" \/ e \in removed

Unsent(e) == \E r \in queue : r.of = e

HasWhatItMaySee ==
    /\ \A p \in Products : row[p].status # "none" => copy[p] = Sent(p)
    /\ \A e \in Expenses :
          grant /\ ~Unsent(e) => (copy[e] = "live" <=> row[e].status = "live")

HasNothingElse ==
    \A e \in Expenses : ~grant /\ copy[e] = "live" => row[e].mine \/ Put(e) \in queue

IsRight == access = grant /\ HasWhatItMaySee /\ HasNothingElse


(* The same however often access changes ("A staff member who gains or loses  *)
(* profit access has their store downloaded again from scratch",              *)
(* session_repository.dart:145-146).                                          *)
AccessIsFollowed == <>[]IsRight

(* A product keeps the cost the owner gave it, whatever a phone that was      *)
(* never shown that cost sends ("Keeping the stored cost stops that zero from *)
(* wiping it", product_service.rs save).                                      *)
CostSurvives == \A p \in Products : row[p].status = "live" => row[p].cost
=============================================================================
