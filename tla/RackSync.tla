------------------------------ MODULE RackSync ------------------------------
(***************************************************************************)
(* The rack synchronisation (main.py) beside the inventory: a run, manual  *)
(* or daily, counts the active orders, reads which rack stands where, asks *)
(* the RCS for the position of each and binds those that differ.  The      *)
(* count, the list, the queries and the binds are four steps, and the rest *)
(* of the system runs between them.  The RCS's own positions are external. *)
(***************************************************************************)
EXTENDS Inventory

VARIABLES
    job,        \* the two runs: the daily one is single under its lock
    rcsPos,     \* where the RCS has each rack (external)
    marked,     \* rcs_rack_sync_schedule_last_run_date is today
    crashes,    \* restarts so far
    lists       \* every list a run has read, and the tasks that had ended (history)

syncVars == <<job, rcsPos, marked, crashes, lists>>
inventoryVars == <<tableVars, draft, edits, clientVars, faults>>
vars == <<inventoryVars, syncVars, setup>>

MaxCrashes == setup.crashes
Jobs == {"scheduled", "manual"}

\* busy: active orders were counted; list: the rows of the cells with a rack, as read;
\* found: per cell of the list, the status of the comparison, then of the bind.
Nothing == [c \in {} |-> "none"]
NoJob == [at |-> "idle", busy |-> FALSE, list |-> Nothing, found |-> Nothing]

\* _rack_sync_active_tasks_count: cancel_error is not among its statuses.
Counted(o) == order[o].status \in ActiveStatuses \ {"cancel_error"}

\* A manual run, or the scheduler when the day is due.
SyncCount(j) ==
    /\ job[j].at = "idle" /\ j \in setup.jobs
    /\ j = "scheduled" => ~marked
    /\ job' = [job EXCEPT ![j] =
                [NoJob EXCEPT !.at = "counted", !.busy = (\E o \in Orders : Counted(o))]]
    /\ UNCHANGED <<rcsPos, marked, crashes, lists, inventoryVars>>

\* _build_rack_sync_preview: the rows, in a read of their own.
Rows == [c \in {d \in Cells : cell[d].rack # NoRack} |-> cell[c]]
Ended == {o \in Orders : remote[o] = "over"}
SyncList(j) ==
    /\ job[j].at = "counted"
    /\ job' = [job EXCEPT ![j].at = "listed",
                          ![j].list = Rows]
    /\ lists' = lists \cup {[rows |-> Rows, ended |-> Ended]}
    /\ UNCHANGED <<rcsPos, marked, crashes, inventoryVars>>

\* What a query's answer is taken for.  Mutant: no position counts as the right one.
TrustingStatus(r, c) == IF rcsPos[r] \in {NoCell, c} THEN "match" ELSE "mismatch"
QueryStatus(r, c) ==
    IF rcsPos[r] = NoCell THEN "not_found" ELSE IF rcsPos[r] = c THEN "match" ELSE "mismatch"

\* _query_rack_sync_comparison: from its first console row to its commit it holds
\* the writer's lock.  A query may fail.
SyncQuery(j) ==
    /\ job[j].at = "listed"
    /\ \E failed \in SUBSET DOMAIN job[j].list :
         job' = [job EXCEPT ![j].at = "compared", ![j].found =
                   [c \in DOMAIN job[j].list |->
                     IF c \in failed THEN "query_error" ELSE QueryStatus(job[j].list[c].rack, c)]]
    /\ UNCHANGED <<rcsPos, marked, crashes, lists, inventoryVars>>

\* _bind_rack_sync_mismatches: every mismatch is bound to the cell of the list,
\* unless orders were counted; a bind that failed may have been applied.
SyncBind(j) ==
    LET wrong == {c \in DOMAIN job[j].list : job[j].found[c] = "mismatch"} IN
    /\ job[j].at = "compared" /\ ~job[j].busy
    /\ \E status \in [wrong -> {"bind_ok", "bind_rejected", "bind_error"}] :
       \E lost \in SUBSET {c \in wrong : status[c] = "bind_error"} :
         LET bound == {c \in wrong : status[c] = "bind_ok"} \cup lost
             at(r) == {c \in bound : job[j].list[c].rack = r}
         IN  /\ rcsPos' = [r \in Racks |-> IF at(r) # {} THEN CHOOSE c \in at(r) : TRUE ELSE rcsPos[r]]
             /\ job' = [job EXCEPT ![j].at = "bound", ![j].found =
                        [c \in DOMAIN @ |-> IF c \in wrong THEN status[c] ELSE @[c]]]
    /\ UNCHANGED <<marked, crashes, lists, inventoryVars>>

\* _run_scheduled_rack_sync_once marks the day after its work, done or blocked.
SyncEnd(j) ==
    /\ job[j].at = "bound" \/ (job[j].at = "compared" /\ job[j].busy)
    /\ job' = [job EXCEPT ![j].at = "ended"]
    /\ marked' = (marked \/ j = "scheduled")
    /\ UNCHANGED <<rcsPos, crashes, lists, inventoryVars>>

-----------------------------------------------------------------------------
(* The robots, and the server's restart *)

\* The task ends, and the RCS has its rack in the destination (external).
TaskEnds(o) ==
    /\ remote[o] = "live"
    /\ remote' = [remote EXCEPT ![o] = "over"]
    /\ rcsPos' = [rcsPos EXCEPT ![order[o].rack] = order[o].dst]
    /\ UNCHANGED <<tableVars, draft, edits, call, copies, faults, job, marked, crashes, lists>>

\* The server stops: runs and calls end where they are, a request may have left,
\* and nobody takes up an order whose dispatch was claimed (the monitor asks for it).
Restart ==
    /\ crashes < MaxCrashes /\ crashes' = crashes + 1
    /\ job' = [j \in Jobs |-> IF job[j].at = "ended" THEN job[j] ELSE NoJob]
    /\ call' = [o \in Orders |->
                 IF call[o].at \in {"trying", "done"} THEN [NoCall EXCEPT !.at = "stored"] ELSE call[o]]
    /\ copies' = [o \in Orders |-> copies[o] + IF Trying(o) THEN 1 ELSE 0]
    /\ UNCHANGED <<remote, faults, tableVars, draft, edits, rcsPos, marked, lists>>

-----------------------------------------------------------------------------

SyncStep ==
    \/ \E j \in Jobs : SyncCount(j) \/ SyncList(j) \/ SyncQuery(j) \/ SyncBind(j) \/ SyncEnd(j)
    \/ \E o \in Orders : TaskEnds(o)
    \/ Restart

Next ==
    /\ UNCHANGED setup
    /\ \/ InventoryStep /\ UNCHANGED syncVars
       \/ \E o \in Orders : CallStep(o) /\ UNCHANGED <<tableVars, draft, edits, syncVars>>
       \/ SyncStep

\* The rows start with distinct racks in distinct cells; what the RCS has is anything.
Init ==
    /\ setup \in Setups
    /\ cell \in [Cells -> [rack : Racks \cup {NoRack}, ver : {0}]]
    /\ \A c, d \in Cells : cell[c].rack = cell[d].rack /\ cell[c].rack # NoRack => c = d
    /\ rack = [r \in Racks |-> [status |-> "available", ver |-> 0]]
    /\ order = [o \in Orders |-> NewOrder]
    /\ draft = NoDraft /\ edits = 0
    /\ call = [o \in Orders |-> NoCall] /\ copies = [o \in Orders |-> 0]
    /\ remote = [o \in Orders |-> "none"] /\ faults = 0
    /\ job = [j \in Jobs |-> NoJob]
    /\ rcsPos \in [Racks -> Cells \cup {NoCell}]
    /\ setup.jobs = {} => rcsPos = [r \in Racks |-> NoCell]
    /\ marked = FALSE /\ crashes = 0 /\ lists = {}

Spec == Init /\ [][Next]_vars

-----------------------------------------------------------------------------

\* Type invariant: the rows, the calls and the runs hold what the code stores, and no
\* rack stands in two cells.
CellRows == [rack : Racks \cup {NoRack}, ver : Nat]
RackRows == [status : {"available", "reserved"}, ver : Nat]
OrderRows == [status : ActiveStatuses \cup {"none", "closed", "deleted"},
              rack : Racks \cup {NoRack}, src : Cells \cup {NoCell}, dst : Cells \cup {NoCell}]
Calls == [at : {"idle", "trying", "done", "stored"}, tries : 0..Attempts,
          unsent : BOOLEAN, seen : BOOLEAN, result : Results]
Tags == {"match", "mismatch", "not_found", "query_error", "bind_ok", "bind_rejected", "bind_error"}
Runs(C, D) == [at : {"idle", "counted", "listed", "compared", "bound", "ended"}, busy : BOOLEAN,
               list : [C -> CellRows], found : [D -> Tags]]
TablesOK ==
    /\ cell \in [Cells -> CellRows] /\ rack \in [Racks -> RackRows]
    /\ \A c, d \in Cells : cell[c].rack = cell[d].rack /\ cell[c].rack # NoRack => c = d
    /\ order \in [Orders -> OrderRows]
    /\ \A o \in Orders : order[o].status # "none" =>
         order[o].rack \in Racks /\ order[o].src \in Cells /\ order[o].dst \in Cells
    /\ draft.open => draft.cell \in Cells
CallsOK ==
    /\ call \in [Orders -> Calls] /\ copies \in [Orders -> Nat]
    /\ remote \in [Orders -> {"none", "live", "refused", "over"}]
JobsOK ==
    /\ job = [j \in Jobs |-> job[j]]
    /\ \A j \in Jobs : \E C, D \in SUBSET Cells : job[j] \in Runs(C, D)
    /\ rcsPos \in [Racks -> Cells \cup {NoCell}]
TypeOK == TablesOK /\ CallsOK /\ JobsOK

\* While an order is active, or its request may still move the rack, the order is
\* active and its route stands as it was claimed: the rack in the source, reserved,
\* and the destination empty.  Neither a request that was thought to have failed nor a
\* write by hand, however old the form, may change that (_confirmed_not_sent,
\* _guard_admin_inventory_edit).  Orders deleted with their window are left out.
RouteKept ==
    \A o \in Orders :
        order[o].status # "deleted" /\ (Active(o) \/ MayMove(o)) =>
            /\ Active(o)
            /\ cell[order[o].src].rack = order[o].rack
            /\ cell[order[o].dst].rack = NoRack
            /\ rack[order[o].rack].status = "reserved"

\* A save of the cell editor never overwrites a change made since the form was
\* opened: at that moment the cell, its racks and where they stand are what the form
\* was opened on (save_context_cell, the fingerprints).
Saves == draft.open /\ ~draft'.open
SavedFresh ==
    Saves =>
        /\ cell[draft.cell] = draft.row
        /\ \A q \in {cell[draft.cell].rack, cell'[draft.cell].rack} \ {NoRack} :
             /\ q \in DOMAIN draft.racks
             /\ rack[q] = draft.racks[q][1]
             /\ CellOf(q) = draft.racks[q][2]
NoLostEdit == [][SavedFresh]_vars

\* A rack that a finished run reports as matching or bound stands in the RCS where
\* the inventory has it, as long as every list a run read is the inventory as it is
\* and no task has ended since: whatever orders ran before, are active or were created
\* in between, and whatever another run, a restart or a failed bind did meanwhile
\* (_query_rack_sync_comparison, _bind_rack_sync_mismatches).
AsListed == \A list \in lists : list.rows = Rows /\ list.ended = Ended
SyncAligns ==
    AsListed => \A j \in Jobs : job[j].at = "ended" =>
        \A c \in DOMAIN job[j].list :
            job[j].found[c] \in {"match", "bind_ok"} => rcsPos[cell[c].rack] = c

\* What the page says of a bind (static/app.js:7764): with active tasks no rack is
\* bound.  The tasks are those of the count, which is read before the queries.
Binds(j) ==
    /\ job[j].at = "compared" /\ job'[j].at = "bound"
    /\ \E c \in DOMAIN job[j].list : job[j].found[c] = "mismatch"
BindsWhenIdle == [][(\E j \in Jobs : Binds(j)) => ~\E o \in Orders : Counted(o)]_vars
=============================================================================
