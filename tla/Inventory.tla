------------------------------ MODULE Inventory ------------------------------
(***************************************************************************)
(* The inventory and those who write it by hand (main.py): the context     *)
(* editor, which saves what was read minutes ago, the older endpoints of   *)
(* locations and racks, and the deletion of an operator window, beside the *)
(* orders that claim, hold and move the same rows.  The orders are those   *)
(* of MovementOrders, seen from the inventory; here their createTask goes  *)
(* through the client's retries.                                           *)
(***************************************************************************)
EXTENDS RcsClient

CONSTANTS Cells, Racks, NoCell, NoRack,
          WindowOrders   \* orders created by an operator window

ASSUME InventoryAssumption ==
    /\ NoCell \notin Cells /\ NoRack \notin Racks
    /\ WindowOrders \subseteq Orders

VARIABLES
    cell,       \* rows of locations: the rack, and ver, a number for the rest of the
                \* row, updated_at included
    rack,       \* rows of racks, likewise
    order,      \* rows of movement_orders
    draft,      \* the editor's form, with what it was opened on
    edits       \* writes by hand so far

tableVars == <<cell, rack, order>>

MaxEdits == setup.edits   \* writes by hand, openings of the editor included
NoDraft == [open |-> FALSE, cell |-> NoCell, row |-> [rack |-> NoRack, ver |-> 0], racks |-> <<>>]
NewOrder == [status |-> "none", rack |-> NoRack, src |-> NoCell, dst |-> NoCell]

\* RACK_RESERVATION_ACTIVE_STATUSES; "refused" is pending_dispatch with dispatch_status error.
ActiveStatuses == {"pending", "uncertain", "refused", "dispatched", "cancel_error"}
Active(o) == order[o].status \in ActiveStatuses

CellOf(r) == {c \in Cells : cell[c].rack = r}
SetRack(r, status) == rack' = [rack EXCEPT ![r] = [status |-> status, ver |-> @.ver + 1]]

-----------------------------------------------------------------------------
(* Orders *)

\* execute_direct_move_request and _claim_movement_resources, one transaction.
Create(o, s, d) ==
    LET r == cell[s].rack IN
    /\ order[o].status = "none"
    /\ r # NoRack /\ rack[r].status = "available"
    /\ cell[d].rack = NoRack
    /\ \A p \in Orders : Active(p) => order[p].rack # r /\ order[p].dst # d
    /\ order' = [order EXCEPT ![o] = [status |-> "pending", rack |-> r, src |-> s, dst |-> d]]
    /\ SetRack(r, "reserved")
    /\ UNCHANGED <<cell, draft, edits, clientVars, faults>>

\* The conditional UPDATE of _dispatch_movement_order, and its call.
Dispatch(o) ==
    /\ order[o].status = "pending"
    /\ order' = [order EXCEPT ![o].status = "uncertain"]
    /\ StartCall(o)
    /\ UNCHANGED <<cell, rack, draft, edits, copies, remote, faults>>

\* Its outcome, stored on the row if that is still there.
StoreResult(o) ==
    /\ call[o].at = "done"
    /\ call' = [call EXCEPT ![o].at = "stored"]
    /\ order' = [order EXCEPT ![o].status =
            IF @ # "uncertain" THEN @
            ELSE IF call[o].result = "accepted" THEN "dispatched"
            ELSE IF call[o].result \in {"rejected", "not_sent"} THEN "refused" ELSE @]
    /\ UNCHANGED <<cell, rack, draft, edits, copies, remote, faults>>

\* _rollback_unsuccessful_order_dispatch, in a transaction of its own.
Rollback(o) ==
    /\ order[o].status = "refused"
    /\ order' = [order EXCEPT ![o].status = "closed"]
    /\ SetRack(order[o].rack, "available")
    /\ UNCHANGED <<cell, draft, edits, clientVars, faults>>

\* A cancellation that failed: the order is held, and its task runs on.
CancelFails(o) ==
    /\ order[o].status = "dispatched"
    /\ order' = [order EXCEPT ![o].status = "cancel_error"]
    /\ UNCHANGED <<cell, rack, draft, edits, clientVars, faults>>

\* The monitor's completion: apply_remote_status_to_order, simulate_order_completed.
Complete(o) ==
    LET r == order[o].rack s == order[o].src d == order[o].dst IN
    /\ order[o].status \in {"dispatched", "cancel_error"} /\ remote[o] = "over"
    /\ cell[s].rack = r /\ cell[d].rack = NoRack
    /\ order' = [order EXCEPT ![o].status = "closed"]
    /\ cell' = [cell EXCEPT ![s] = [rack |-> NoRack, ver |-> @.ver + 1],
                            ![d] = [rack |-> r, ver |-> @.ver + 1]]
    /\ SetRack(r, "available")
    /\ UNCHANGED <<draft, edits, clientVars, faults>>

\* admin_delete_operator_window takes the window's orders with it, active or not.
DeleteWindow ==
    /\ edits < MaxEdits /\ edits' = edits + 1
    /\ \E o \in WindowOrders : order[o].status \notin {"none", "deleted"}
    /\ order' = [o \in Orders |->
            IF o \in WindowOrders /\ order[o].status # "none"
            THEN [order[o] EXCEPT !.status = "deleted"] ELSE order[o]]
    /\ UNCHANGED <<cell, rack, draft, clientVars, faults>>

-----------------------------------------------------------------------------
(* Writes by hand *)

\* _guard_admin_inventory_edit takes the writer's lock and looks for an active
\* order of the racks or the cells.  Mutant: orders whose answer is not known are
\* passed over.
SettledOrders == {o \in Orders : Active(o) /\ order[o].status # "uncertain"}
GuardedOrders == {o \in Orders : Active(o)}
Unguarded(C, R) ==
    \A o \in GuardedOrders :
        order[o].rack \notin R /\ order[o].src \notin C /\ order[o].dst \notin C

\* _validate_foreign_keys: the rack stands in no other cell.
Assignable(r, c) == r = NoRack \/ CellOf(r) \subseteq {c}

\* admin_patch_location and admin_save_location: the row, without its updated_at.
PutLocation(c, r, others) ==
    /\ edits < MaxEdits /\ edits' = edits + 1
    /\ Unguarded({c}, {cell[c].rack, r})
    /\ Assignable(r, c)
    /\ cell' = [cell EXCEPT ![c] = [rack |-> r, ver |-> IF others THEN @.ver + 1 ELSE @.ver]]
    /\ UNCHANGED <<rack, order, draft, clientVars, faults>>

\* update_rack, and update_rack_reservation where it releases without closing an
\* order (see OrderRecovery for the closings).
UpdateRack(r, status) ==
    /\ edits < MaxEdits /\ edits' = edits + 1
    /\ Unguarded({}, {r})
    /\ SetRack(r, status)
    /\ UNCHANGED <<cell, order, draft, clientVars, faults>>

\* update_rack_reservation, reserving: no guard.
ReserveRack(r) ==
    /\ edits < MaxEdits /\ edits' = edits + 1
    /\ SetRack(r, "reserved")
    /\ UNCHANGED <<cell, order, draft, clientVars, faults>>

\* _context_rack_fingerprint: the row, and the location the rack is assigned to.
\* Mutant: the row alone.
RowOnly(r)         == <<rack[r], {}>>
RackFingerprint(r) == <<rack[r], CellOf(r)>>

\* get_context_cell: the cell, its rack and the one to be put there.
OpenCell(c, r) ==
    LET R == {cell[c].rack, r} \ {NoRack} IN
    /\ edits < MaxEdits /\ edits' = edits + 1
    /\ draft' = [open |-> TRUE, cell |-> c, row |-> cell[c],
                 racks |-> [q \in R |-> RackFingerprint(q)]]
    /\ UNCHANGED <<tableVars, clientVars, faults>>

\* save_context_cell, under BEGIN IMMEDIATE: the cell gets the rack r; what says
\* which of the cell's other fields, r's own fields and r's reservation change.
SaveCell(r, what) ==
    LET c == draft.cell
        now == cell[c].rack
        R == {now, r} \ {NoRack}
        touched == IF r # now THEN R ELSE R \cap {q \in {r} : what \cap {"rack", "reservation"} # {}}
        flip(status) == IF status = "reserved" THEN "available" ELSE "reserved"
    IN  /\ draft.open
        /\ cell[c] = draft.row
        /\ R \subseteq DOMAIN draft.racks
        /\ \A q \in R : RackFingerprint(q) = draft.racks[q]
        /\ r # now \/ what # {}
        /\ what \cap {"rack", "reservation"} # {} => r # NoRack
        /\ Unguarded({c}, R)
        /\ Assignable(r, c)
        /\ r # now => \A q \in R : rack[q].status # "reserved"
        /\ cell' = IF r # now \/ "cell" \in what
                   THEN [cell EXCEPT ![c] = [rack |-> r, ver |-> @.ver + 1]] ELSE cell
        /\ rack' = [q \in Racks |->
             IF q \notin touched THEN rack[q]
             ELSE [status |-> IF q = r /\ "reservation" \in what
                              THEN flip(rack[q].status) ELSE rack[q].status,
                   ver |-> rack[q].ver + 1]]
        /\ draft' = NoDraft
        /\ UNCHANGED <<order, edits, clientVars, faults>>

InventoryStep ==
    \/ \E o \in Orders :
         \/ \E s, d \in Cells : Create(o, s, d)
         \/ Dispatch(o) \/ StoreResult(o) \/ Rollback(o) \/ CancelFails(o) \/ Complete(o)
    \/ DeleteWindow
    \/ \E c \in Cells, r \in Racks \cup {NoRack} :
         OpenCell(c, r) \/ \E others \in BOOLEAN : PutLocation(c, r, others)
    \/ \E r \in Racks : ReserveRack(r) \/ \E s \in {"available", "reserved"} : UpdateRack(r, s)
    \/ \E r \in Racks \cup {NoRack}, what \in SUBSET {"cell", "rack", "reservation"} :
          SaveCell(r, what)
=============================================================================
