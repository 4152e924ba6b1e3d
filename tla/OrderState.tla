----------------------------- MODULE OrderState -----------------------------
(***************************************************************************)
(* The durable state that the dispatch, monitoring, cancellation and       *)
(* recovery code share: the movement_orders, racks and locations tables    *)
(* (models.py), the task each order has in the RCS, and the program        *)
(* counters of the handlers that talk to the RCS outside a transaction.    *)
(*                                                                         *)
(* One step is one SQLite transaction, one network event, or one step of   *)
(* the RCS.  Claims, applied answers and moves take SQLite's writer lock   *)
(* (a conditional or a dummy UPDATE) before they read what they decide     *)
(* upon, so they are atomic.  The transactions that store a reply or       *)
(* compensate read first and lock at their first UPDATE: their few         *)
(* statements are taken as atomic too, an assumption (README).  Whatever   *)
(* spans a commit or a network call is a handler with a program counter.   *)
(***************************************************************************)
EXTENDS Naturals, FiniteSets

CONSTANTS
  Orders,         \* identities the movement_orders table may hand out
  Racks, Cells,   \* rows of racks and locations, all of them enabled
  NoRack,         \* locations.rack_id IS NULL
  NoCell,         \* the cells of a row not inserted yet
  Monitor,        \* the TaskMonitor thread
  ManualQueries,  \* concurrent POST .../status-query requests
  CancelKinds,    \* subset of {"total", "undo"}: forceCancel 0 and 1
  AdminActions,   \* subset of AllAdminActions: what an administrator does
  MaxCancelPosts, \* bound: cancelTask requests per order
  MaxOverrides,   \* bound: closings by an administrator
  MaxCrashes      \* bound: restarts of the server process

AllAdminActions == {"force_close", "cleanup", "release", "reserve", "position", "simulate"}

ASSUME NoRackAssumption == NoRack \notin Racks
ASSUME NoCellAssumption == NoCell \notin Cells
ASSUME MonitorAssumption == Monitor \notin ManualQueries
ASSUME CancelKindsAssumption == CancelKinds \subseteq {"total", "undo"}
ASSUME AdminActionsAssumption == AdminActions \subseteq AllAdminActions
ASSUME BoundsAssumption ==
  MaxCancelPosts \in Nat /\ MaxOverrides \in Nat /\ MaxCrashes \in Nat

Observers == {Monitor} \cup ManualQueries

VARIABLES
  status,      \* movement_orders.status, "none" for a row not inserted yet
  dispatch,    \* dispatch_status; # "not_sent" iff dispatch_request_json is stored
  rcs,         \* rcs_status, "other" for every value that is not terminal
  recon,       \* rcs_message starts with LOCAL_RECONCILIATION_PREFIX
  task,        \* remote_task_code is stored
  forced,      \* forced_local_close
  rackOf, src, dst,
  rackStatus,  \* racks.status
  cellRack,    \* locations.rack_id
  remote,      \* the order's task in the RCS, and its createTask request
  createPosts, \* createTask requests that left for this order
  cancelPosts, \* cancelTask requests that left for this order
  sender,      \* the request handler inside _dispatch_movement_order
  canceller,   \* the request handler inside _execute_cancel_for_order
  poller,      \* the rack-position-poll thread of the order
  observer,    \* a status query and what is left to do with its answer
  crashes, overrides

orderVars == <<status, dispatch, rcs, recon, task, forced>>
routeVars == <<rackOf, src, dst>>
floorVars == <<rackStatus, cellRack>>
wireVars  == <<remote, createPosts, cancelPosts>>
procVars  == <<sender, canceller, poller, observer>>
envVars   == <<crashes, overrides>>
vars == <<orderVars, routeVars, floorVars, wireVars, procVars, envVars>>

-----------------------------------------------------------------------------
(* The vocabularies of the status columns. *)

\* fifo_service.ORDER_STATUSES_WITH_DESTINATION_RESERVATION
Movable == {"pending_dispatch", "dispatched", "in_progress"}
CancelRequested == {"cancel_requested_total", "cancel_requested_undo"}
\* RACK_RESERVATION_ACTIVE_STATUSES; "cancel_error" is listed there, but no code assigns it.
ReservationActive == Movable \cup CancelRequested
\* TERMINAL_LOCAL_STATUSES without "undone", which only rows of older versions hold.
TerminalLocal == {"completed", "cancelled", "failed", "dispatch_error",
                  "forced_local_closed", "simulated_completed"}
Statuses == {"none"} \cup ReservationActive \cup TerminalLocal

RemoteDone == {"completed", "cancelled", "failed"}
RemoteTask == {"created", "running"} \cup RemoteDone    \* the RCS has a task
RemoteLive == {"inflight", "created", "running"}        \* it may still move the rack
RemoteStates == {"none", "inflight", "refused"} \cup RemoteTask

Answers == {"dispatched", "in_progress"} \cup RemoteDone
IdleObserver == [pc |-> "idle"]
Observations == [pc : {"record", "apply", "move", "close", "position"}, order : Orders, seen : Answers]

TypeOK ==
  /\ status \in [Orders -> Statuses]
  /\ dispatch \in [Orders -> {"not_sent", "uncertain", "success", "error"}]
  /\ rcs \in [Orders -> {"other"} \cup RemoteDone]
  /\ recon \in [Orders -> BOOLEAN]
  /\ task \in [Orders -> BOOLEAN]
  /\ forced \in [Orders -> BOOLEAN]
  /\ rackOf \in [Orders -> Racks \cup {NoRack}]
  /\ src \in [Orders -> Cells \cup {NoCell}]
  /\ dst \in [Orders -> Cells \cup {NoCell}]
  /\ rackStatus \in [Racks -> {"available", "reserved"}]
  /\ cellRack \in [Cells -> Racks \cup {NoRack}]
  /\ remote \in [Orders -> RemoteStates]
  /\ createPosts \in [Orders -> Nat]
  /\ cancelPosts \in [Orders -> Nat]
  /\ sender \in [Orders -> {"idle", "claimed", "waiting", "rejected"}]
  /\ canceller \in [Orders -> {"idle", "claimed", "waiting"}]
  /\ poller \in [Orders -> {"off", "on", "query"}]
  /\ observer \in [Observers -> {IdleObserver} \cup Observations]
  /\ crashes \in Nat
  /\ overrides \in Nat

-----------------------------------------------------------------------------
(* Predicates and updates used by every handler. *)

Active(o) == status[o] \in ReservationActive
Closed(o) == status[o] \in TerminalLocal

\* local_reconciliation_pending: the RCS is done and the local move is not.
ReconciliationPending(o) ==
  /\ status[o] \in Movable \cup {"cancel_requested_undo"}
  /\ rcs[o] \in {"completed", "cancelled"}
  /\ recon[o]

\* _active_orders_for_rack, without order o when it is excluded.
ActiveOrdersOf(r) == {p \in Orders : Active(p) /\ rackOf[p] = r}
\* Mutant: a release that does not look for other orders.
NobodyElse(o) == FALSE
OtherActive(o) == ActiveOrdersOf(rackOf[o]) \ {o} # {}

\* _ensure_rack_available, _release_rack_if_no_active_orders: the rack becomes
\* available unless another active order holds it.
ReleaseRack(o) ==
  rackStatus' = [rackStatus EXCEPT ![rackOf[o]] = IF OtherActive(o) THEN @ ELSE "available"]

\* apply_rack_reservation_status(rack, True)
ReserveRack(o) == rackStatus' = [rackStatus EXCEPT ![rackOf[o]] = "reserved"]

\* locations.rack_id is UNIQUE: the code clears the old cell, then sets the new one.
PlaceRack(r, c) ==
  cellRack' = [x \in Cells |-> IF x = c THEN r
                               ELSE IF cellRack[x] = r THEN NoRack ELSE cellRack[x]]

\* Any inventory and no order: racks stand in at most one cell each.
Init ==
  /\ cellRack \in {f \in [Cells -> Racks \cup {NoRack}] :
                     \A c, e \in Cells : f[c] = f[e] /\ f[c] # NoRack => c = e}
  /\ rackStatus = [r \in Racks |-> "available"]
  /\ status = [o \in Orders |-> "none"]
  /\ dispatch = [o \in Orders |-> "not_sent"]
  /\ rcs = [o \in Orders |-> "other"]
  /\ recon = [o \in Orders |-> FALSE]
  /\ task = [o \in Orders |-> FALSE]
  /\ forced = [o \in Orders |-> FALSE]
  /\ rackOf = [o \in Orders |-> NoRack]
  /\ src = [o \in Orders |-> NoCell]
  /\ dst = [o \in Orders |-> NoCell]
  /\ remote = [o \in Orders |-> "none"]
  /\ createPosts = [o \in Orders |-> 0]
  /\ cancelPosts = [o \in Orders |-> 0]
  /\ sender = [o \in Orders |-> "idle"]
  /\ canceller = [o \in Orders |-> "idle"]
  /\ poller = [o \in Orders |-> "off"]
  /\ observer = [w \in Observers |-> IdleObserver]
  /\ crashes = 0
  /\ overrides = 0
=============================================================================
