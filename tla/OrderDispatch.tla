---------------------------- MODULE OrderDispatch ----------------------------
(***************************************************************************)
(* Creating a movement order (fifo_service.py), sending its createTask     *)
(* request to the RCS once (main._dispatch_movement_order), compensating a *)
(* creation that the RCS surely refused, and the RCS itself, external: a   *)
(* request may be refused, lost, or accepted long after the client gave up *)
(* on it, and a task runs and ends on its own.                             *)
(***************************************************************************)
EXTENDS OrderState

\* _reserved_destination_cell_ids
\* Mutant: with ORDER_STATUSES_WITH_DESTINATION_RESERVATION instead.
MovableDestinations == {dst[p] : p \in {q \in Orders : status[q] \in Movable}}
ReservedDestinations == {dst[p] : p \in {q \in Orders : Active(q)}}

\* The WHERE of the UPDATE that claims the rack.
\* Mutant: without its NOT EXISTS (an active order of the rack).
RackLooksAvailable(r) == rackStatus[r] = "available"
RackClaimable(r) == rackStatus[r] = "available" /\ ActiveOrdersOf(r) = {}

(* _claim_movement_resources followed by the INSERT: one transaction that    *)
(* starts with a conditional UPDATE of the rack.  The callers are            *)
(* execute_direct_move_request, execute_fifo_request and                     *)
(* execute_any_available..., the last of which may keep the rack's own cell. *)
CreateOrder(o, r, s, d) ==
  /\ status[o] = "none"
  /\ RackClaimable(r)
  /\ cellRack[s] = r
  /\ cellRack[d] = NoRack \/ d = s
  /\ d \notin ReservedDestinations
  /\ status' = [status EXCEPT ![o] = "pending_dispatch"]
  /\ rackOf' = [rackOf EXCEPT ![o] = r]
  /\ src' = [src EXCEPT ![o] = s]
  /\ dst' = [dst EXCEPT ![o] = d]
  /\ rackStatus' = [rackStatus EXCEPT ![r] = "reserved"]
  /\ UNCHANGED <<dispatch, rcs, recon, task, forced, cellRack, wireVars, procVars, envVars>>

-----------------------------------------------------------------------------
(* _dispatch_movement_order, run by the creating request or by the manual    *)
(* dispatch endpoint.                                                        *)

\* Its WHERE.  Mutant: an uncertain attempt may be repeated.
NotAccepted(o) == status[o] = "pending_dispatch" /\ dispatch[o] # "error" /\ ~task[o]
NeverAttempted(o) == status[o] = "pending_dispatch" /\ dispatch[o] = "not_sent" /\ ~task[o]

\* The conditional UPDATE that claims the only right to call createTask.
ClaimDispatch(o) ==
  /\ NeverAttempted(o)
  /\ dispatch' = [dispatch EXCEPT ![o] = "uncertain"]
  /\ rcs' = [rcs EXCEPT ![o] = "other"]
  /\ recon' = [recon EXCEPT ![o] = FALSE]
  /\ sender' = [sender EXCEPT ![o] = "claimed"]
  /\ UNCHANGED <<status, task, forced, routeVars, floorVars, wireVars,
                 canceller, poller, observer, envVars>>

SendCreate(o) ==
  /\ sender[o] = "claimed"
  /\ sender' = [sender EXCEPT ![o] = "waiting"]
  /\ createPosts' = [createPosts EXCEPT ![o] = @ + 1]
  /\ remote' = [remote EXCEPT ![o] = IF @ = "none" THEN "inflight" ELSE @]
  /\ UNCHANGED <<orderVars, routeVars, floorVars, cancelPosts,
                 canceller, poller, observer, envVars>>

\* Every outcome stores a message of its own, without the reconciliation prefix.
StoreOutcome(o, outcome, known, next) ==
  /\ dispatch' = [dispatch EXCEPT ![o] = outcome]
  /\ task' = [task EXCEPT ![o] = @ \/ known]
  /\ rcs' = [rcs EXCEPT ![o] = "other"]
  /\ recon' = [recon EXCEPT ![o] = FALSE]
  /\ sender' = [sender EXCEPT ![o] = next]

\* RcsNotSentError: the request provably never left.
CreateNotSent(o) ==
  /\ sender[o] = "claimed"
  /\ StoreOutcome(o, "error", FALSE, "rejected")
  /\ UNCHANGED <<status, forced, routeVars, floorVars, wireVars,
                 canceller, poller, observer, envVars>>

CreateAccepted(o) ==
  /\ sender[o] = "waiting" /\ remote[o] \in RemoteTask
  /\ StoreOutcome(o, "success", TRUE, "idle")
  /\ status' = [status EXCEPT ![o] = IF @ = "pending_dispatch" THEN "dispatched" ELSE @]
  /\ UNCHANGED <<forced, routeVars, floorVars, wireVars,
                 canceller, poller, observer, envVars>>

CreateRejected(o) ==
  /\ sender[o] = "waiting" /\ remote[o] = "refused"
  /\ StoreOutcome(o, "error", FALSE, "rejected")
  /\ UNCHANGED <<status, forced, routeVars, floorVars, wireVars,
                 canceller, poller, observer, envVars>>

\* dispatch_status of an outcome the reply does not settle.
\* Mutant: treated as a rejection.
Rejected == "error"
Unsettled == "uncertain"

\* A timeout, a broken reply, a foreign reqCode, a taskCode missing from an
\* acceptance or present in a rejection: everything stays held.
CreateUncertain(o) ==
  /\ sender[o] = "waiting"
  /\ \E known \in {FALSE, remote[o] \in RemoteTask} : StoreOutcome(o, Unsettled, known, "idle")
  /\ UNCHANGED <<status, forced, routeVars, floorVars, wireVars,
                 canceller, poller, observer, envVars>>

\* _rollback_unsuccessful_order_dispatch, past its two early returns.
Compensate(o) ==
  /\ status' = [status EXCEPT ![o] = "dispatch_error"]
  /\ dispatch' = [dispatch EXCEPT ![o] = "error"]
  /\ rcs' = [rcs EXCEPT ![o] = "other"]
  /\ recon' = [recon EXCEPT ![o] = FALSE]
  /\ ReleaseRack(o)

CompensationDue(o) ==
  status[o] # "dispatch_error" /\ dispatch[o] # "uncertain" /\ ~task[o]

\* The caller of _dispatch_movement_order, in a transaction of its own.
Rollback(o) ==
  /\ sender[o] = "rejected"
  /\ sender' = [sender EXCEPT ![o] = "idle"]
  /\ IF CompensationDue(o)
       THEN Compensate(o)
       ELSE UNCHANGED <<status, dispatch, rcs, recon, rackStatus>>
  /\ UNCHANGED <<task, forced, routeVars, cellRack, wireVars,
                 canceller, poller, observer, envVars>>

\* POST .../dispatch on an order whose rejection was stored before a crash.
ManualRollback(o) ==
  /\ dispatch[o] = "error" /\ CompensationDue(o)
  /\ Compensate(o)
  /\ UNCHANGED <<task, forced, routeVars, cellRack, wireVars, procVars, envVars>>

-----------------------------------------------------------------------------
(* The RCS (external). *)

RcsStep(o, from, to) ==
  /\ remote[o] \in from
  /\ \E state \in to : remote' = [remote EXCEPT ![o] = state]
  /\ UNCHANGED <<orderVars, routeVars, floorVars, createPosts, cancelPosts, procVars, envVars>>

RcsReceives(o) == RcsStep(o, {"inflight"}, {"created", "refused"})
RcsStarts(o) == RcsStep(o, {"created"}, {"running"})
\* Also what a cancelTask request leads to, and what an operator of the RCS does.
RcsEnds(o) == RcsStep(o, {"created", "running"}, RemoteDone)

DispatchNext ==
  \E o \in Orders :
    \/ \E r \in Racks, s, d \in Cells : CreateOrder(o, r, s, d)
    \/ ClaimDispatch(o) \/ SendCreate(o)
    \/ CreateNotSent(o) \/ CreateAccepted(o) \/ CreateRejected(o) \/ CreateUncertain(o)
    \/ Rollback(o) \/ ManualRollback(o)
    \/ RcsReceives(o) \/ RcsStarts(o) \/ RcsEnds(o)
=============================================================================
