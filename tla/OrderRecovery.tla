---------------------------- MODULE OrderRecovery ----------------------------
(***************************************************************************)
(* What an administrator may do to orders, racks and cells (main.py): the  *)
(* extraordinary local close, the cleanup of orders the RCS has ended, the *)
(* manual reservation and release of a rack, a position query, and the     *)
(* simulated completion of an order that was never sent.  Ages and the     *)
(* freshness of an observation are nondeterministic: an answer recorded    *)
(* as final may or may not still count as evidence.                        *)
(***************************************************************************)
EXTENDS OrderMonitor

\* _safe_local_release_evidence, when the recorded answer is fresh enough.
Evidence(o) ==
  /\ task[o] /\ rcs[o] \in RemoteDone
  /\ ~ReconciliationPending(o) /\ status[o] # "cancel_requested_undo"

\* _force_close_old_active_order: without evidence, or with evidence of a
\* completion whose move was not made, the close is extraordinary.
ForcedStatus(o) ==
  IF Evidence(o) /\ rcs[o] # "completed" THEN rcs[o] ELSE "forced_local_closed"

\* Local override of the orders in DOMAIN final: the RCS is told nothing.
CloseByHand(final) ==
  /\ status' = [p \in Orders |-> IF p \in DOMAIN final THEN final[p] ELSE status[p]]
  /\ forced' = [p \in Orders |-> forced[p] \/ p \in DOMAIN final]

\* POST .../force-release-old-active-racks with confirm_local_only and a reason.
ForceClose(o) ==
  /\ "force_close" \in AdminActions /\ overrides < MaxOverrides
  /\ Active(o) /\ ActiveOrdersOf(rackOf[o]) = {o}
  /\ \E final \in {"forced_local_closed", ForcedStatus(o)} :
       CloseByHand([p \in {o} |-> final])
  /\ ReleaseRack(o)
  /\ overrides' = overrides + 1
  /\ UNCHANGED <<dispatch, rcs, recon, task, routeVars, cellRack, wireVars, procVars, crashes>>

\* _validate_cleanup_order_eligible
CleanupEligible(o) ==
  /\ Active(o) /\ Evidence(o)
  /\ status[o] \in {"cancel_requested_total", "dispatched"} \/ rcs[o] = "failed"

\* POST .../cleanup-close-inconsistent-orders
CleanupClose(o) ==
  /\ "cleanup" \in AdminActions /\ overrides < MaxOverrides
  /\ CleanupEligible(o)
  /\ CloseByHand([p \in {o} |-> IF rcs[p] = "failed" THEN "failed" ELSE "cancelled"])
  /\ ReleaseRack(o)
  /\ overrides' = overrides + 1
  /\ UNCHANGED <<dispatch, rcs, recon, task, routeVars, cellRack, wireVars, procVars, crashes>>

\* PUT .../racks/{id}/reservation with reserved = 0: _manual_release_rack_or_raise
\* closes what it may and refuses if any active order remains.
ReleaseByHand(r) ==
  /\ "release" \in AdminActions
  /\ rackStatus[r] = "reserved"
  /\ \A p \in ActiveOrdersOf(r) : CleanupEligible(p) /\ overrides < MaxOverrides
  /\ CloseByHand([p \in ActiveOrdersOf(r) |-> ForcedStatus(p)])
  /\ rackStatus' = [rackStatus EXCEPT ![r] = "available"]
  /\ overrides' = IF ActiveOrdersOf(r) = {} THEN overrides ELSE overrides + 1
  /\ UNCHANGED <<dispatch, rcs, recon, task, routeVars, cellRack, wireVars, procVars, crashes>>

ReserveByHand(r) ==
  /\ "reserve" \in AdminActions
  /\ rackStatus' = [rackStatus EXCEPT ![r] = "reserved"]
  /\ UNCHANGED <<orderVars, routeVars, cellRack, wireVars, procVars, envVars>>

\* Mutant: only the rack's own orders protect it.
OnlyRackProtected(r, c) == \A p \in Orders : Active(p) => rackOf[p] # r
\* _guard_admin_inventory_edit for the rack, its cells and the reported cell.
NotProtected(r, c) ==
  \A p \in Orders : Active(p) =>
    /\ rackOf[p] # r
    /\ \A x \in {src[p], dst[p]} : x # c /\ cellRack[x] # r

\* POST /api/rcs/pod-position, under _guard_admin_inventory_edit: no active
\* order may use the rack, its cells or the reported cell.
PlaceByHand(r, c) ==
  /\ "position" \in AdminActions
  /\ cellRack[c] \in {NoRack, r}
  /\ NotProtected(r, c)
  /\ PlaceRack(r, c)
  /\ rackStatus' = [rackStatus EXCEPT ![r] = "available"]
  /\ UNCHANGED <<orderVars, routeVars, wireVars, procVars, envVars>>

\* POST .../simulate-complete with the simulator on: only for an order whose
\* creation was never attempted.
SimulateComplete(o) ==
  /\ "simulate" \in AdminActions /\ overrides < MaxOverrides
  /\ dispatch[o] = "not_sent" /\ ~task[o]
  /\ MovePossible(o)
  /\ MoveRack(o)
  /\ CloseByHand([p \in {o} |-> "simulated_completed"])
  /\ overrides' = overrides + 1
  /\ UNCHANGED <<dispatch, rcs, recon, task, routeVars, wireVars, procVars, crashes>>

RecoveryNext ==
  \/ \E o \in Orders : ForceClose(o) \/ CleanupClose(o) \/ SimulateComplete(o)
  \/ \E r \in Racks :
       \/ ReleaseByHand(r) \/ ReserveByHand(r)
       \/ \E c \in Cells : PlaceByHand(r, c)
=============================================================================
